--------------------------- MODULE ImageTimeline ---------------------------
(***************************************************************************)
(* ImageFromFile: the JPEG files of a directory, named after the second    *)
(* they were taken in, are sorted and grouped by second; then the thread   *)
(* that feeds the pipeline fetches one image after the other, with a       *)
(* cursor of two indexes, for ever.                                        *)
(*                                                                         *)
(* A file is its number in the sorted list; its name is reduced to the two *)
(* digits of the second.  The content of the images is left out.           *)
(***************************************************************************)
EXTENDS Integers, Sequences

CONSTANTS Seconds,     \* numbers the file names may begin with
          MaxFiles     \* bound on the files of the directory

ASSUME TimelineAssumption == Seconds \subseteq Nat /\ MaxFiles \in Nat

VARIABLES
    jpegFileNames,       \* the second of each file, in the order of names
    loaded,              \* files the loop of createImageTimeline is done with
    currentSecondNum,
    m_imagesBySeconds,   \* for each second that has files, their numbers
    m_currentSecondIdx, m_currentFrameIdx,
    state,               \* "loading", "ready", or "crashed"
    out                  \* the image getImageData returned last, or 0

cursor == <<m_currentSecondIdx, m_currentFrameIdx>>
vars == <<jpegFileNames, loaded, currentSecondNum, m_imagesBySeconds,
          m_currentSecondIdx, m_currentFrameIdx, state, out>>

Sorted(names) == \A i \in 1..(Len(names) - 1) : names[i] <= names[i + 1]

Directories == UNION {[1..n -> Seconds] : n \in 0..MaxFiles}

Init ==
    /\ jpegFileNames \in {names \in Directories : Sorted(names)}
    /\ loaded = 0 /\ currentSecondNum = -1
    /\ m_imagesBySeconds = <<>>
    /\ m_currentSecondIdx = 0 /\ m_currentFrameIdx = 0
    /\ state = "loading" /\ out = 0

----------------------------------------------------------------------------
(* createImageTimeline *)
Loading == state = "loading" /\ loaded < Len(jpegFileNames)
Second == jpegFileNames[loaded + 1]

CurrentSecond ==
    /\ Loading /\ Second = currentSecondNum
    /\ m_imagesBySeconds' =
         [m_imagesBySeconds EXCEPT ![Len(m_imagesBySeconds)] = Append(@, loaded + 1)]
    /\ loaded' = loaded + 1
    /\ UNCHANGED <<jpegFileNames, currentSecondNum, cursor, state, out>>

NextSecond_bySecond ==
    /\ Loading /\ Second # currentSecondNum
    /\ m_imagesBySeconds' = Append(m_imagesBySeconds, <<loaded>>)
    /\ currentSecondNum' = Second
    /\ loaded' = loaded + 1
    /\ UNCHANGED <<jpegFileNames, cursor, state, out>>
NextSecond ==
    /\ Loading /\ Second # currentSecondNum
    /\ m_imagesBySeconds' = Append(m_imagesBySeconds, <<loaded + 1>>)
    /\ currentSecondNum' = Second
    /\ loaded' = loaded + 1
    /\ UNCHANGED <<jpegFileNames, cursor, state, out>>

(* The size is read from the first image of the first second: without one, *)
(* front() of an empty vector is dereferenced.                             *)
FrameParameters ==
    /\ state = "loading" /\ loaded = Len(jpegFileNames)
    /\ state' = IF m_imagesBySeconds = <<>> THEN "crashed" ELSE "ready"
    /\ UNCHANGED <<jpegFileNames, loaded, currentSecondNum, m_imagesBySeconds, cursor, out>>

createImageTimeline == CurrentSecond \/ NextSecond \/ FrameParameters

----------------------------------------------------------------------------
(* getImageData *)
Images == m_imagesBySeconds[m_currentSecondIdx + 1]

MoveIndexes_noWrap ==
    IF m_currentFrameIdx + 1 = Len(Images)
      THEN /\ m_currentFrameIdx' = 0
           /\ m_currentSecondIdx' = IF m_currentSecondIdx + 1 < Len(m_imagesBySeconds)
                                      THEN m_currentSecondIdx + 1 ELSE m_currentSecondIdx
      ELSE /\ m_currentFrameIdx' = m_currentFrameIdx + 1
           /\ UNCHANGED m_currentSecondIdx
MoveIndexes ==
    IF m_currentFrameIdx + 1 = Len(Images)
      THEN /\ m_currentFrameIdx' = 0
           /\ m_currentSecondIdx' = (m_currentSecondIdx + 1) % Len(m_imagesBySeconds)
      ELSE /\ m_currentFrameIdx' = m_currentFrameIdx + 1
           /\ UNCHANGED m_currentSecondIdx

getImageData ==
    /\ state = "ready"
    /\ out' = Images[m_currentFrameIdx + 1]
    /\ MoveIndexes
    /\ UNCHANGED <<jpegFileNames, loaded, currentSecondNum, m_imagesBySeconds, state>>

Next == createImageTimeline \/ getImageData

Spec == Init /\ [][Next]_vars

----------------------------------------------------------------------------
(* The cursor's type is its place: between two calls it points at an       *)
(* image, although seconds have different numbers of images.               *)
TypeOK ==
    /\ jpegFileNames \in Directories
    /\ loaded \in 0..Len(jpegFileNames)
    /\ currentSecondNum \in Seconds \cup {-1}
    /\ m_imagesBySeconds \in Seq(Seq(1..MaxFiles))
    /\ m_currentSecondIdx \in Nat /\ m_currentFrameIdx \in Nat
    /\ state \in {"loading", "ready", "crashed"}
    /\ state = "ready" => /\ m_currentSecondIdx < Len(m_imagesBySeconds)
                          /\ m_currentFrameIdx < Len(Images)
    /\ out \in 0..MaxFiles

(* Grouped by second, the files played in a circle are the sorted list: no *)
(* image is skipped, repeated or lost at the boundary of two seconds.      *)
List == INSTANCE Playlist
          WITH length <- IF state = "ready" THEN Len(jpegFileNames) ELSE 0,
               shown <- out
ImplementsPlaylist == List!Spec
=============================================================================
