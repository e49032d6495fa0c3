-------------------------- MODULE RecordingProofs --------------------------
(***************************************************************************)
(* Proofs about the recordings the client plays when there is no drone:    *)
(* the directory of images (ImageTimeline), for every set of seconds and   *)
(* every number of files, and the telemetry beside a video                 *)
(* (TelemetryIndex), for every set of lines, rows and positions.           *)
(*                                                                         *)
(* The images that are grouped by second are consecutive numbers, within a *)
(* second and from the last of one to the first of the next.  That says    *)
(* where the cursor goes without saying how many images come before it.    *)
(* Of the table of telemetry both directions are kept: every row that was  *)
(* parsed has its seat or lost it to a later one, and whoever has a seat   *)
(* belongs there.                                                          *)
(***************************************************************************)
EXTENDS ImageTimeline, TelemetryIndex, TLAPS

Groups == m_imagesBySeconds
Files == Len(jpegFileNames)
Last(group) == group[Len(group)]

(* The types that do not speak of the groups. *)
Scalars ==
    /\ jpegFileNames \in Directories
    /\ loaded \in 0..Files
    /\ currentSecondNum \in Seconds \cup {-1}
    /\ state \in {"loading", "ready", "crashed"}
    /\ out \in 0..Files

(* Consecutive numbers, from 1 to the number of files that are loaded. *)
Group(group) ==
    /\ group \in Seq(1..loaded) /\ group # <<>>
    /\ \A f \in 1..(Len(group) - 1) : group[f + 1] = group[f] + 1
Grouped ==
    /\ Groups \in Seq(Seq(Nat))
    /\ \A s \in 1..Len(Groups) : Group(Groups[s])
    /\ \A s \in 1..(Len(Groups) - 1) : Groups[s + 1][1] = Last(Groups[s]) + 1
    /\ IF Groups = <<>>
         THEN loaded = 0 /\ currentSecondNum = -1
         ELSE Groups[1][1] = 1 /\ Last(Last(Groups)) = loaded

(* The cursor points at the successor of the image that was returned last. *)
AtNext ==
    /\ m_currentSecondIdx \in 0..(Len(Groups) - 1)
    /\ m_currentFrameIdx \in 0..(Len(Images) - 1)
    /\ Images[m_currentFrameIdx + 1] = (out % Files) + 1
Cursor ==
    CASE state = "loading" -> m_currentSecondIdx = 0 /\ m_currentFrameIdx = 0 /\ out = 0
      [] state = "ready"   -> loaded = Files /\ Groups # <<>> /\ AtNext
      [] OTHER             -> m_currentSecondIdx = 0 /\ m_currentFrameIdx = 0

IInv == Scalars /\ Grouped /\ Cursor

----------------------------------------------------------------------------
LEMMA DirectoryIsSeq ==
    ASSUME jpegFileNames \in Directories
    PROVE  /\ jpegFileNames \in Seq(Seconds)
           /\ Files \in 0..MaxFiles
<1>1. PICK n \in 0..MaxFiles : jpegFileNames \in [1..n -> Seconds]
  BY DEF Directories
<1>2. n \in Nat
  BY <1>1, TimelineAssumption
<1>3. Len(jpegFileNames) = n /\ jpegFileNames \in Seq(Seconds)
  BY <1>1, <1>2
<1> QED BY <1>1, <1>3 DEF Files

(* Going round: the remainder of a successor.                              *)
LEMMA Below ==
    ASSUME NEW length \in Nat \ {0}, NEW n \in 0..(length - 1)
    PROVE  n % length = n
OBVIOUS

LEMMA Round ==
    ASSUME NEW length \in Nat \ {0}, NEW n \in 0..(length - 1)
    PROVE  (n + 1) % length = IF n + 1 = length THEN 0 ELSE n + 1
<1>1. \A m \in 0..(length - 1) : m % length = m
  BY Below
<1>2. length % length = 0
  OBVIOUS
<1> QED BY <1>1, <1>2

LEMMA InitIInv ==
    ASSUME Init
    PROVE  IInv
<1>1. jpegFileNames \in Directories /\ Files \in Nat
  BY DirectoryIsSeq, TimelineAssumption DEF Init
<1>2. Scalars
  BY <1>1 DEF Init, Scalars
<1>3. Grouped
  BY DEF Init, Grouped, Groups
<1>4. Cursor
  BY DEF Init, Cursor
<1> QED BY <1>2, <1>3, <1>4 DEF IInv

----------------------------------------------------------------------------
(* createImageTimeline. *)
LEMMA GroupGrows ==
    ASSUME NEW n \in Nat, NEW group \in Seq(1..n), group # <<>>,
           \A f \in 1..(Len(group) - 1) : group[f + 1] = group[f] + 1,
           Last(group) = n
    PROVE  LET grown == Append(group, n + 1) IN
           /\ grown \in Seq(1..(n + 1)) /\ grown # <<>>
           /\ \A f \in 1..(Len(grown) - 1) : grown[f + 1] = grown[f] + 1
           /\ grown[1] = group[1] /\ Last(grown) = n + 1
<1> DEFINE grown == Append(group, n + 1)
<1>1. /\ Len(group) \in Nat \ {0} /\ Len(grown) = Len(group) + 1
      /\ \A f \in 1..Len(group) : grown[f] = group[f]
      /\ grown[Len(group) + 1] = n + 1
  OBVIOUS
<1>2. grown \in Seq(1..(n + 1))
  <2>1. group \in Seq(1..(n + 1))
    <3>1. \A f \in 1..Len(group) : group[f] \in 1..(n + 1)
      OBVIOUS
    <3> QED BY <3>1
  <2> QED BY <2>1
<1>3. grown # <<>>
  BY <1>1
<1>4. \A f \in 1..(Len(grown) - 1) : grown[f + 1] = grown[f] + 1
  <2> TAKE f \in 1..(Len(grown) - 1)
  <2>1. CASE f = Len(group)
    BY <1>1, <2>1 DEF Last
  <2>2. CASE f # Len(group)
    <3>1. f \in 1..(Len(group) - 1) /\ f \in 1..Len(group) /\ f + 1 \in 1..Len(group)
      BY <1>1, <2>2
    <3> QED BY <1>1, <3>1
  <2> QED BY <2>1, <2>2
<1>5. grown[1] = group[1] /\ Last(grown) = n + 1
  BY <1>1 DEF Last
<1> QED BY <1>2, <1>3, <1>4, <1>5

LEMMA Widen ==
    ASSUME NEW n \in Nat, NEW group \in Seq(1..n)
    PROVE  group \in Seq(1..(n + 1)) /\ group \in Seq(Nat)
<1>1. \A f \in 1..Len(group) : group[f] \in 1..(n + 1) /\ group[f] \in Nat
  OBVIOUS
<1> QED BY <1>1

LEMMA ElementsDecide ==
    ASSUME NEW S, NEW T, NEW sequence \in Seq(S),
           \A k \in 1..Len(sequence) : sequence[k] \in T
    PROVE  sequence \in Seq(T)
OBVIOUS

LEMMA ElementsBelong ==
    ASSUME NEW S, NEW sequence \in Seq(S)
    PROVE  \A k \in 1..Len(sequence) : sequence[k] \in S
OBVIOUS

LEMMA GroupFacts ==
    ASSUME NEW group, Group(group)
    PROVE  /\ group \in Seq(1..loaded) /\ Len(group) \in Nat \ {0}
           /\ \A f \in 1..Len(group) : group[f] \in 1..loaded
           /\ \A f \in 1..(Len(group) - 1) : group[f + 1] = group[f] + 1
<1>1. group \in Seq(1..loaded) /\ group # <<>>
  BY DEF Group
<1>2. \A f \in 1..Len(group) : group[f] \in 1..loaded
  BY <1>1, ElementsBelong, Zenon
<1>3. Len(group) \in Nat \ {0}
  BY <1>1
<1>4. \A f \in 1..(Len(group) - 1) : group[f + 1] = group[f] + 1
  BY DEF Group
<1> QED BY <1>1, <1>2, <1>3, <1>4

LEMMA LoadedIsNat ==
    ASSUME Scalars
    PROVE  loaded \in Nat /\ Files \in Nat
BY DirectoryIsSeq, TimelineAssumption DEF Scalars

(* A file of the current second goes to the last group, which ends with    *)
(* the file before it.                                                     *)
LEMMA CurrentSecondGroups ==
    ASSUME IInv, CurrentSecond
    PROVE  Grouped'
<1> DEFINE L == Len(Groups)
<1>1. loaded \in Nat /\ loaded' = loaded + 1 /\ currentSecondNum' = currentSecondNum
  BY LoadedIsNat DEF IInv, CurrentSecond
<1>2. currentSecondNum \in Nat
  BY DirectoryIsSeq, TimelineAssumption
  DEF IInv, Scalars, CurrentSecond, Loading, Second, Files
<1>3. /\ Groups \in Seq(Seq(Nat)) /\ Groups # <<>> /\ L \in Nat \ {0}
      /\ Groups[1][1] = 1 /\ Last(Groups[L]) = loaded
  BY <1>2 DEF IInv, Grouped, Last
<1>4. \A s \in 1..L : Group(Groups[s])
  BY DEF IInv, Grouped
<1>5. /\ Groups[L] \in Seq(1..loaded) /\ Groups[L] # <<>>
      /\ \A f \in 1..(Len(Groups[L]) - 1) : Groups[L][f + 1] = Groups[L][f] + 1
  BY <1>3, <1>4 DEF Group
<1> DEFINE grown == Append(Groups[L], loaded + 1)
<1>6. /\ grown \in Seq(1..(loaded + 1)) /\ grown # <<>>
      /\ \A f \in 1..(Len(grown) - 1) : grown[f + 1] = grown[f] + 1
      /\ grown[1] = Groups[L][1] /\ Last(grown) = loaded + 1
  BY <1>1, <1>3, <1>5, GroupGrows
<1>7. Groups' = [Groups EXCEPT ![L] = grown]
  BY DEF CurrentSecond, Groups
<1> HIDE DEF grown
<1>8. /\ Len(Groups') = L /\ Groups'[L] = grown
      /\ \A s \in 1..(L - 1) : Groups'[s] = Groups[s]
      /\ DOMAIN Groups' = 1..L
  BY <1>3, <1>7
<1>9. \A s \in 1..L : Groups'[s] \in Seq(1..(loaded + 1)) /\ Group(Groups[s])'
  <2> TAKE s \in 1..L
  <2>1. CASE s = L
    BY <1>1, <1>6, <1>8, <2>1 DEF Group
  <2>2. CASE s # L
    <3>1. Groups'[s] = Groups[s] /\ Group(Groups[s])
      <4>1. s \in 1..(L - 1)
        BY <1>3, <2>2
      <4> QED BY <1>4, <1>8, <4>1
    <3>2. Groups[s] \in Seq(1..(loaded + 1))
      BY <1>1, <3>1, Widen DEF Group
    <3> QED BY <1>1, <3>1, <3>2 DEF Group
  <2> QED BY <2>1, <2>2
<1>10. Groups' \in Seq(Seq(Nat))
  <2>1. grown \in Seq(Nat)
    BY <1>1, <1>6
  <2> QED BY <1>3, <1>7, <2>1
<1>11. \A s \in 1..(L - 1) : Groups'[s + 1][1] = Last(Groups'[s]) + 1
  <2> TAKE s \in 1..(L - 1)
  <2>1. Groups[s + 1][1] = Last(Groups[s]) + 1
    BY DEF IInv, Grouped
  <2>2. Groups'[s + 1][1] = Groups[s + 1][1]
    BY <1>6, <1>8
  <2>3. Groups'[s] = Groups[s]
    BY <1>8
  <2> QED BY <2>1, <2>2, <2>3 DEF Last
<1>12. Groups' # <<>> /\ Groups'[1][1] = 1 /\ Last(Last(Groups')) = loaded + 1
  <2>1. Groups'[1][1] = Groups[1][1]
    BY <1>3, <1>6, <1>8
  <2> QED BY <1>3, <1>6, <1>8, <2>1 DEF Last
<1> QED BY <1>1, <1>8, <1>9, <1>10, <1>11, <1>12 DEF Grouped, Last

(* A file of another second begins the next group.                         *)
LEMMA NextSecondGroups ==
    ASSUME IInv, NextSecond
    PROVE  Grouped'
<1> DEFINE L == Len(Groups)
           fresh == <<loaded + 1>>
<1>1. loaded \in Nat /\ loaded' = loaded + 1 /\ currentSecondNum' # -1
  <2>1. loaded \in Nat /\ loaded' = loaded + 1 /\ currentSecondNum' = Second /\ Loading
    BY LoadedIsNat DEF IInv, NextSecond
  <2>2. Second \in Seconds
    BY <2>1, DirectoryIsSeq DEF IInv, Scalars, Loading, Second
  <2> QED BY <2>1, <2>2, TimelineAssumption
<1>2. Groups \in Seq(Seq(Nat)) /\ L \in Nat
  BY DEF IInv, Grouped
<1>3. \A s \in 1..L : Group(Groups[s])
  BY DEF IInv, Grouped
<1>4. /\ fresh \in Seq(1..(loaded + 1)) /\ Len(fresh) = 1 /\ fresh[1] = loaded + 1
      /\ fresh # <<>>
  BY <1>1
<1>5. Groups' = Append(Groups, fresh)
  BY DEF NextSecond, Groups
<1> HIDE DEF fresh
<1>6. /\ Len(Groups') = L + 1 /\ Groups'[L + 1] = fresh
      /\ \A s \in 1..L : Groups'[s] = Groups[s]
  BY <1>2, <1>5
<1>7. \A s \in 1..(L + 1) : Groups'[s] \in Seq(1..(loaded + 1)) /\ Group(Groups[s])'
  <2> TAKE s \in 1..(L + 1)
  <2>1. CASE s = L + 1
    BY <1>1, <1>4, <1>6, <2>1 DEF Group
  <2>2. CASE s # L + 1
    <3>1. s \in 1..L
      BY <1>2, <2>2
    <3>2. Groups'[s] = Groups[s] /\ Group(Groups[s])
      BY <1>3, <1>6, <3>1
    <3>3. Groups[s] \in Seq(1..(loaded + 1))
      BY <1>1, <3>2, Widen DEF Group
    <3> QED BY <1>1, <3>2, <3>3 DEF Group
  <2> QED BY <2>1, <2>2
<1>8. Groups' \in Seq(Seq(Nat))
  <2>1. fresh \in Seq(Nat)
    BY <1>1 DEF fresh
  <2> QED BY <1>2, <1>5, <2>1
<1>9. \A s \in 1..L : Groups'[s + 1][1] = Last(Groups'[s]) + 1
  <2> TAKE s \in 1..L
  <2>1. CASE s = L
    <3>1. Last(Groups[L]) = loaded
      BY <1>2, <2>1 DEF IInv, Grouped, Last
    <3> QED BY <1>4, <1>6, <2>1, <3>1
  <2>2. CASE s # L
    <3>1. Groups[s + 1][1] = Last(Groups[s]) + 1
      BY <1>2, <2>2 DEF IInv, Grouped
    <3>2. Groups'[s + 1] = Groups[s + 1] /\ Groups'[s] = Groups[s]
      <4>1. s \in 1..L /\ s + 1 \in 1..L
        BY <1>2, <2>2
      <4> QED BY <1>6, <4>1
    <3> QED BY <3>1, <3>2
  <2> QED BY <2>1, <2>2
<1>10. Groups' # <<>> /\ Groups'[1][1] = 1 /\ Last(Last(Groups')) = loaded + 1
  <2>1. Groups' # <<>> /\ Last(Groups') = fresh
    BY <1>2, <1>6 DEF Last
  <2>2. Groups'[1][1] = 1
    <3>1. CASE L = 0
      BY <1>2, <1>4, <1>6, <3>1 DEF IInv, Grouped
    <3>2. CASE L # 0
      <4>1. Groups[1][1] = 1 /\ Groups'[1] = Groups[1]
        BY <1>2, <1>6, <3>2 DEF IInv, Grouped
      <4> QED BY <4>1
    <3> QED BY <3>1, <3>2
  <2>3. Last(fresh) = loaded + 1
    BY <1>4 DEF Last
  <2> QED BY <2>1, <2>2, <2>3
<1> QED BY <1>1, <1>2, <1>6, <1>7, <1>8, <1>9, <1>10 DEF Grouped

LEMMA TimelineKeeps ==
    ASSUME IInv, createImageTimeline
    PROVE  IInv'
<1>1. /\ loaded \in Nat /\ Files \in Nat
      /\ UNCHANGED <<jpegFileNames, Files, m_currentSecondIdx, m_currentFrameIdx, out>>
  BY LoadedIsNat
  DEF IInv, createImageTimeline, CurrentSecond, NextSecond, FrameParameters, Files, cursor
<1>2. state = "loading" /\ m_currentSecondIdx = 0 /\ m_currentFrameIdx = 0 /\ out = 0
  BY DEF IInv, Cursor, createImageTimeline, CurrentSecond, NextSecond, FrameParameters, Loading
<1>3. CASE CurrentSecond \/ NextSecond
  <2>1. Grouped'
    BY <1>3, CurrentSecondGroups, NextSecondGroups
  <2>2. /\ state' = "loading" /\ loaded' = loaded + 1 /\ loaded < Files
        /\ currentSecondNum' \in {currentSecondNum, Second}
    BY <1>2, <1>3 DEF CurrentSecond, NextSecond, Loading, Files
  <2>3. Second \in Seconds
    BY <1>1, <2>2, DirectoryIsSeq DEF IInv, Scalars, Second, Files
  <2>4. Scalars'
    BY <1>1, <2>2, <2>3 DEF IInv, Scalars
  <2>5. Cursor'
    BY <1>1, <1>2, <2>2 DEF Cursor
  <2> QED BY <2>1, <2>4, <2>5 DEF IInv
<1>4. CASE FrameParameters
  <2>1. /\ UNCHANGED <<loaded, currentSecondNum, Groups>> /\ loaded = Files
        /\ state' = IF Groups = <<>> THEN "crashed" ELSE "ready"
    BY <1>4 DEF FrameParameters, Groups, Files
  <2>2. Scalars'
    BY <1>1, <2>1 DEF IInv, Scalars
  <2>5. Grouped'
    BY <1>1, <2>1 DEF IInv, Grouped, Group, Last
  <2>3. CASE Groups = <<>>
    <3>1. state' = "crashed" /\ m_currentSecondIdx' = 0 /\ m_currentFrameIdx' = 0
      BY <1>1, <1>2, <2>1, <2>3
    <3>2. Cursor'
      BY <3>1 DEF Cursor
    <3> QED BY <2>2, <2>5, <3>2 DEF IInv
  <2>4. CASE Groups # <<>>
    <3>1. /\ Groups \in Seq(Seq(Nat)) /\ Len(Groups) \in Nat \ {0}
          /\ Groups[1] # <<>> /\ Groups[1] \in Seq(1..loaded) /\ Groups[1][1] = 1
      BY <2>4 DEF IInv, Grouped, Group
    <3>2. loaded > 0 /\ Len(Groups[1]) \in Nat \ {0}
      BY <1>1, <3>1
    <3>3. Images' = Groups[1]
      BY <1>1, <1>2, <2>1 DEF Images, Groups
    <3>4. 0 % Files = 0
      BY <1>1, <2>1, <3>2
    <3>5. AtNext'
      BY <1>1, <1>2, <2>1, <3>1, <3>2, <3>3, <3>4 DEF AtNext
    <3>6. state' = "ready" /\ loaded' = Files' /\ Groups' # <<>>
      BY <1>1, <2>1, <2>4
    <3>7. Cursor'
      BY <3>5, <3>6 DEF Cursor
    <3> QED BY <2>2, <2>5, <3>7 DEF IInv
  <2> QED BY <2>3, <2>4
<1> QED BY <1>3, <1>4 DEF createImageTimeline

----------------------------------------------------------------------------
(* getImageData. *)
LEMMA ImagesAreLoaded ==
    ASSUME IInv, state = "ready"
    PROVE  /\ loaded = Files /\ Files \in Nat \ {0}
           /\ Groups \in Seq(Seq(Nat)) /\ Len(Groups) \in Nat \ {0}
           /\ m_currentSecondIdx \in 0..(Len(Groups) - 1) /\ Images = Groups[m_currentSecondIdx + 1]
           /\ Group(Images) /\ Len(Images) \in Nat \ {0}
           /\ m_currentFrameIdx \in 0..(Len(Images) - 1)
           /\ Images[m_currentFrameIdx + 1] \in 1..Files
           /\ Images[m_currentFrameIdx + 1] = (out % Files) + 1
<1>1. AtNext /\ loaded = Files /\ Groups # <<>>
  BY DEF IInv, Cursor
<1>2. Groups \in Seq(Seq(Nat)) /\ Len(Groups) \in Nat \ {0}
  BY <1>1 DEF IInv, Grouped
<1>3. Images = Groups[m_currentSecondIdx + 1] /\ m_currentSecondIdx + 1 \in 1..Len(Groups)
  BY <1>1, <1>2 DEF Images, AtNext, Groups
<1>4. Group(Images) /\ Images \in Seq(1..Files)
  BY <1>1, <1>3 DEF IInv, Grouped, Group
<1>5. Len(Images) \in Nat \ {0}
  BY <1>4 DEF Group
<1>6. Images[m_currentFrameIdx + 1] \in 1..Files
  <2>1. m_currentFrameIdx + 1 \in 1..Len(Images)
    BY <1>1, <1>5 DEF AtNext
  <2> QED BY <1>1, <1>4, <2>1, GroupFacts
<1>7. Files \in Nat
  BY LoadedIsNat DEF IInv
<1> QED BY <1>1, <1>2, <1>3, <1>4, <1>5, <1>6, <1>7 DEF AtNext

LEMMA PlayingKeeps ==
    ASSUME IInv, getImageData
    PROVE  IInv'
<1> DEFINE S == m_currentSecondIdx
           F == m_currentFrameIdx
           image == Images[F + 1]
<1>1. state = "ready" /\ state' = "ready" /\ out' = image
  BY DEF getImageData
<1>2. UNCHANGED <<jpegFileNames, loaded, currentSecondNum, Groups, Files>>
  BY DEF getImageData, Groups, Files
<1>3. /\ loaded = Files /\ Files \in Nat \ {0}
      /\ Groups \in Seq(Seq(Nat)) /\ Len(Groups) \in Nat \ {0}
      /\ S \in 0..(Len(Groups) - 1) /\ Images = Groups[S + 1]
      /\ Group(Images) /\ Len(Images) \in Nat \ {0}
      /\ F \in 0..(Len(Images) - 1) /\ image \in 1..Files
  BY <1>1, ImagesAreLoaded
<1>4. Scalars' /\ Grouped'
  BY <1>1, <1>2, <1>3 DEF IInv, Scalars, Grouped, Group, Last
<1>5. Images' = Groups[S' + 1]
  BY <1>2 DEF Images, Groups
<1>6. \A s \in 1..Len(Groups) : Group(Groups[s]) /\ Len(Groups[s]) \in Nat \ {0}
  BY <1>3, GroupFacts DEF IInv, Grouped
<1>7. AtNext'
  <2>1. CASE F + 1 # Len(Images)
    <3>1. F' = F + 1 /\ S' = S
      BY <2>1 DEF getImageData, MoveIndexes
    <3>2. Images' = Images
      BY <1>3, <1>5, <3>1
    <3>5. F + 1 \in 1..(Len(Images) - 1) /\ F + 2 = (F + 1) + 1 /\ F + 2 \in 1..Len(Images)
      BY <1>3, <2>1
    <3>3. Images[F + 2] = image + 1 /\ Images[F + 2] \in 1..Files
      <4>1. Images[(F + 1) + 1] = Images[F + 1] + 1
        BY <1>3, <3>5, GroupFacts
      <4>2. Images[F + 2] \in 1..Files
        BY <1>3, <3>5, GroupFacts
      <4> QED BY <3>5, <4>1, <4>2
    <3>4. image % Files = image
      <4>1. image \in 0..(Files - 1)
        BY <1>3, <3>3
      <4> QED BY <1>3, <4>1, Below
    <3> QED BY <1>1, <1>2, <1>3, <3>1, <3>2, <3>3, <3>4, <3>5 DEF AtNext
  <2>2. CASE F + 1 = Len(Images) /\ S + 1 # Len(Groups)
    <3>1. F' = 0 /\ S' = (S + 1) % Len(Groups)
      BY <2>2 DEF getImageData, MoveIndexes, Groups
    <3>2. S' = S + 1
      BY <1>3, <2>2, <3>1, Round
    <3>3. Images' = Groups[S + 2] /\ S + 2 \in 1..Len(Groups) /\ S + 1 \in 1..(Len(Groups) - 1)
      BY <1>3, <1>5, <2>2, <3>2
    <3>4. Images'[1] = image + 1
      <4>1. Groups[(S + 1) + 1][1] = Last(Groups[S + 1]) + 1
        BY <3>3 DEF IInv, Grouped
      <4>2. (S + 1) + 1 = S + 2 /\ Last(Groups[S + 1]) = image
        BY <1>3, <2>2 DEF Last
      <4> QED BY <3>3, <4>1, <4>2
    <3>5. Group(Images') /\ Len(Images') \in Nat \ {0}
      BY <1>6, <3>3
    <3>6. Images'[1] \in 1..Files
      BY <1>3, <3>5, GroupFacts
    <3>7. image % Files = image
      <4>1. image \in Nat /\ Files \in Nat \ {0}
        BY <1>3
      <4>2. image + 1 \in 1..Files
        BY <3>4, <3>6, Zenon
      <4> HIDE DEF image
      <4>3. image \in 0..(Files - 1)
        BY <4>1, <4>2
      <4> QED BY <4>1, <4>3, Below
    <3>8. S' \in 0..(Len(Groups') - 1) /\ F' \in 0..(Len(Images') - 1)
      BY <1>2, <1>3, <3>1, <3>2, <3>3, <3>5
    <3>9. Images'[F' + 1] = (out' % Files') + 1
      BY <1>1, <1>2, <3>1, <3>4, <3>7
    <3> QED BY <3>8, <3>9 DEF AtNext
  <2>3. CASE F + 1 = Len(Images) /\ S + 1 = Len(Groups)
    <3>1. F' = 0 /\ S' = (S + 1) % Len(Groups)
      BY <2>3 DEF getImageData, MoveIndexes, Groups
    <3>2. S' = 0
      BY <1>3, <2>3, <3>1, Round
    <3>3. Images' = Groups[1]
      BY <1>5, <3>2
    <3>4. image = Files /\ Images'[1] = 1
      BY <1>3, <2>3, <3>3 DEF IInv, Grouped, Last
    <3>5. Len(Images') \in Nat \ {0}
      BY <1>3, <1>6, <3>3
    <3>6. image % Files = 0
      BY <1>3, <3>4
    <3> QED BY <1>1, <1>2, <1>3, <3>1, <3>2, <3>4, <3>5, <3>6 DEF AtNext
  <2> QED BY <2>1, <2>2, <2>3
<1>8. Cursor'
  BY <1>1, <1>2, <1>3, <1>7 DEF Cursor
<1> QED BY <1>4, <1>8 DEF IInv

----------------------------------------------------------------------------
LEMMA Invariance == Spec => []IInv
<1>1. ASSUME IInv, [Next]_vars
      PROVE  IInv'
  <2>1. CASE createImageTimeline
    BY <1>1, <2>1, TimelineKeeps
  <2>2. CASE getImageData
    BY <1>1, <2>2, PlayingKeeps
  <2>3. CASE UNCHANGED vars
    <3>1. UNCHANGED <<jpegFileNames, loaded, currentSecondNum, m_imagesBySeconds,
                      m_currentSecondIdx, m_currentFrameIdx, state, out>>
      BY <2>3 DEF vars
    <3>2. Scalars' /\ Grouped'
      BY <1>1, <3>1 DEF IInv, Scalars, Files, Grouped, Group, Groups, Last
    <3>3. Cursor'
      BY <1>1, <3>1 DEF IInv, Cursor, AtNext, Images, Groups, Files
    <3> QED BY <3>2, <3>3 DEF IInv
  <2> QED BY <1>1, <2>1, <2>2, <2>3 DEF Next
<1> QED BY <1>1, InitIInv, PTL DEF Spec

(* The two indexes of getImageData point at an image whenever it may be    *)
(* called, whatever the numbers of images in the seconds.                  *)
THEOREM TypeCorrect == Spec => []TypeOK
<1>1. IInv => TypeOK
  <2> SUFFICES ASSUME IInv
               PROVE  TypeOK
    OBVIOUS
  <2>1. Files \in 0..MaxFiles /\ Files \in Nat /\ loaded \in 0..Files
    BY DirectoryIsSeq, LoadedIsNat DEF IInv, Scalars
  <2>2. Groups \in Seq(Seq(1..MaxFiles))
    <3>1. 1..loaded \subseteq 1..MaxFiles
      BY <2>1, TimelineAssumption
    <3>2. ASSUME NEW s \in 1..Len(Groups)
          PROVE  Groups[s] \in Seq(1..MaxFiles)
      <4>1. Group(Groups[s])
        BY DEF IInv, Grouped
      <4>2. Groups[s] \in Seq(1..loaded)
        BY <4>1, GroupFacts
      <4>3. \A f \in 1..Len(Groups[s]) : Groups[s][f] \in 1..MaxFiles
        BY <3>1, <4>1, GroupFacts
      <4> QED BY <4>2, <4>3, ElementsDecide
    <3>3. Groups \in Seq(Seq(Nat))
      BY DEF IInv, Grouped
    <3> QED BY <3>2, <3>3, ElementsDecide
  <2>3. m_currentSecondIdx \in Nat /\ m_currentFrameIdx \in Nat
    <3>1. CASE state = "ready"
      BY <3>1, ImagesAreLoaded
    <3>2. CASE state # "ready"
      BY <3>2 DEF IInv, Cursor
    <3> QED BY <3>1, <3>2
  <2>4. state = "ready" => /\ m_currentSecondIdx < Len(m_imagesBySeconds)
                           /\ m_currentFrameIdx < Len(Images)
    BY ImagesAreLoaded DEF Groups
  <2>5. out \in 0..MaxFiles
    BY <2>1, TimelineAssumption DEF IInv, Scalars
  <2> QED BY <2>1, <2>2, <2>3, <2>4, <2>5 DEF IInv, Scalars, TypeOK, Files, Groups
<1> QED BY <1>1, Invariance, PTL

(* Every call of getImageData returns the next image of the sorted list,   *)
(* and the first after the last: loading and playing by second implement a *)
(* playlist.                                                               *)
THEOREM DirectoryIsPlayed == Spec => ImplementsPlaylist
<1> DEFINE length == IF state = "ready" THEN Len(jpegFileNames) ELSE 0
<1>1. Init => List!Init
  BY DEF Init, List!Init
<1>2. ASSUME IInv, [Next]_vars
      PROVE  [List!Load \/ List!Show]_List!vars
  <2>1. CASE CurrentSecond \/ NextSecond
    <3>1. state = "loading" /\ state' = "loading" /\ out' = out
      BY <2>1 DEF CurrentSecond, NextSecond, Loading
    <3> QED BY <3>1 DEF List!vars
  <2>2. CASE FrameParameters
    <3>1. /\ state = "loading" /\ out' = out /\ jpegFileNames' = jpegFileNames
          /\ loaded = Files /\ state' = IF Groups = <<>> THEN "crashed" ELSE "ready"
      BY <2>2 DEF FrameParameters, Groups, Files
    <3>2. CASE Groups = <<>>
      BY <3>1, <3>2 DEF List!vars
    <3>3. CASE Groups # <<>>
      <4>1. Groups[1][1] = 1 /\ Group(Groups[1])
        BY <1>2, <3>3 DEF IInv, Grouped
      <4>2. Files \in Nat \ {0}
        BY <1>2, <3>1, <4>1, GroupFacts, LoadedIsNat DEF IInv
      <4> QED BY <3>1, <3>3, <4>2 DEF List!Load, Files
    <3> QED BY <3>2, <3>3
  <2>3. CASE getImageData
    <3>1. /\ state = "ready" /\ state' = "ready" /\ jpegFileNames' = jpegFileNames
          /\ out' = Images[m_currentFrameIdx + 1]
      BY <2>3 DEF getImageData
    <3>2. Files \in Nat \ {0} /\ out' = (out % Files) + 1
      BY <1>2, <3>1, ImagesAreLoaded
    <3> QED BY <3>1, <3>2 DEF List!Show, Files
  <2>4. CASE UNCHANGED vars
    BY <2>4 DEF vars, List!vars
  <2> QED BY <1>2, <2>1, <2>2, <2>3, <2>4 DEF Next, createImageTimeline
<1> QED BY <1>1, <1>2, Invariance, PTL DEF Spec, ImplementsPlaylist, List!Spec

----------------------------------------------------------------------------
(* The telemetry beside a video (TelemetryIndex), which shares no variable *)
(* with the directory of images.                                           *)
RowCount == Len(parsedCSV)
SecondIn(file, n) == IntPart(file[n].time)
TenthIn(file, n) == FractPart(file[n].time)
SecondOf(n) == SecondIn(parsedCSV, n)
TenthOf(n) == TenthIn(parsedCSV, n)

(* What the table may hold for a second, and the types. *)
Seats == {EmptySecond} \cup [Tenths -> 0..RowCount]
RowTypes ==
    /\ parsedCSV \in Recordings /\ i \in 0..RowCount
    /\ table \in Seq(Seats)
    /\ playback \in {"parsing", "playing", "undefined"}
    /\ playback = "playing" => i = RowCount
    /\ position \in Positions \cup {0} /\ query \in {"answered", "failed"}
    /\ sent \in 0..RowCount

(* Every row that was parsed has a seat, which a later one may have taken, *)
(* and who sits there belongs there.                                       *)
HasSeat(n, second, tenth) ==
    /\ second + 1 \in 1..Len(table) /\ table[second + 1] # EmptySecond
    /\ tenth \in Tenths /\ table[second + 1][tenth] >= n
Seated == \A n \in 1..i : HasSeat(n, SecondOf(n), TenthOf(n))
InPlace ==
    \A s \in 1..Len(table), t \in Tenths :
        table[s] # EmptySecond /\ table[s][t] # 0 =>
            /\ table[s][t] \in 1..i
            /\ SecondIn(parsedCSV, table[s][t]) = s - 1
            /\ TenthIn(parsedCSV, table[s][t]) = t

(* A recording without holes leaves none in the table. *)
NoHoles == Seamless => \A s \in 1..Len(table) : table[s] # EmptySecond

TelemetryInv ==
    RowTypes /\ Seated /\ InPlace /\ NoHoles /\ SeamlessIsParsed

----------------------------------------------------------------------------
LEMMA RecordingIsSeq ==
    ASSUME parsedCSV \in Recordings
    PROVE  /\ parsedCSV \in Seq(Lines) /\ RowCount \in Nat
           /\ \A n \in 1..RowCount : parsedCSV[n].time \in Nat
<1>1. PICK n \in 0..MaxRows : parsedCSV \in [1..n -> Lines]
  BY DEF Recordings
<1>2. n \in Nat /\ Lines \subseteq [time : Nat, kind : Kinds]
  BY <1>1, TelemetryAssumption
<1>3. parsedCSV \in Seq(Lines) /\ Len(parsedCSV) = n
  BY <1>1, <1>2
<1>4. \A m \in 1..n : parsedCSV[m] \in Lines
  BY <1>1
<1> QED BY <1>2, <1>3, <1>4 DEF RowCount

LEMMA TimeTypes ==
    ASSUME RowTypes, NEW n \in 1..RowCount
    PROVE  SecondOf(n) \in Nat /\ TenthOf(n) \in Nat
<1>1. parsedCSV[n].time \in Nat
  BY RecordingIsSeq DEF RowTypes
<1> QED BY <1>1 DEF SecondOf, TenthOf, SecondIn, TenthIn, IntPart, FractPart

(* Room for ten rows is not room for none.                                 *)
LEMMA RoomIsNotEmpty ==
    ASSUME NEW S, NEW room \in [Tenths -> S]
    PROVE  room # EmptySecond
<1>1. DOMAIN room = 0..9
  BY DEF Tenths
<1>2. DOMAIN EmptySecond = {}
  BY DEF EmptySecond
<1>3. 0 \in 0..9 /\ 0 \notin {}
  OBVIOUS
<1> QED BY <1>1, <1>2, <1>3, Zenon

(* A row is added to a table: it takes its seat, the others keep theirs,   *)
(* and seconds that were skipped have no seats.                            *)
Added(before, after, second, tenth, row) ==
    /\ after \in Seq(Seats)
    /\ second \in 1..Len(after) /\ Len(before) <= Len(after)
    /\ after[second] # EmptySecond /\ after[second][tenth] = row
    /\ \A s \in 1..Len(before) : before[s] # EmptySecond =>
          /\ after[s] # EmptySecond
          /\ \A t \in Tenths : <<s, t>> # <<second, tenth>> => after[s][t] = before[s][t]
    /\ \A s \in 1..Len(after), t \in Tenths :
          after[s] # EmptySecond /\ after[s][t] # 0 /\ <<s, t>> # <<second, tenth>> =>
              s \in 1..Len(before) /\ before[s] # EmptySecond /\ after[s][t] = before[s][t]

LEMMA AddedKeeps ==
    ASSUME TelemetryInv, i < RowCount,
           i' = i + 1, parsedCSV' = parsedCSV,
           TenthOf(i + 1) \in Tenths,
           Added(table, table', SecondOf(i + 1) + 1,
                 TenthOf(i + 1), i + 1)
    PROVE  Seated' /\ InPlace'
<1> DEFINE row == i + 1
           second == SecondOf(row) + 1
           tenth == TenthOf(row)
<1>1. /\ RowCount \in Nat /\ i \in Nat /\ row \in 1..RowCount
      /\ Len(table) \in Nat /\ Len(table') \in Nat
  BY RecordingIsSeq DEF TelemetryInv, RowTypes, Added
<1>2. \A n \in 1..RowCount : SecondOf(n)' = SecondOf(n) /\ TenthOf(n)' = TenthOf(n)
  BY DEF SecondOf, TenthOf
<1>3. Added(table, table', second, tenth, row)
  OBVIOUS
<1>4. Seated'
  <2> SUFFICES ASSUME NEW n \in 1..row
               PROVE  /\ SecondOf(n) + 1 \in 1..Len(table')
                      /\ table'[SecondOf(n) + 1] # EmptySecond
                      /\ TenthOf(n) \in Tenths
                      /\ table'[SecondOf(n) + 1][TenthOf(n)] >= n
    <3>1. \A n \in 1..row : SecondOf(n)' = SecondOf(n) /\ TenthOf(n)' = TenthOf(n)
      BY <1>1, <1>2
    <3> QED BY <3>1 DEF Seated, HasSeat, Tenths, EmptySecond
  <2>1. CASE n = row
    BY <1>1, <1>3, <2>1 DEF Added
  <2>2. CASE n # row
    <3>1. n \in 1..i
      BY <1>1, <2>2
    <3>2. /\ SecondOf(n) + 1 \in 1..Len(table) /\ table[SecondOf(n) + 1] # EmptySecond
          /\ TenthOf(n) \in Tenths /\ table[SecondOf(n) + 1][TenthOf(n)] >= n
      BY <3>1 DEF TelemetryInv, Seated, HasSeat
    <3>3. SecondOf(n) + 1 \in 1..Len(table') /\ table'[SecondOf(n) + 1] # EmptySecond
      BY <1>1, <1>3, <3>2 DEF Added
    <3>4. CASE <<SecondOf(n) + 1, TenthOf(n)>> = <<second, tenth>>
      <4>1. table'[SecondOf(n) + 1][TenthOf(n)] = row
        BY <1>3, <3>4 DEF Added
      <4> QED BY <1>1, <3>1, <3>2, <3>3, <4>1
    <3>5. CASE <<SecondOf(n) + 1, TenthOf(n)>> # <<second, tenth>>
      <4>1. table'[SecondOf(n) + 1][TenthOf(n)] = table[SecondOf(n) + 1][TenthOf(n)]
        BY <1>3, <3>2, <3>5, Zenon DEF Added
      <4> QED BY <3>2, <3>3, <4>1
    <3> QED BY <3>4, <3>5
  <2> QED BY <2>1, <2>2
<1>5. InPlace'
  <2> SUFFICES ASSUME NEW s \in 1..Len(table'), NEW t \in Tenths,
                      table'[s] # EmptySecond, table'[s][t] # 0
               PROVE  /\ table'[s][t] \in 1..row
                      /\ SecondIn(parsedCSV, table'[s][t]) = s - 1
                      /\ TenthIn(parsedCSV, table'[s][t]) = t
    BY DEF InPlace, Tenths, EmptySecond
  <2>1. CASE <<s, t>> = <<second, tenth>>
    <3>1. table'[s][t] = row /\ s = second /\ t = tenth
      BY <1>3, <2>1 DEF Added
    <3>2. SecondOf(row) \in Nat
      BY <1>1, TimeTypes DEF TelemetryInv
    <3> QED BY <1>1, <3>1, <3>2 DEF SecondOf, TenthOf
  <2>2. CASE <<s, t>> # <<second, tenth>>
    <3>1. s \in 1..Len(table) /\ table[s] # EmptySecond /\ table'[s][t] = table[s][t]
      BY <1>3, <2>2, Zenon DEF Added
    <3>2. /\ table[s][t] \in 1..i
          /\ SecondIn(parsedCSV, table[s][t]) = s - 1 /\ TenthIn(parsedCSV, table[s][t]) = t
      BY <3>1 DEF TelemetryInv, InPlace
    <3> QED BY <1>1, <3>1, <3>2
  <2> QED BY <2>1, <2>2
<1> QED BY <1>4, <1>5

----------------------------------------------------------------------------
(* parseTelemetryFile: both ways of adding a row. *)
LEMMA RowAtHand ==
    ASSUME TelemetryInv, Parsing
    PROVE  /\ RowCount \in Nat /\ i \in Nat /\ i < RowCount
           /\ i + 1 \in 1..RowCount
           /\ IntPart(Time) = SecondOf(i + 1)
           /\ FractPart(Time) = TenthOf(i + 1)
           /\ SecondOf(i + 1) \in Nat
<1>1. /\ RowCount \in Nat /\ i \in Nat /\ i < RowCount
      /\ i + 1 \in 1..RowCount
  BY RecordingIsSeq DEF TelemetryInv, RowTypes, Parsing, RowCount
<1>2. SecondOf(i + 1) \in Nat
  BY <1>1, TimeTypes DEF TelemetryInv
<1> QED BY <1>1, <1>2 DEF SecondOf, TenthOf, SecondIn, TenthIn, Time

LEMMA NewSecondAdds ==
    ASSUME TelemetryInv, NewSecond
    PROVE  /\ Added(table, table', SecondOf(i + 1) + 1,
                    TenthOf(i + 1), i + 1)
           /\ Len(table') = SecondOf(i + 1) + 1
           /\ Len(table) < Len(table')
<1> DEFINE row == i + 1
           second == SecondOf(row) + 1
           tenth == TenthOf(row)
           room == [t \in Tenths |-> IF t = tenth THEN row ELSE 0]
<1>1. /\ IntPart(Time) = SecondOf(row)
      /\ FractPart(Time) = tenth
      /\ RowCount \in Nat /\ row \in 1..RowCount /\ SecondOf(row) \in Nat
  BY RowAtHand DEF NewSecond
<1>2. table \in Seq(Seats) /\ Len(table) \in Nat
  BY DEF TelemetryInv, RowTypes
<1>3. tenth \in Tenths /\ SecondOf(row) >= Len(table)
  BY <1>1 DEF NewSecond, Fits, table, Tenths
<1>4. table' = [s \in 1..second |-> CASE s <= Len(table) -> table[s]
                                      [] s = second      -> room
                                      [] OTHER           -> EmptySecond]
  BY <1>1 DEF NewSecond, table, Tenths, EmptySecond, NoRow
<1> HIDE DEF room
<1>5. /\ room \in [Tenths -> 0..RowCount] /\ room[tenth] = row
      /\ \A t \in Tenths : t # tenth => room[t] = 0
  BY <1>1, <1>3 DEF room
<1>6. room # EmptySecond
  BY <1>5, RoomIsNotEmpty
<1>7. /\ Len(table') = second /\ second \in Nat /\ Len(table) < second
      /\ \A s \in 1..Len(table) : s \in 1..second /\ table'[s] = table[s]
      /\ table'[second] = room
      /\ \A s \in 1..second : s \notin 1..Len(table) /\ s # second => table'[s] = EmptySecond
  BY <1>1, <1>2, <1>3, <1>4
<1>8. table' \in Seq(Seats)
  <2>1. \A s \in 1..second : table'[s] \in Seats
    <3> TAKE s \in 1..second
    <3>1. CASE s \in 1..Len(table)
      BY <1>2, <1>7, <3>1, ElementsBelong
    <3>2. CASE s = second
      BY <1>5, <1>7, <3>2 DEF Seats
    <3>3. CASE s \notin 1..Len(table) /\ s # second
      BY <1>7, <3>3 DEF Seats
    <3> QED BY <3>1, <3>2, <3>3
  <2>2. table' = [s \in 1..second |-> table'[s]]
    BY <1>4
  <2> QED BY <1>7, <2>1, <2>2
<1>9. ASSUME NEW s \in 1..Len(table'), NEW t \in Tenths,
             table'[s] # EmptySecond, table'[s][t] # 0, <<s, t>> # <<second, tenth>>
      PROVE  s \in 1..Len(table) /\ table[s] # EmptySecond /\ table'[s][t] = table[s][t]
  <2>1. s # second
    BY <1>5, <1>7, <1>9
  <2> QED BY <1>7, <1>9, <2>1
<1>10. second \in 1..Len(table') /\ Len(table) <= Len(table')
  BY <1>1, <1>2, <1>7
<1> QED BY <1>5, <1>6, <1>7, <1>8, <1>9, <1>10 DEF Added

LEMMA SecondExistsAdds ==
    ASSUME TelemetryInv, SecondExists
    PROVE  /\ Added(table, table', SecondOf(i + 1) + 1,
                    TenthOf(i + 1), i + 1)
           /\ Len(table') = Len(table)
<1> DEFINE row == i + 1
           second == SecondOf(row) + 1
           tenth == TenthOf(row)
           room == [table[second] EXCEPT ![tenth] = row]
<1>1. /\ IntPart(Time) = SecondOf(row)
      /\ FractPart(Time) = tenth
      /\ RowCount \in Nat /\ row \in 1..RowCount /\ SecondOf(row) \in Nat
  BY RowAtHand DEF SecondExists
<1>2. table \in Seq(Seats) /\ Len(table) \in Nat
  BY DEF TelemetryInv, RowTypes
<1>3. /\ tenth \in Tenths /\ second \in 1..Len(table) /\ table[second] # EmptySecond
      /\ table' = [table EXCEPT ![second] = room]
  BY <1>1, <1>2
  DEF SecondExists, Fits, Rows, table, Tenths, EmptySecond
<1>4. table[second] \in [Tenths -> 0..RowCount]
  BY <1>2, <1>3, ElementsBelong DEF Seats
<1>5. /\ room \in [Tenths -> 0..RowCount] /\ room[tenth] = row
      /\ \A t \in Tenths : t # tenth => room[t] = table[second][t]
  BY <1>1, <1>3, <1>4
<1> HIDE DEF room
<1>6. room # EmptySecond
  BY <1>5, RoomIsNotEmpty
<1>7. /\ Len(table') = Len(table) /\ table'[second] = room
      /\ \A s \in 1..Len(table) : s # second => table'[s] = table[s]
  BY <1>2, <1>3
<1>8. table' \in Seq(Seats)
  <2>1. room \in Seats
    BY <1>5 DEF Seats
  <2> QED BY <1>2, <1>3, <2>1
<1>9. ASSUME NEW s \in 1..Len(table), table[s] # EmptySecond
      PROVE  /\ table'[s] # EmptySecond
             /\ \A t \in Tenths : <<s, t>> # <<second, tenth>> => table'[s][t] = table[s][t]
  BY <1>5, <1>6, <1>7, <1>9
<1>10. ASSUME NEW s \in 1..Len(table'), NEW t \in Tenths,
              table'[s] # EmptySecond, table'[s][t] # 0, <<s, t>> # <<second, tenth>>
       PROVE  s \in 1..Len(table) /\ table[s] # EmptySecond /\ table'[s][t] = table[s][t]
  BY <1>3, <1>5, <1>7, <1>10
<1> QED BY <1>2, <1>3, <1>5, <1>6, <1>7, <1>8, <1>9, <1>10 DEF Added

LEMMA InitTelemetryInv ==
    ASSUME TelemetryInit
    PROVE  TelemetryInv
<1>1. RowCount \in Nat /\ i = 0 /\ table = <<>> /\ sent = 0 /\ playback = "parsing"
  BY RecordingIsSeq DEF TelemetryInit, NoRow, table
<1>2. RowTypes
  BY <1>1 DEF TelemetryInit, RowTypes, table
<1>3. Seated /\ InPlace /\ NoHoles
  BY <1>1 DEF Seated, InPlace, NoHoles
<1>4. SeamlessIsParsed
  BY <1>1 DEF SeamlessIsParsed
<1> QED BY <1>2, <1>3, <1>4 DEF TelemetryInv

(* In a recording without holes the second before a row's is that of an    *)
(* earlier row, so a new second is the next one.                           *)
LEMMA NewSecondKeeps ==
    ASSUME TelemetryInv, NewSecond
    PROVE  TelemetryInv'
<1> DEFINE row == i + 1
           second == SecondOf(row) + 1
           tenth == TenthOf(row)
<1>1. /\ RowCount \in Nat /\ i \in Nat /\ i < RowCount
      /\ row \in 1..RowCount /\ SecondOf(row) \in Nat
      /\ FractPart(Time) = tenth
  BY RowAtHand DEF NewSecond
<1>2. /\ Added(table, table', second, tenth, row)
      /\ Len(table') = second /\ Len(table) < Len(table')
  BY NewSecondAdds
<1>3. /\ i' = row /\ UNCHANGED <<parsedCSV, playback, pollVars>>
      /\ playback = "parsing" /\ tenth \in Tenths
  BY <1>1 DEF NewSecond, Parsing, Fits, Tenths
<1>4. Seated' /\ InPlace'
  BY <1>1, <1>2, <1>3, AddedKeeps
<1>5. RowTypes'
  <2>1. /\ position' \in Positions \cup {0} /\ query' \in {"answered", "failed"}
        /\ sent' \in 0..RowCount /\ playback' = "parsing"
    BY <1>1, <1>3 DEF TelemetryInv, RowTypes, pollVars
  <2> QED
    BY <1>1, <1>2, <1>3, <2>1
    DEF TelemetryInv, RowTypes, Added, Seats, RowCount, Tenths, EmptySecond, table, Recordings
<1>6. NoHoles'
  <2> SUFFICES ASSUME Seamless, NEW s \in 1..Len(table')
               PROVE  table'[s] # EmptySecond
    BY <1>3 DEF NoHoles, EmptySecond, table, Seamless, RowSecond
  <2>1. Len(table) \in Nat /\ \A x \in 1..Len(table) : table[x] # EmptySecond
    BY DEF TelemetryInv, RowTypes, NoHoles
  <2>2. SecondOf(row) <= Len(table)
    <3>1. CASE SecondOf(row) = 0
      BY <2>1, <3>1
    <3>2. CASE SecondOf(row) > 0
      <4>1. PICK m \in 1..(row - 1) : SecondOf(m) = SecondOf(row) - 1
        BY <1>1, <3>2
        DEF Seamless, RowSecond, SecondOf, SecondIn, RowCount
      <4>2. m \in 1..i
        BY <1>1
      <4>3. SecondOf(m) + 1 \in 1..Len(table)
        BY <4>2 DEF TelemetryInv, Seated, HasSeat
      <4> QED BY <1>1, <2>1, <4>1, <4>3
    <3> QED BY <1>1, <3>1, <3>2
  <2>3. CASE s = second
    BY <1>2, <2>3 DEF Added
  <2>4. CASE s # second
    <3>1. s \in 1..Len(table)
      BY <1>1, <1>2, <2>1, <2>2, <2>4
    <3> QED BY <1>2, <2>1, <3>1 DEF Added
  <2> QED BY <2>3, <2>4
<1>7. SeamlessIsParsed'
  BY <1>3 DEF SeamlessIsParsed
<1> QED BY <1>4, <1>5, <1>6, <1>7 DEF TelemetryInv

LEMMA SecondExistsKeeps ==
    ASSUME TelemetryInv, SecondExists
    PROVE  TelemetryInv'
<1> DEFINE row == i + 1
           second == SecondOf(row) + 1
           tenth == TenthOf(row)
<1>1. /\ RowCount \in Nat /\ i \in Nat /\ i < RowCount
      /\ row \in 1..RowCount
      /\ FractPart(Time) = tenth
  BY RowAtHand DEF SecondExists
<1>2. Added(table, table', second, tenth, row) /\ Len(table') = Len(table)
  BY SecondExistsAdds
<1>3. /\ i' = row /\ UNCHANGED <<parsedCSV, playback, pollVars>>
      /\ playback = "parsing" /\ tenth \in Tenths
  BY <1>1 DEF SecondExists, Parsing, Fits, Tenths
<1>4. Seated' /\ InPlace'
  BY <1>1, <1>2, <1>3, AddedKeeps
<1>5. RowTypes'
  <2>1. /\ position' \in Positions \cup {0} /\ query' \in {"answered", "failed"}
        /\ sent' \in 0..RowCount /\ playback' = "parsing"
    BY <1>1, <1>3 DEF TelemetryInv, RowTypes, pollVars
  <2> QED
    BY <1>1, <1>2, <1>3, <2>1
    DEF TelemetryInv, RowTypes, Added, Seats, RowCount, Tenths, EmptySecond, table, Recordings
<1>6. NoHoles'
  <2> SUFFICES ASSUME Seamless, NEW s \in 1..Len(table')
               PROVE  table'[s] # EmptySecond
    BY <1>3 DEF NoHoles, EmptySecond, table, Seamless, RowSecond
  <2>1. s \in 1..Len(table) /\ table[s] # EmptySecond
    BY <1>2 DEF TelemetryInv, NoHoles
  <2> QED BY <1>2, <2>1 DEF Added
<1>7. SeamlessIsParsed'
  BY <1>3 DEF SeamlessIsParsed
<1> QED BY <1>4, <1>5, <1>6, <1>7 DEF TelemetryInv

(* A row of a recording without holes always finds its seat.               *)
LEMMA SeamlessRowFits ==
    ASSUME TelemetryInv, Seamless,
           Parsing
    PROVE  ~OutOfTable
<1> DEFINE row == i + 1
           time == parsedCSV[row].time
<1>1. /\ RowCount \in Nat /\ row \in 1..RowCount /\ SecondOf(row) \in Nat
      /\ IntPart(Time) = SecondOf(row)
  BY RowAtHand
<1>2. time \in Nat
  BY <1>1, RecordingIsSeq DEF TelemetryInv, RowTypes
<1>3. parsedCSV[row].kind = "full" /\ time % 1000 <= 990
  BY <1>1 DEF Seamless, RowCount
<1>4. FractPart(time) \in 0..9
  <2>1. time % 1000 \in 0..990
    BY <1>2, <1>3
  <2> QED BY <2>1 DEF FractPart
<1>5. Fits
  BY <1>3, <1>4 DEF Fits, Time, Tenths
<1>6. ASSUME SecondOf(row) < Len(table)
      PROVE  table[SecondOf(row) + 1] # EmptySecond
  <2>1. table \in Seq(Seats) /\ SecondOf(row) + 1 \in 1..Len(table)
    BY <1>1, <1>6 DEF TelemetryInv, RowTypes
  <2> QED BY <2>1 DEF TelemetryInv, NoHoles
<1> QED BY <1>1, <1>5, <1>6
        DEF OutOfTable, Rows, table, EmptySecond

LEMMA OutOfTableKeeps ==
    ASSUME TelemetryInv, OutOfTable
    PROVE  TelemetryInv'
<1>1. /\ UNCHANGED <<parsedCSV, i, table, pollVars>>
      /\ playback' = "undefined" /\ Parsing
  BY DEF OutOfTable, table
<1>2. ~Seamless
  BY <1>1, SeamlessRowFits
<1>3. (~Seamless)'
  BY <1>1, <1>2 DEF Seamless, RowSecond
<1>4. RowTypes'
  BY <1>1 DEF TelemetryInv, RowTypes, Seats, RowCount, Tenths, EmptySecond, table, Recordings, pollVars
<1>5. Seated' /\ InPlace'
  BY <1>1 DEF TelemetryInv, Seated, HasSeat, InPlace, SecondOf, TenthOf, SecondIn, TenthIn, table,
      Tenths, EmptySecond
<1>6. NoHoles' /\ SeamlessIsParsed'
  BY <1>3 DEF NoHoles, SeamlessIsParsed
<1> QED BY <1>4, <1>5, <1>6 DEF TelemetryInv

(* A step that leaves the file and the table alone.                        *)
LEMMA TableStays ==
    ASSUME TelemetryInv, UNCHANGED <<parsedCSV, i, table>>
    PROVE  /\ Seated' /\ InPlace' /\ NoHoles' /\ table' \in Seq(Seats')
           /\ RowCount' = RowCount /\ parsedCSV' \in Recordings'
           /\ Seamless' = Seamless
<1>1. Seamless' = Seamless
  BY DEF Seamless, RowSecond
<1>2. Seated' /\ InPlace' /\ NoHoles'
  BY <1>1 DEF TelemetryInv, Seated, HasSeat, InPlace, NoHoles, SecondOf, TenthOf, SecondIn, TenthIn,
      table, Tenths, EmptySecond
<1>3. /\ table' \in Seq(Seats') /\ RowCount' = RowCount
      /\ parsedCSV' \in Recordings'
  BY DEF TelemetryInv, RowTypes, Seats, RowCount, Tenths, EmptySecond, table, Recordings
<1> QED BY <1>1, <1>2, <1>3

(* sendCurrentTelemetry: a row that is found is one of the file's, and of  *)
(* the second and the tenth that were polled.                              *)
LEMMA PolledTenthIsOne ==
    ASSUME NEW posMillisec \in Nat
    PROVE  /\ PolledTenth(posMillisec) \in Tenths
           /\ PolledSecond(posMillisec) \in Nat
           /\ posMillisec \div 100 = 10 * PolledSecond(posMillisec)
                                   + PolledTenth(posMillisec)
<1>1. posMillisec \div 100 \in Nat
  OBVIOUS
<1>2. ASSUME NEW q \in Nat
      PROVE  q % 10 \in 0..9 /\ q \div 10 \in Nat /\ q = 10 * (q \div 10) + (q % 10)
  <2>1. q % 10 \in 0..9
    OBVIOUS
  <2>2. q \div 10 \in Nat
    OBVIOUS
  <2>3. q = 10 * (q \div 10) + (q % 10)
    OBVIOUS
  <2> QED BY <2>1, <2>2, <2>3
<1> QED BY <1>1, <1>2
        DEF Tenths, PolledTenth, PolledSecond

LEMMA RowIsOfThePoll ==
    ASSUME TelemetryInv, NEW posMillisec \in Nat, RowAt(posMillisec) # 0
    PROVE  /\ RowAt(posMillisec) \in 1..i
           /\ SecondIn(parsedCSV, RowAt(posMillisec))
                  = PolledSecond(posMillisec)
           /\ TenthIn(parsedCSV, RowAt(posMillisec))
                  = PolledTenth(posMillisec)
<1> DEFINE s == PolledSecond(posMillisec) + 1
           t == PolledTenth(posMillisec)
<1>1. PolledSecond(posMillisec) \in Nat /\ t \in Tenths
  BY PolledTenthIsOne
<1>2. /\ PolledSecond(posMillisec) < Len(table) /\ table[s] # EmptySecond
      /\ RowAt(posMillisec) = table[s][t]
  BY DEF RowAt, Rows, table, NoRow, EmptySecond
<1>3. s \in 1..Len(table)
  BY <1>1, <1>2 DEF TelemetryInv, RowTypes
<1> QED BY <1>1, <1>2, <1>3 DEF TelemetryInv, InPlace

(* A poll, and what it leaves: the row it publishes is the one at the      *)
(* milliseconds it was told.                                               *)
LEMMA PollEffect ==
    ASSUME TelemetryInv, NEW posMillisec \in Nat, Poll(posMillisec)
    PROVE  /\ UNCHANGED <<parsedCSV, i, table>> /\ playback = "playing"
           /\ sent' \in {sent, RowAt(posMillisec)}
           /\ sent' # sent => RowAt(posMillisec) # 0
           /\ sent' \in 0..RowCount /\ playback' \in {"playing", "undefined"}
           /\ Seamless => playback' = "playing"
<1> DEFINE row == RowAt(posMillisec)
<1>1. UNCHANGED <<parsedCSV, i, table>> /\ playback = "playing"
  BY DEF Poll, table
<1>2. i = RowCount /\ RowCount \in Nat /\ sent \in 0..RowCount
  BY <1>1, RecordingIsSeq DEF TelemetryInv, RowTypes
<1>3. CASE row = 0
  BY <1>1, <1>2, <1>3 DEF Poll, NoRow
<1>4. CASE row # 0
  <2>1. row \in 1..RowCount
    BY <1>2, <1>4, RowIsOfThePoll
  <2>2. Seamless => parsedCSV[row].kind = "full"
    BY <2>1 DEF Seamless, RowCount
  <2>3. Publish(row)
    BY <1>4 DEF Poll, NoRow
  <2> HIDE DEF row
  <2>4. /\ sent' \in {sent, row} /\ playback' \in {playback, "undefined"}
        /\ parsedCSV[row].kind = "full" => playback' = playback
    BY <2>3 DEF Publish
  <2> QED BY <1>1, <1>2, <1>4, <2>1, <2>2, <2>4 DEF row
<1> QED BY <1>3, <1>4

(* sendCurrentTelemetry polls at the position of the video, or at zero.    *)
LEMMA PollIsOfThePosition ==
    ASSUME sendCurrentTelemetry
    PROVE  /\ position' \in Positions /\ query' \in {"answered", "failed"}
           /\ \E posMillisec \in Nat :
                 Poll(posMillisec) /\ (query' = "answered" => posMillisec = position')
<1>1. position' \in Nat
  BY TelemetryAssumption DEF sendCurrentTelemetry
<1> QED BY <1>1 DEF sendCurrentTelemetry

LEMMA PollKeeps ==
    ASSUME TelemetryInv, sendCurrentTelemetry
    PROVE  TelemetryInv'
<1>1. PICK posMillisec \in Nat : Poll(posMillisec)
  BY PollIsOfThePosition
<1>2. /\ UNCHANGED <<parsedCSV, i, table>> /\ playback = "playing"
      /\ sent' \in 0..RowCount /\ playback' \in {"playing", "undefined"}
      /\ Seamless => playback' = "playing"
  BY <1>1, PollEffect
<1>3. position' \in Positions /\ query' \in {"answered", "failed"}
  BY PollIsOfThePosition
<1>4. i = RowCount
  BY <1>2 DEF TelemetryInv, RowTypes
<1>5. /\ Seated' /\ InPlace' /\ NoHoles' /\ table' \in Seq(Seats')
      /\ RowCount' = RowCount /\ parsedCSV' \in Recordings'
      /\ Seamless' = Seamless
  BY <1>2, TableStays
<1>6. RowTypes'
  BY <1>2, <1>3, <1>4, <1>5 DEF RowTypes, TelemetryInv
<1>7. SeamlessIsParsed'
  BY <1>2, <1>5 DEF SeamlessIsParsed
<1> QED BY <1>5, <1>6, <1>7 DEF TelemetryInv

LEMMA TelemetryKeeps ==
    ASSUME TelemetryInv, [TelemetryNext]_telemetryVars
    PROVE  TelemetryInv'
<1>1. CASE NewSecond
  BY <1>1, NewSecondKeeps
<1>2. CASE SecondExists
  BY <1>2, SecondExistsKeeps
<1>3. CASE OutOfTable
  BY <1>3, OutOfTableKeeps
<1>4. CASE connectToSource
  <2>1. /\ UNCHANGED <<parsedCSV, i, table, pollVars>>
        /\ playback' = "playing" /\ i = RowCount
    BY <1>4 DEF connectToSource, table, RowCount
  <2>2. /\ Seated' /\ InPlace' /\ NoHoles' /\ table' \in Seq(Seats')
        /\ RowCount' = RowCount /\ parsedCSV' \in Recordings'
    BY <2>1, TableStays
  <2>3. RowTypes'
    BY <2>1, <2>2 DEF TelemetryInv, RowTypes, pollVars
  <2>4. SeamlessIsParsed'
    BY <2>1 DEF SeamlessIsParsed
  <2> QED BY <2>2, <2>3, <2>4 DEF TelemetryInv
<1>5. CASE sendCurrentTelemetry
  BY <1>5, PollKeeps
<1>6. CASE UNCHANGED telemetryVars
  <2>1. UNCHANGED <<parsedCSV, i, table, pollVars, playback>>
    BY <1>6 DEF telemetryVars, table
  <2>2. /\ Seated' /\ InPlace' /\ NoHoles' /\ table' \in Seq(Seats')
        /\ RowCount' = RowCount /\ parsedCSV' \in Recordings'
        /\ Seamless' = Seamless
    BY <2>1, TableStays
  <2>3. RowTypes'
    BY <2>1, <2>2 DEF TelemetryInv, RowTypes, pollVars
  <2>4. SeamlessIsParsed'
    BY <2>1, <2>2 DEF TelemetryInv, SeamlessIsParsed
  <2> QED BY <2>2, <2>3, <2>4 DEF TelemetryInv
<1> QED BY <1>1, <1>2, <1>3, <1>4, <1>5, <1>6
        DEF TelemetryNext, parseTelemetryFile

----------------------------------------------------------------------------
LEMMA TelemetryInvariance == TelemetrySpec => []TelemetryInv
<1>1. TelemetryInit => TelemetryInv
  BY InitTelemetryInv
<1>2. TelemetryInv /\ [TelemetryNext]_telemetryVars => TelemetryInv'
  BY TelemetryKeeps
<1> QED BY <1>1, <1>2, PTL DEF TelemetrySpec

(* The table and what was read from it have their types, for every file:   *)
(* each second has room for ten rows or for none.                          *)
THEOREM TelemetryTypes == TelemetrySpec => []TelemetryTypeOK
<1>1. TelemetryInv => TelemetryTypeOK
  <2> SUFFICES ASSUME TelemetryInv
               PROVE  TelemetryTypeOK
    OBVIOUS
  <2>1. \A s \in DOMAIN table : table[s] = EmptySecond \/ table[s] \in [Tenths -> 0..RowCount]
    BY DEF TelemetryInv, RowTypes, Seats
  <2> QED BY <2>1 DEF TelemetryInv, RowTypes, TelemetryTypeOK, table, RowCount, EmptySecond, Tenths
<1> QED BY <1>1, TelemetryInvariance, PTL

(* Whatever the order of its rows, a recording without holes is parsed and *)
(* played without a row outside of the table and without a row that cannot *)
(* be published.                                                           *)
THEOREM SeamlessRecordingsPlay == TelemetrySpec => []SeamlessIsParsed
<1>1. TelemetryInv => SeamlessIsParsed
  BY DEF TelemetryInv
<1> QED BY <1>1, TelemetryInvariance, PTL

(* While the video plays every row of the file is found at its tenth of a  *)
(* second, or a later row of the same tenth is: growing the table, second  *)
(* by second or over a gap, loses none.                                    *)
THEOREM NoRowIsLost == TelemetrySpec => []NothingIsLost
<1>1. TelemetryInv => NothingIsLost
  <2> SUFFICES ASSUME TelemetryInv, playback = "playing", NEW n \in 1..RowCount
               PROVE  LET row == table[SecondOf(n) + 1][TenthOf(n)] IN
                      /\ row >= n
                      /\ SecondIn(parsedCSV, row) = SecondOf(n)
                      /\ TenthIn(parsedCSV, row) = TenthOf(n)
    BY DEF NothingIsLost, Rows, table, RowSecond, RowTenth, SecondOf, TenthOf, SecondIn, TenthIn, RowCount
  <2> DEFINE s == SecondOf(n) + 1
             t == TenthOf(n)
             row == table[s][t]
  <2>1. n \in 1..i /\ SecondOf(n) \in Nat
    BY RecordingIsSeq, TimeTypes DEF TelemetryInv, RowTypes
  <2>2. s \in 1..Len(table) /\ t \in Tenths /\ table[s] # EmptySecond /\ row >= n
    BY <2>1 DEF TelemetryInv, Seated, HasSeat
  <2>3. table[s] \in [Tenths -> 0..RowCount]
    BY <2>2, ElementsBelong DEF TelemetryInv, RowTypes, Seats
  <2>4. row # 0
    BY <2>1, <2>2, <2>3, RecordingIsSeq DEF TelemetryInv, RowTypes
  <2>5. SecondIn(parsedCSV, row) = s - 1 /\ TenthIn(parsedCSV, row) = t
    BY <2>2, <2>4 DEF TelemetryInv, InPlace
  <2> QED BY <2>1, <2>2, <2>5
<1> QED BY <1>1, TelemetryInvariance, PTL

(* What was recorded in the second and the tenth of a poll.                *)
LEMMA TimeOfTenth ==
    ASSUME NEW time \in Nat, NEW second \in Nat, NEW tenth \in 0..9,
           IntPart(time) = second, FractPart(time) = tenth
    PROVE  LET start == 1000 * second + 100 * tenth IN
           time \in (start - 9)..(start + 90)
<1>1. /\ time % 1000 \in 0..999
      /\ time = 1000 * (time \div 1000) + (time % 1000)
  OBVIOUS
<1>2. time = 1000 * second + (time % 1000)
  BY <1>1 DEF IntPart
<1>3. (time % 1000) \in (100 * tenth - 9)..(100 * tenth + 90)
  <2>1. CASE time % 1000 = 0
    BY <2>1 DEF FractPart
  <2>2. CASE time % 1000 # 0
    <3>1. tenth = ((time % 1000) + 9) \div 100
      BY <2>2 DEF FractPart
    <3>2. \A x \in 0..1008 : x - 100 * (x \div 100) \in 0..99
      OBVIOUS
    <3>3. (time % 1000) + 9 - 100 * tenth \in 0..99
      BY <1>1, <3>1, <3>2
    <3> QED BY <1>1, <3>3
  <2> QED BY <2>1, <2>2
<1> QED BY <1>1, <1>2, <1>3

(* A row that is published after a query that was answered was recorded in *)
(* the tenth of a second of the video's own position, or at most 9 ms      *)
(* before it.                                                              *)
THEOREM SentRowIsCurrent == TelemetrySpec => SentIsCurrent
<1>1. TelemetryInv /\ [TelemetryNext]_telemetryVars =>
        [Published /\ query' = "answered" =>
           LET tenth == 100 * (position' \div 100) IN
           parsedCSV[sent'].time \in (tenth - 9)..(tenth + 90)]_telemetryVars
  <2> SUFFICES ASSUME TelemetryInv, TelemetryNext, sent' # sent, query' = "answered"
               PROVE  LET tenth == 100 * (position' \div 100) IN
                      parsedCSV[sent'].time \in (tenth - 9)..(tenth + 90)
    BY DEF Published
  <2>1. sendCurrentTelemetry
    BY DEF TelemetryNext, parseTelemetryFile, NewSecond,
           SecondExists, OutOfTable, connectToSource, pollVars
  <2> DEFINE row == RowAt(position')
             s == PolledSecond(position')
             t == PolledTenth(position')
  <2>2. position' \in Nat /\ Poll(position')
    BY <2>1, PollIsOfThePosition
  <2>3. row # 0 /\ sent' = row
    BY <2>2, PollEffect
  <2>4. /\ row \in 1..i /\ IntPart(parsedCSV[row].time) = s
        /\ FractPart(parsedCSV[row].time) = t
    BY <2>2, <2>3, RowIsOfThePoll DEF SecondIn, TenthIn
  <2>5. parsedCSV[row].time \in Nat
    BY <2>4, RecordingIsSeq DEF TelemetryInv, RowTypes
  <2>6. s \in Nat /\ t \in 0..9 /\ position' \div 100 = 10 * s + t
    BY <2>2, PolledTenthIsOne DEF Tenths
  <2> HIDE DEF row, s, t
  <2>7. parsedCSV[row].time
           \in ((1000 * s + 100 * t) - 9)..((1000 * s + 100 * t) + 90)
    BY <2>4, <2>5, <2>6, TimeOfTenth
  <2>8. 100 * (position' \div 100) = 1000 * s + 100 * t
    BY <2>6
  <2> QED BY <2>3, <2>6, <2>7, <2>8
<1> QED BY <1>1, TelemetryInvariance, PTL DEF TelemetrySpec, SentIsCurrent
=============================================================================
