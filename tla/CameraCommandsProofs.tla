----------------------- MODULE CameraCommandsProofs -----------------------
(***************************************************************************)
(* Proofs about CameraCommands, for every set of consoles, every set of    *)
(* values and unit, and every length of the queue: types, and that every   *)
(* command settles on what the operator wrote last.                        *)
(***************************************************************************)
EXTENDS CameraCommands, TLAPS

Paired == {"want_azimut", "want_elevation", "azimut_change_rate", "elevation_change_rate"}

(* Where the server keeps an attribute, and the drone a command. *)
Maps ==
    /\ attr = [name \in Attributes |-> attr[name]]
    /\ rfc = [command \in Commands |-> rfc[command]]

(* The value of an attribute this client has seen, and zero before that.   *)
Seen(name) == IF name \in written THEN attr[name] ELSE 0

(* A cached half is the attribute as this client saw it, unless a callback *)
(* that will refresh it is still queued.  This is what makes the other     *)
(* half's command right.                                                   *)
CachesFollow ==
    /\ ~Queued("want_azimut") => m_azimutAbsDeg = WholeDegrees(Seen("want_azimut"))
    /\ ~Queued("want_elevation") => m_elevationAbsDeg = Seen("want_elevation")
    /\ ~Queued("azimut_change_rate") => m_azimutIncDeg = Seen("azimut_change_rate")
    /\ ~Queued("elevation_change_rate") => m_elevationIncDeg = Seen("elevation_change_rate")

(* A pair that was sent is made of what this client saw of both halves. *)
AnglesSent ==
    /\ "want_azimut" \in written \/ "want_elevation" \in written =>
         rfc["setPositionAngle"] # Never
    /\ Settled({"want_azimut", "want_elevation"}) /\ rfc["setPositionAngle"] # Never =>
         rfc["setPositionAngle"] =
             <<Seen("want_elevation"), WholeDegrees(Seen("want_azimut"))>>

RatesSent ==
    /\ "azimut_change_rate" \in written \/ "elevation_change_rate" \in written =>
         rfc["cameraRotation"] # Never
    /\ Settled({"azimut_change_rate", "elevation_change_rate"}) /\ rfc["cameraRotation"] # Never =>
         rfc["cameraRotation"] =
             <<Seen("azimut_change_rate"), Seen("elevation_change_rate")>>

IInv == TypeOK /\ Maps /\ CachesFollow /\ AnglesSent /\ RatesSent /\ OpticsSettle

----------------------------------------------------------------------------
(* Cutting a fraction off yields a number, and zero of zero. *)
LEMMA Whole ==
    /\ WholeDegrees(0) = 0
    /\ \A real \in Int : WholeDegrees(real) \in Int
BY CommandAssumption DEF WholeDegrees

(* The fraction is less than a degree, whichever side of zero. *)
LEMMA FractionIsSmall ==
    ASSUME NEW real \in Int
    PROVE  WholeDegrees(real) - real \in (1 - Unit)..(Unit - 1)
<1>0. Unit \in Nat \ {0}
  BY CommandAssumption
<1>1. ASSUME NEW n \in Int
      PROVE  Unit * (n \div Unit) \in Int /\ n - Unit * (n \div Unit) \in 0..(Unit - 1)
  <2>1. n \div Unit \in Int /\ n % Unit \in 0..(Unit - 1) /\ n = Unit * (n \div Unit) + (n % Unit)
    BY <1>0
  <2>2. Unit * (n \div Unit) \in Int
    BY <1>0, <2>1
  <2> QED BY <2>1, <2>2
<1>2. CASE real >= 0
  <2> DEFINE whole == Unit * (real \div Unit)
  <2>1. whole \in Int /\ real - whole \in 0..(Unit - 1)
    BY <1>1
  <2>2. WholeDegrees(real) = whole
    BY <1>2 DEF WholeDegrees
  <2> HIDE DEF whole
  <2> QED BY <1>0, <2>1, <2>2
<1>3. CASE ~(real >= 0)
  <2> DEFINE whole == Unit * ((-real) \div Unit)
  <2>1. whole \in Int /\ (-real) - whole \in 0..(Unit - 1)
    BY <1>1
  <2>2. WholeDegrees(real) = -whole
    BY <1>3 DEF WholeDegrees
  <2> HIDE DEF whole
  <2> QED BY <1>0, <2>1, <2>2
<1> QED BY <1>2, <1>3

LEMMA RealValues ==
    ASSUME NEW name \in RealAttributes \ SignAttributes
    PROVE  Values(name) = Reals
<1>1. name \in RealAttributes \ SignAttributes /\ name \notin SignAttributes
      /\ name \notin BooleanAttributes
  BY DEF RealAttributes, BooleanAttributes
<1> QED BY <1>1, Zenon DEF Values

(* A write queues its callback and loses none; a callback that runs is the *)
(* only one that leaves the queue.                                         *)
LEMMA WriteQueues ==
    ASSUME calls \in Seq(console), NEW name \in console, NEW value, Write(name, value)
    PROVE  /\ calls' \in Seq(console)
           /\ Queued(name)'
           /\ \A other : Queued(other) => Queued(other)'
<1>1. calls' = Append(calls, name) /\ Len(calls') = Len(calls) + 1 /\ Len(calls) \in Nat
  BY DEF Write
<1>2. calls'[Len(calls) + 1] = name /\ \A i \in 1..Len(calls) : calls'[i] = calls[i]
  BY <1>1
<1>3. Queued(name)'
  <2>1. Len(calls) + 1 \in 1..Len(calls')
    BY <1>1
  <2> QED BY <2>1, <1>2 DEF Queued
<1>4. ASSUME NEW other, Queued(other) PROVE Queued(other)'
  <2>1. PICK i \in 1..Len(calls) : calls[i] = other
    BY <1>4 DEF Queued
  <2>2. i \in 1..Len(calls') /\ calls'[i] = other
    BY <2>1, <1>1, <1>2
  <2> QED BY <2>2 DEF Queued
<1> QED BY <1>1, <1>3, <1>4

LEMMA ApproveDequeues ==
    ASSUME calls \in Seq(console), NEW name, Approve(name)
    PROVE  /\ name \in console
           /\ calls' \in Seq(console)
           /\ \A other : other # name /\ Queued(other) => Queued(other)'
<1>1. calls # <<>> /\ calls[1] = name /\ calls' = Tail(calls)
  BY DEF Approve
<1>2. /\ Len(calls) \in Nat \ {0} /\ Len(calls') = Len(calls) - 1
      /\ \A i \in 1..Len(calls') : calls'[i] = calls[i + 1]
  BY <1>1
<1>3. name \in console /\ calls' \in Seq(console)
  BY <1>1
<1>4. ASSUME NEW other, other # name, Queued(other) PROVE Queued(other)'
  <2>1. PICK i \in 1..Len(calls) : calls[i] = other
    BY <1>4 DEF Queued
  <2>2. i - 1 \in 1..Len(calls')
    BY <2>1, <1>1, <1>2, <1>4
  <2>3. calls'[i - 1] = other
    BY <2>1, <2>2, <1>2
  <2> QED BY <2>2, <2>3 DEF Queued
<1> QED BY <1>3, <1>4

LEMMA InitIInv ==
    ASSUME Init
    PROVE  IInv
<1>1. PICK azimut, elevation \in Reals :
        attr = [name \in Attributes |->
                  CASE name = "want_azimut"         -> azimut
                    [] name = "want_elevation"      -> elevation
                    [] name \in BooleanAttributes -> FALSE
                    [] name \in EnumAttributes    -> "auto"
                    [] OTHER                      -> 0]
  BY DEF Init
<1> DEFINE Start(name) == CASE name = "want_azimut"         -> azimut
                            [] name = "want_elevation"      -> elevation
                            [] name \in BooleanAttributes -> FALSE
                            [] name \in EnumAttributes    -> "auto"
                            [] OTHER                      -> 0
<1>1a. attr = [name \in Attributes |-> Start(name)]
  BY <1>1
<1>2. ASSUME NEW name \in Attributes PROVE Start(name) \in Values(name)
  <2>1. CASE name \in RealAttributes
    <3>1. name \notin BooleanAttributes /\ name \notin EnumAttributes
      BY <2>1 DEF RealAttributes, BooleanAttributes, EnumAttributes
    <3>2. Start(name) \in {azimut, elevation, 0}
      BY <3>1
    <3>3. Values(name) = Reals \cup {NaN} \/ Values(name) = Reals
      BY <2>1, <3>1, Zenon DEF Values
    <3> HIDE DEF Start
    <3> QED BY <3>2, <3>3, CommandAssumption
  <2>2. CASE name \in BooleanAttributes
    <3>1. /\ name \notin RealAttributes /\ name \notin EnumAttributes
          /\ name # "want_azimut" /\ name # "want_elevation"
      BY <2>2 DEF RealAttributes, BooleanAttributes, EnumAttributes
    <3>1a. name \notin RealAttributes \ SignAttributes /\ name \notin SignAttributes
      BY <2>2 DEF RealAttributes, BooleanAttributes, SignAttributes
    <3>2. Start(name) = FALSE
      BY <2>2, <3>1, Zenon
    <3>3. Values(name) = BOOLEAN
      BY <2>2, <3>1a, Zenon DEF Values
    <3> HIDE DEF Start
    <3> QED BY <3>2, <3>3
  <2>3. CASE name \in EnumAttributes
    <3>1. /\ name \notin RealAttributes /\ name \notin BooleanAttributes
          /\ name # "want_azimut" /\ name # "want_elevation"
      BY <2>3 DEF RealAttributes, BooleanAttributes, EnumAttributes
    <3>1a. name \notin RealAttributes \ SignAttributes /\ name \notin SignAttributes
      BY <2>3 DEF RealAttributes, EnumAttributes, SignAttributes
    <3>2. Start(name) = "auto"
      BY <2>3, <3>1, Zenon
    <3>3. Values(name) = DiaphragmModes
      BY <3>1, <3>1a, Zenon DEF Values
    <3> HIDE DEF Start
    <3> QED BY <3>2, <3>3 DEF DiaphragmModes
  <2> HIDE DEF Start
  <2> QED BY <2>1, <2>2, <2>3 DEF Attributes
<1> HIDE DEF Start
<1>3. TypeOK
  <2>1. calls \in Seq(console)
    BY DEF Init
  <2>2. \A command \in Commands : rfc[command] = Never
    BY DEF Init
  <2>3. console \in Consoles /\ written \subseteq console
    BY DEF Init
  <2>4. {m_azimutAbsDeg, m_elevationAbsDeg, m_azimutIncDeg, m_elevationIncDeg} \subseteq Int
    BY DEF Init
  <2> QED BY <1>1a, <1>2, <2>1, <2>2, <2>3, <2>4 DEF TypeOK
<1>4. Maps
  <2>1. attr = [name \in Attributes |-> attr[name]]
    BY <1>1a
  <2>2. rfc = [command \in Commands |-> rfc[command]]
    BY DEF Init
  <2> QED BY <2>1, <2>2 DEF Maps
<1>5. CachesFollow
  BY Whole DEF Init, CachesFollow, Seen
<1>6. AnglesSent /\ RatesSent
  <2>1. {"setPositionAngle", "cameraRotation"} \subseteq Commands
    BY DEF Commands
  <2> QED BY <2>1 DEF Init, AnglesSent, RatesSent
<1>7. OpticsSettle
  BY DEF Init, OpticsSettle
<1> QED BY <1>3, <1>4, <1>5, <1>6, <1>7 DEF IInv

----------------------------------------------------------------------------
(* A write disturbs only what its callback will settle. *)
LEMMA WriteKeepsIInv ==
    ASSUME IInv, NEW name \in console, NEW value \in Values(name), Write(name, value)
    PROVE  IInv'
<1>0. TypeOK /\ Maps /\ name \in Attributes
  BY CommandAssumption DEF IInv, TypeOK
<1>1. /\ calls' \in Seq(console)
      /\ Queued(name)'
      /\ \A other : Queued(other) => Queued(other)'
  BY <1>0, WriteQueues DEF TypeOK
<1>2. /\ attr' = [attr EXCEPT ![name] = value]
      /\ \A other \in Attributes : attr'[other] = IF other = name THEN value ELSE attr[other]
  BY <1>0 DEF Write, Maps
<1>3. UNCHANGED <<console, caches, rfc, written>>
  BY DEF Write
<1>4. TypeOK'
  <2>1. \A other \in Attributes : attr'[other] \in Values(other)
    BY <1>0, <1>2 DEF TypeOK
  <2>2. \A command : Arguments(command)' = Arguments(command)
    BY DEF Arguments
  <2> QED BY <2>1, <2>2, <1>0, <1>1, <1>3, Zenon DEF TypeOK, caches
<1>5. Maps'
  BY <1>0, <1>2, <1>3 DEF Maps
<1>6. \A other \in Attributes : ~Queued(other)' => ~Queued(other) /\ Seen(other)' = Seen(other)
  BY <1>1, <1>2, <1>3 DEF Seen
<1>7. Paired \subseteq Attributes
  BY DEF Paired, Attributes, RealAttributes
<1>8. CachesFollow'
  BY <1>3, <1>6, <1>7 DEF IInv, CachesFollow, Paired, caches, WholeDegrees
<1>9. AnglesSent' /\ RatesSent'
  BY <1>3, <1>6, <1>7 DEF IInv, AnglesSent, RatesSent, Settled, Paired, WholeDegrees
<1>10. OpticsSettle'
  <2> SUFFICES ASSUME NEW other \in written' \ Paired,
                      ~Queued(other)', ~Ignored(other)'
               PROVE  rfc'[Expected(other)'[1]] = <<Expected(other)'[2]>>
    BY DEF OpticsSettle, Paired
  <2>1. other \in written /\ other \in Attributes
    BY <1>0, <1>3, CommandAssumption DEF TypeOK
  <2>2. ~Queued(other) /\ attr'[other] = attr[other]
    BY <1>1, <1>2, <2>1
  <2>3. Expected(other)' = Expected(other) /\ ~Ignored(other)
    BY <2>2 DEF Expected, Direction, Ignored
  <2> QED BY <1>3, <2>1, <2>2, <2>3 DEF IInv, OpticsSettle, Paired
<1> QED BY <1>4, <1>5, <1>8, <1>9, <1>10 DEF IInv

----------------------------------------------------------------------------
(* A callback that runs reads the attribute as it is, and changes what is  *)
(* seen of no other attribute.                                             *)
LEMMA ApproveSees ==
    ASSUME TypeOK, NEW name, Approve(name)
    PROVE  /\ name \in Attributes /\ calls' \in Seq(console') /\ written' \subseteq console'
           /\ UNCHANGED <<console, attr>> /\ written' = written \cup {name}
           /\ Seen(name)' = attr[name]
           /\ \A other : other # name /\ ~Queued(other)' =>
                ~Queued(other) /\ Seen(other)' = Seen(other)
<1>1. /\ name \in console /\ calls' \in Seq(console)
      /\ \A other : other # name /\ Queued(other) => Queued(other)'
  BY ApproveDequeues DEF TypeOK
<1>2. UNCHANGED <<console, attr>> /\ written' = written \cup {name}
  BY DEF Approve
<1>3. name \in Attributes /\ written' \subseteq console'
  BY <1>1, <1>2, CommandAssumption DEF TypeOK
<1>4. Seen(name)' = attr[name]
  BY <1>2 DEF Seen
<1>5. \A other : other # name => Seen(other)' = Seen(other)
  BY <1>2 DEF Seen
<1> QED BY <1>1, <1>2, <1>3, <1>4, <1>5

(* Each single attribute has a command of its own. *)
LEMMA OwnCommands ==
    ASSUME NEW name \in Attributes \ Paired
    PROVE  /\ Expected(name)[1] \in Commands \ {"setPositionAngle", "cameraRotation"}
           /\ \A other \in Attributes \ Paired :
                other # name => Expected(other)[1] # Expected(name)[1]
<1> DEFINE Own(n) == CASE n = "focus_change_rate" -> "cameraFunctionFocus"
                       [] n = "zoom_change_rate" -> "cameraFunctionZoom"
                       [] n = "diaphragm_mode" -> "cameraFunctionDiaphragmOpen"
                       [] n = "start_video_stream" -> "stream"
                       [] n = "trx_scale" -> "setTxrxScale"
                       [] n = "show_aim" -> "cameraFunctionShowAim"
                       [] n = "show_telemetry" -> "cameraFunctionShowTelemetry"
<1>1. Attributes \ Paired = {"focus_change_rate", "zoom_change_rate", "diaphragm_mode",
                             "start_video_stream", "trx_scale", "show_aim", "show_telemetry"}
  BY DEF Attributes, RealAttributes, BooleanAttributes, EnumAttributes, Paired
<1>2. \A n \in Attributes \ Paired : Expected(n)[1] = Own(n)
  BY <1>1 DEF Expected
<1> QED BY <1>1, <1>2 DEF Commands

(* What a command of a pair leaves to be shown: the caches and the pair.   *)
LEMMA PairKeepsRest ==
    ASSUME IInv, NEW name \in Paired, Approve(name),
           NEW command \in {"setPositionAngle", "cameraRotation"},
           NEW arguments \in Int \X Int, Call(command, arguments),
           {m_azimutAbsDeg', m_elevationAbsDeg', m_azimutIncDeg', m_elevationIncDeg'} \subseteq Int
    PROVE  /\ TypeOK' /\ Maps' /\ OpticsSettle'
           /\ \A other \in Commands : rfc'[other] = IF other = command THEN arguments ELSE rfc[other]
           /\ arguments # Never
<1>0. TypeOK /\ Maps
  BY DEF IInv
<1>1. /\ calls' \in Seq(console') /\ written' \subseteq console'
      /\ UNCHANGED <<console, attr>> /\ written' = written \cup {name}
      /\ \A other : other # name /\ ~Queued(other)' => ~Queued(other)
  BY <1>0, ApproveSees
<1>2. /\ rfc' = [rfc EXCEPT ![command] = arguments]
      /\ \A other \in Commands : rfc'[other] = IF other = command THEN arguments ELSE rfc[other]
  BY <1>0 DEF Call, Maps
<1>3. TypeOK'
  <2>1. Arguments(command) = Int \X Int
    BY DEF Arguments
  <2>2. \A other \in Commands : rfc'[other] = Never \/ rfc'[other] \in Arguments(other)
    BY <1>0, <1>2, <2>1 DEF TypeOK
  <2>3. \A other : Arguments(other)' = Arguments(other)
    BY DEF Arguments
  <2>4. \A other : Values(other)' = Values(other)
    BY DEF Values
  <2> QED BY <1>0, <1>1, <2>2, <2>3, <2>4 DEF TypeOK
<1>4. Maps'
  BY <1>0, <1>1, <1>2 DEF Maps
<1>5. OpticsSettle'
  <2> SUFFICES ASSUME NEW other \in written' \ Paired,
                      ~Queued(other)', ~Ignored(other)'
               PROVE  rfc'[Expected(other)'[1]] = <<Expected(other)'[2]>>
    BY DEF OpticsSettle, Paired
  <2>1. other \in written \ Paired /\ ~Queued(other) /\ other \in Attributes
    BY <1>0, <1>1, CommandAssumption DEF TypeOK
  <2>2. Expected(other)' = Expected(other) /\ ~Ignored(other)
    BY <1>1 DEF Expected, Direction, Ignored
  <2>3. rfc[Expected(other)[1]] = <<Expected(other)[2]>>
    BY <1>1, <2>1, <2>2 DEF IInv, OpticsSettle, Paired
  <2>4. Expected(other)[1] \in Commands \ {"setPositionAngle", "cameraRotation"}
    BY <2>1, OwnCommands
  <2> QED BY <1>2, <2>2, <2>3, <2>4
<1>6. arguments # Never
  <2>1. PICK first, second \in Int : arguments = <<first, second>>
    OBVIOUS
  <2>2. 1 \in DOMAIN arguments /\ 1 \notin DOMAIN Never
    BY <2>1 DEF Never
  <2> QED BY <2>2
<1> QED BY <1>2, <1>3, <1>4, <1>5, <1>6

(* A single command: its own attribute is settled, the others and the      *)
(* pairs are as they were.  An unknown diaphragm mode calls nothing.       *)
LEMMA SingleKeepsIInv ==
    ASSUME IInv, NEW name \in Attributes \ Paired, Approve(name), UNCHANGED caches,
           \/ /\ Call(Expected(name)[1], <<Expected(name)[2]>>)
              /\ <<Expected(name)[2]>> \in Arguments(Expected(name)[1])
           \/ /\ UNCHANGED rfc
              /\ Ignored(name)
    PROVE  IInv'
<1>0. TypeOK /\ Maps
  BY DEF IInv
<1>1. /\ calls' \in Seq(console') /\ written' \subseteq console'
      /\ UNCHANGED <<console, attr>> /\ written' = written \cup {name}
      /\ \A other : other # name /\ ~Queued(other)' =>
           ~Queued(other) /\ Seen(other)' = Seen(other)
  BY <1>0, ApproveSees
<1>2. Expected(name)[1] \in Commands \ {"setPositionAngle", "cameraRotation"}
  BY OwnCommands
<1>3. /\ \A other \in Commands : other # Expected(name)[1] => rfc'[other] = rfc[other]
      /\ rfc' = [other \in Commands |-> rfc'[other]]
      /\ \/ /\ rfc'[Expected(name)[1]] = <<Expected(name)[2]>>
            /\ <<Expected(name)[2]>> \in Arguments(Expected(name)[1])
         \/ /\ rfc' = rfc
            /\ Ignored(name)
  BY <1>0, <1>2 DEF Call, Maps
<1>4. TypeOK'
  <2>1. \A other \in Commands : rfc'[other] = Never \/ rfc'[other] \in Arguments(other)
    BY <1>0, <1>3 DEF TypeOK
  <2>2. \A other : Arguments(other)' = Arguments(other)
    BY DEF Arguments
  <2>3. \A other : Values(other)' = Values(other)
    BY DEF Values
  <2> QED BY <1>0, <1>1, <2>1, <2>2, <2>3 DEF TypeOK, caches
<1>5. Maps'
  BY <1>0, <1>1, <1>3 DEF Maps
<1>6. CachesFollow' /\ AnglesSent' /\ RatesSent'
  <2>1. \A other \in Paired : ~Queued(other)' => ~Queued(other) /\ Seen(other)' = Seen(other)
    BY <1>1
  <2>2. rfc'["setPositionAngle"] = rfc["setPositionAngle"] /\ rfc'["cameraRotation"] = rfc["cameraRotation"]
    BY <1>2, <1>3 DEF Commands
  <2>3. CachesFollow'
    BY <2>1 DEF IInv, CachesFollow, caches, Paired, WholeDegrees
  <2>4. \A other \in Paired : other \in written' => other \in written
    BY <1>1
  <2>5. AnglesSent' /\ RatesSent'
    BY <2>1, <2>2, <2>4 DEF IInv, AnglesSent, RatesSent, Settled, Paired, WholeDegrees
  <2> QED BY <2>3, <2>5
<1>7. OpticsSettle'
  <2> SUFFICES ASSUME NEW other \in written' \ Paired,
                      ~Queued(other)', ~Ignored(other)'
               PROVE  rfc'[Expected(other)'[1]] = <<Expected(other)'[2]>>
    BY DEF OpticsSettle, Paired
  <2>1. Expected(other)' = Expected(other) /\ ~Ignored(other)
    BY <1>1 DEF Expected, Direction, Ignored
  <2>2. CASE other = name
    BY <1>3, <2>1, <2>2
  <2>3. CASE other # name
    <3>1. other \in written \ Paired /\ ~Queued(other) /\ other \in Attributes
      BY <1>0, <1>1, <2>3, CommandAssumption DEF TypeOK
    <3>2. rfc[Expected(other)[1]] = <<Expected(other)[2]>>
      BY <2>1, <3>1 DEF IInv, OpticsSettle, Paired
    <3>3. Expected(other)[1] \in Commands /\ Expected(other)[1] # Expected(name)[1]
      BY <2>3, <3>1, OwnCommands
    <3> QED BY <1>3, <2>1, <3>2, <3>3
  <2> QED BY <2>2, <2>3
<1> QED BY <1>4, <1>5, <1>6, <1>7 DEF IInv

----------------------------------------------------------------------------
(* Each handler that takes one half from a cache: while no callback of the *)
(* other half is queued, the cache is what this client saw of it.          *)
LEMMA PairedHandlersKeepIInv ==
    ASSUME IInv,
           \/ callbackSetWantAzimut \/ callbackSetWantElevation
           \/ callbackSetAzimutChangeRate \/ callbackSetElevationChangeRate
    PROVE  IInv'
<1>0. /\ TypeOK /\ Paired \subseteq Attributes /\ {"setPositionAngle", "cameraRotation"} \subseteq Commands
      /\ m_azimutAbsDeg \in Int /\ m_elevationAbsDeg \in Int
      /\ m_azimutIncDeg \in Int /\ m_elevationIncDeg \in Int
  BY DEF IInv, TypeOK, Paired, Attributes, RealAttributes, Commands
<1>1. \A name \in Paired : attr[name] \in Int
  <2>1. \A name \in Paired : Values(name) = Reals
    BY RealValues DEF Paired, RealAttributes, SignAttributes
  <2>2. \A name \in Paired : attr[name] \in Values(name)
    BY <1>0 DEF TypeOK
  <2> QED BY <2>1, <2>2, CommandAssumption
<1> USE DEF Paired
<1>2. CASE callbackSetWantAzimut
  <2> DEFINE azimutAbs == WholeDegrees(attr["want_azimut"])
  <2>1. /\ Approve("want_azimut")
        /\ Call("setPositionAngle", <<m_elevationAbsDeg, azimutAbs>>)
        /\ m_azimutAbsDeg' = azimutAbs
        /\ UNCHANGED <<m_elevationAbsDeg, m_azimutIncDeg, m_elevationIncDeg>>
        /\ azimutAbs \in Int
    BY <1>1, <1>2, Whole DEF callbackSetWantAzimut
  <2>2. /\ Seen("want_azimut")' = attr["want_azimut"]
        /\ \A other : other # "want_azimut" /\ ~Queued(other)' =>
             ~Queued(other) /\ Seen(other)' = Seen(other)
        /\ written' = written \cup {"want_azimut"}
    BY <1>0, <2>1, ApproveSees
  <2> HIDE DEF azimutAbs
  <2>3. /\ TypeOK' /\ Maps' /\ OpticsSettle'
        /\ rfc'["setPositionAngle"] = <<m_elevationAbsDeg, azimutAbs>>
        /\ rfc'["cameraRotation"] = rfc["cameraRotation"] /\ rfc'["setPositionAngle"] # Never
    BY <1>0, <2>1, PairKeepsRest
  <2>4. WholeDegrees(Seen("want_azimut")') = azimutAbs
    BY <2>2 DEF azimutAbs
  <2>5. CachesFollow'
    BY <2>1, <2>2, <2>4 DEF IInv, CachesFollow, WholeDegrees
  <2>6. AnglesSent' /\ RatesSent'
    BY <2>2, <2>3, <2>4
    DEF IInv, CachesFollow, AnglesSent, RatesSent, Settled, WholeDegrees
  <2> QED BY <2>3, <2>5, <2>6 DEF IInv
<1>3. CASE callbackSetWantElevation
  <2>1. /\ Approve("want_elevation")
        /\ Call("setPositionAngle", <<attr["want_elevation"], m_azimutAbsDeg>>)
        /\ m_elevationAbsDeg' = attr["want_elevation"]
        /\ UNCHANGED <<m_azimutAbsDeg, m_azimutIncDeg, m_elevationIncDeg>>
    BY <1>3 DEF callbackSetWantElevation
  <2>2. /\ Seen("want_elevation")' = attr["want_elevation"]
        /\ \A other : other # "want_elevation" /\ ~Queued(other)' =>
             ~Queued(other) /\ Seen(other)' = Seen(other)
        /\ written' = written \cup {"want_elevation"}
    BY <1>0, <2>1, ApproveSees
  <2>3. /\ TypeOK' /\ Maps' /\ OpticsSettle'
        /\ rfc'["setPositionAngle"] = <<attr["want_elevation"], m_azimutAbsDeg>>
        /\ rfc'["cameraRotation"] = rfc["cameraRotation"] /\ rfc'["setPositionAngle"] # Never
    BY <1>0, <1>1, <2>1, PairKeepsRest
  <2>4. CachesFollow'
    BY <2>1, <2>2 DEF IInv, CachesFollow, WholeDegrees
  <2>5. AnglesSent' /\ RatesSent'
    BY <2>2, <2>3
    DEF IInv, CachesFollow, AnglesSent, RatesSent, Settled, WholeDegrees
  <2> QED BY <2>3, <2>4, <2>5 DEF IInv
<1>4. CASE callbackSetAzimutChangeRate
  <2>1. /\ Approve("azimut_change_rate")
        /\ Call("cameraRotation", <<attr["azimut_change_rate"], m_elevationIncDeg>>)
        /\ m_azimutIncDeg' = attr["azimut_change_rate"]
        /\ UNCHANGED <<m_azimutAbsDeg, m_elevationAbsDeg, m_elevationIncDeg>>
    BY <1>4 DEF callbackSetAzimutChangeRate
  <2>2. /\ Seen("azimut_change_rate")' = attr["azimut_change_rate"]
        /\ \A other : other # "azimut_change_rate" /\ ~Queued(other)' =>
             ~Queued(other) /\ Seen(other)' = Seen(other)
        /\ written' = written \cup {"azimut_change_rate"}
    BY <1>0, <2>1, ApproveSees
  <2>3. /\ TypeOK' /\ Maps' /\ OpticsSettle'
        /\ rfc'["cameraRotation"] = <<attr["azimut_change_rate"], m_elevationIncDeg>>
        /\ rfc'["setPositionAngle"] = rfc["setPositionAngle"] /\ rfc'["cameraRotation"] # Never
    BY <1>0, <1>1, <2>1, PairKeepsRest
  <2>4. CachesFollow'
    BY <2>1, <2>2 DEF IInv, CachesFollow, WholeDegrees
  <2>5. AnglesSent' /\ RatesSent'
    BY <2>2, <2>3
    DEF IInv, CachesFollow, AnglesSent, RatesSent, Settled, WholeDegrees
  <2> QED BY <2>3, <2>4, <2>5 DEF IInv
<1>5. CASE callbackSetElevationChangeRate
  <2>1. /\ Approve("elevation_change_rate")
        /\ Call("cameraRotation", <<m_azimutIncDeg, attr["elevation_change_rate"]>>)
        /\ m_elevationIncDeg' = attr["elevation_change_rate"]
        /\ UNCHANGED <<m_azimutAbsDeg, m_elevationAbsDeg, m_azimutIncDeg>>
    BY <1>5 DEF callbackSetElevationChangeRate
  <2>2. /\ Seen("elevation_change_rate")' = attr["elevation_change_rate"]
        /\ \A other : other # "elevation_change_rate" /\ ~Queued(other)' =>
             ~Queued(other) /\ Seen(other)' = Seen(other)
        /\ written' = written \cup {"elevation_change_rate"}
    BY <1>0, <2>1, ApproveSees
  <2>3. /\ TypeOK' /\ Maps' /\ OpticsSettle'
        /\ rfc'["cameraRotation"] = <<m_azimutIncDeg, attr["elevation_change_rate"]>>
        /\ rfc'["setPositionAngle"] = rfc["setPositionAngle"] /\ rfc'["cameraRotation"] # Never
    BY <1>0, <1>1, <2>1, PairKeepsRest
  <2>4. CachesFollow'
    BY <2>1, <2>2 DEF IInv, CachesFollow, WholeDegrees
  <2>5. AnglesSent' /\ RatesSent'
    BY <2>2, <2>3
    DEF IInv, CachesFollow, AnglesSent, RatesSent, Settled, WholeDegrees
  <2> QED BY <2>3, <2>4, <2>5 DEF IInv
<1> QED BY <1>2, <1>3, <1>4, <1>5

(* The other handlers send what they read, or for an unknown diaphragm     *)
(* mode nothing.                                                           *)
LEMMA SingleHandlersKeepIInv ==
    ASSUME IInv,
           \/ callbackSetFocusChangeRate \/ callbackSetZoomChangeRate
           \/ callbackSetDiaphragmMode \/ callbackStartVideoStream
           \/ callbackSetTxRxScale \/ callbackSetShowAim \/ callbackSetShowTelemetry
    PROVE  IInv'
<1>0. {"focus_change_rate", "zoom_change_rate", "diaphragm_mode", "start_video_stream",
       "trx_scale", "show_aim", "show_telemetry"} \subseteq Attributes \ Paired
  BY DEF Attributes, RealAttributes, BooleanAttributes, EnumAttributes, Paired
<1>1. \A name \in Attributes : attr[name] \in Values(name)
  BY DEF IInv, TypeOK
<1>2. CASE callbackSetFocusChangeRate
  <2>1. Expected("focus_change_rate") = <<"cameraFunctionFocus", Direction(attr["focus_change_rate"])>>
    BY DEF Expected
  <2>2. <<Direction(attr["focus_change_rate"])>> \in Arguments("cameraFunctionFocus")
    BY DEF Arguments, Direction
  <2>3. /\ Approve("focus_change_rate") /\ UNCHANGED caches
        /\ \/ Call("cameraFunctionFocus", <<Direction(attr["focus_change_rate"])>>)
           \/ UNCHANGED rfc /\ Ignored("focus_change_rate")
    BY <1>2 DEF callbackSetFocusChangeRate, Drive, Ignored, SignAttributes
  <2> QED BY <1>0, <2>1, <2>2, <2>3, SingleKeepsIInv
<1>3. CASE callbackSetZoomChangeRate
  <2>1. Expected("zoom_change_rate") = <<"cameraFunctionZoom", Direction(attr["zoom_change_rate"])>>
    BY DEF Expected
  <2>2. <<Direction(attr["zoom_change_rate"])>> \in Arguments("cameraFunctionZoom")
    BY DEF Arguments, Direction
  <2>3. /\ Approve("zoom_change_rate") /\ UNCHANGED caches
        /\ \/ Call("cameraFunctionZoom", <<Direction(attr["zoom_change_rate"])>>)
           \/ UNCHANGED rfc /\ Ignored("zoom_change_rate")
    BY <1>3 DEF callbackSetZoomChangeRate, Drive, Ignored, SignAttributes
  <2> QED BY <1>0, <2>1, <2>2, <2>3, SingleKeepsIInv
<1>4. CASE callbackSetDiaphragmMode
  <2>1. Expected("diaphragm_mode") = <<"cameraFunctionDiaphragmOpen", attr["diaphragm_mode"] = "open">>
    BY DEF Expected
  <2>2. <<attr["diaphragm_mode"] = "open">> \in Arguments("cameraFunctionDiaphragmOpen")
    BY DEF Arguments
  <2>3. /\ Approve("diaphragm_mode") /\ UNCHANGED caches
        /\ \/ Call("cameraFunctionDiaphragmOpen", <<attr["diaphragm_mode"] = "open">>)
           \/ UNCHANGED rfc /\ Ignored("diaphragm_mode")
    BY <1>4 DEF callbackSetDiaphragmMode, convertDiaphragmModeFromStr, Ignored
  <2> QED BY <1>0, <2>1, <2>2, <2>3, SingleKeepsIInv
<1>5. CASE callbackStartVideoStream
  <2>1. Expected("start_video_stream") = <<"stream", attr["start_video_stream"]>>
    BY DEF Expected
  <2>2. <<attr["start_video_stream"]>> \in Arguments("stream")
    BY <1>0, <1>1 DEF Arguments, Values, RealAttributes, BooleanAttributes, SignAttributes
  <2> QED BY <1>0, <1>5, <2>1, <2>2, SingleKeepsIInv DEF callbackStartVideoStream
<1>6. CASE callbackSetTxRxScale
  <2>1. Expected("trx_scale") = <<"setTxrxScale", attr["trx_scale"]>>
    BY DEF Expected
  <2>2. <<attr["trx_scale"]>> \in Arguments("setTxrxScale")
    <3>1. attr["trx_scale"] \in Reals
      BY <1>0, <1>1, RealValues DEF RealAttributes, SignAttributes
    <3> QED BY <3>1 DEF Arguments
  <2> QED BY <1>0, <1>6, <2>1, <2>2, SingleKeepsIInv DEF callbackSetTxRxScale
<1>7. CASE callbackSetShowAim
  <2>1. Expected("show_aim") = <<"cameraFunctionShowAim", attr["show_aim"]>>
    BY DEF Expected
  <2>2. <<attr["show_aim"]>> \in Arguments("cameraFunctionShowAim")
    BY <1>0, <1>1 DEF Arguments, Values, RealAttributes, BooleanAttributes, SignAttributes
  <2> QED BY <1>0, <1>7, <2>1, <2>2, SingleKeepsIInv DEF callbackSetShowAim
<1>8. CASE callbackSetShowTelemetry
  <2>1. Expected("show_telemetry") = <<"cameraFunctionShowTelemetry", attr["show_telemetry"]>>
    BY DEF Expected
  <2>2. <<attr["show_telemetry"]>> \in Arguments("cameraFunctionShowTelemetry")
    BY <1>0, <1>1 DEF Arguments, Values, RealAttributes, BooleanAttributes, SignAttributes
  <2> QED BY <1>0, <1>8, <2>1, <2>2, SingleKeepsIInv DEF callbackSetShowTelemetry
<1> QED BY <1>2, <1>3, <1>4, <1>5, <1>6, <1>7, <1>8

LEMMA Invariance == Spec => []IInv
<1>1. Init => IInv
  BY InitIInv
<1>2. IInv /\ [Next]_vars => IInv'
  <2> SUFFICES ASSUME IInv, [Next]_vars
               PROVE  IInv'
    OBVIOUS
  <2>1. CASE Operator
    BY <2>1, WriteKeepsIInv DEF Operator
  <2>2. CASE callbackApprovePending
    BY <2>2, PairedHandlersKeepIInv, SingleHandlersKeepIInv DEF callbackApprovePending
  <2>3. CASE UNCHANGED vars
    <3>1. /\ \A name : Values(name)' = Values(name)
          /\ \A command : Arguments(command)' = Arguments(command)
          /\ \A name : Expected(name)' = Expected(name) /\ Seen(name)' = Seen(name)
          /\ \A name : Ignored(name)' = Ignored(name)
          /\ \A name : Queued(name)' = Queued(name)
      BY <2>3 DEF vars, Values, Arguments, Expected, Direction, Seen, Ignored, Queued
    <3>2. TypeOK' /\ Maps'
      BY <2>3, <3>1 DEF vars, caches, IInv, TypeOK, Maps
    <3>3. CachesFollow' /\ AnglesSent' /\ RatesSent' /\ OpticsSettle'
      BY <2>3, <3>1
      DEF vars, caches, IInv, CachesFollow, AnglesSent, RatesSent, OpticsSettle,
          Settled, WholeDegrees
    <3> QED BY <3>2, <3>3 DEF IInv
  <2> QED BY <2>1, <2>2, <2>3 DEF Next
<1> QED BY <1>1, <1>2, PTL DEF Spec

(* Attributes, caches and the drone's commands keep their types. *)
THEOREM TypeCorrect == Spec => []TypeOK
<1> QED BY Invariance, PTL DEF IInv

(* The handlers read values late and complete commands from caches; with   *)
(* no callback of a command waiting, everything the operator wrote to this *)
(* client, each half of a pair included, is what the drone was sent last:  *)
(* to the number, the azimuth to less than a degree.                       *)
THEOREM EveryCommandSettles == Spec => []CommandsSettle
<1>1. ASSUME IInv PROVE CommandsSettle
  <2>1. attr["want_azimut"] \in Int
    <3>1. "want_azimut" \in RealAttributes \ SignAttributes /\ "want_azimut" \in Attributes
      BY DEF Attributes, RealAttributes, SignAttributes
    <3>2. attr["want_azimut"] \in Reals
      BY <1>1, <3>1, RealValues DEF IInv, TypeOK
    <3> QED BY <3>2, CommandAssumption
  <2>2. AnglesSettle
    <3> SUFFICES ASSUME Settled({"want_azimut", "want_elevation"}),
                        "want_azimut" \in written \/ "want_elevation" \in written
                 PROVE  AnglesSettle
      BY DEF AnglesSettle
    <3>1. /\ rfc["setPositionAngle"] # Never
          /\ rfc["setPositionAngle"] = <<Seen("want_elevation"), WholeDegrees(Seen("want_azimut"))>>
      BY <1>1 DEF IInv, AnglesSent
    <3>2. "want_azimut" \in written =>
            rfc["setPositionAngle"][2] - attr["want_azimut"] \in (1 - Unit)..(Unit - 1)
      BY <2>1, <3>1, FractionIsSmall DEF Seen
    <3>3. "want_elevation" \in written => rfc["setPositionAngle"][1] = attr["want_elevation"]
      BY <3>1 DEF Seen
    <3> QED BY <3>1, <3>2, <3>3 DEF AnglesSettle
  <2>3. RatesSettle
    BY <1>1 DEF IInv, RatesSent, RatesSettle, Seen
  <2> QED BY <1>1, <2>2, <2>3 DEF IInv, CommandsSettle
<1> QED BY <1>1, Invariance, PTL
=============================================================================
