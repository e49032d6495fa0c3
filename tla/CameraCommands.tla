--------------------------- MODULE CameraCommands ---------------------------
(***************************************************************************)
(* The camera and service commands: the operator writes an attribute of    *)
(* the camera object, the objrepr server queues an approvePending callback *)
(* that carries the attribute's name, ControlSignalReceiver reads the      *)
(* value when the callback runs and passes it to DroneController, which    *)
(* calls the rfc library.  The library takes angles and rates in pairs, so *)
(* DroneController completes each command with a cached other half.        *)
(*                                                                         *)
(* Real numbers are integers that count 1/Unit of a degree.                *)
(***************************************************************************)
EXTENDS Sequences, Integers

CONSTANTS Consoles,   \* sets of attributes an operator may work with
          Reals,      \* values of a real attribute, in units
          NaN,        \* a rate that is not a number
          Unit,       \* units per degree
          MaxCalls    \* bound on the callbacks waiting to run

RealAttributes == {"want_azimut", "azimut_change_rate", "want_elevation",
                   "elevation_change_rate", "focus_change_rate",
                   "zoom_change_rate", "trx_scale"}
BooleanAttributes == {"start_video_stream", "show_aim", "show_telemetry"}
EnumAttributes == {"diaphragm_mode"}
SignAttributes == {"focus_change_rate", "zoom_change_rate"}    \* only the sign counts
Attributes == RealAttributes \cup BooleanAttributes \cup EnumAttributes

ASSUME CommandAssumption ==
    /\ Consoles \subseteq SUBSET Attributes
    /\ Reals \subseteq Int /\ 0 \in Reals /\ NaN \notin Int
    /\ Unit \in Nat \ {0}
    /\ MaxCalls \in Nat

DiaphragmModes == {"auto", "open", "closed"}    \* the last one is unknown
Values(name) == CASE name \in SignAttributes    -> Reals \cup {NaN}
                  [] name \in RealAttributes \ SignAttributes -> Reals
                  [] name \in BooleanAttributes -> BOOLEAN
                  [] OTHER                      -> DiaphragmModes

VARIABLES
    console,           \* the attributes this operator works with
    attr,              \* the attribute map on the server
    calls,             \* names of the approvePending callbacks queued
    m_azimutAbsDeg, m_elevationAbsDeg,    \* cached halves of the angles
    m_azimutIncDeg, m_elevationIncDeg,    \* cached halves of the rates
    rfc,               \* the last arguments of each rfc command, or Never
    written            \* attributes whose callback ran since the client started

caches == <<m_azimutAbsDeg, m_elevationAbsDeg, m_azimutIncDeg, m_elevationIncDeg>>
vars == <<console, attr, calls, m_azimutAbsDeg, m_elevationAbsDeg, m_azimutIncDeg,
          m_elevationIncDeg, rfc, written>>

Never == <<>>      \* a command is the sequence of its arguments

Commands == {"setPositionAngle", "cameraRotation", "cameraFunctionFocus",
             "cameraFunctionZoom", "cameraFunctionDiaphragmOpen", "stream",
             "setTxrxScale", "cameraFunctionShowAim", "cameraFunctionShowTelemetry"}

(* The attributes live on the server: a client that starts finds the       *)
(* angles that were written to an earlier one, and caches zeros.           *)
Init ==
    /\ console \in Consoles
    /\ \E azimut, elevation \in Reals :
         attr = [name \in Attributes |->
                   CASE name = "want_azimut"         -> azimut
                     [] name = "want_elevation"      -> elevation
                     [] name \in BooleanAttributes -> FALSE
                     [] name \in EnumAttributes    -> "auto"
                     [] OTHER                      -> 0]
    /\ written = {}
    /\ calls = <<>>
    /\ m_azimutAbsDeg = 0 /\ m_elevationAbsDeg = 0
    /\ m_azimutIncDeg = 0 /\ m_elevationIncDeg = 0
    /\ rfc = [command \in Commands |-> Never]

----------------------------------------------------------------------------
(* The operator writes an attribute; the server queues the callback. *)
Write(name, value) ==
    /\ Len(calls) < MaxCalls
    /\ attr' = [attr EXCEPT ![name] = value]
    /\ calls' = Append(calls, name)
    /\ UNCHANGED <<console, caches, rfc, written>>

Approve(name) ==
    /\ calls # <<>> /\ Head(calls) = name
    /\ calls' = Tail(calls)
    /\ written' = written \cup {name}
    /\ UNCHANGED <<console, attr>>

Call(command, arguments) == rfc' = [rfc EXCEPT ![command] = arguments]

(* const int64_t azimutAbs = attr->value(): the fraction is cut off, towards *)
(* zero.                                                                     *)
WholeDegrees(real) == IF real >= 0 THEN Unit * (real \div Unit)
                                   ELSE -(Unit * ((-real) \div Unit))

callbackSetWantAzimut ==
    LET azimutAbs == WholeDegrees(attr["want_azimut"]) IN
    /\ Approve("want_azimut")
    /\ Call("setPositionAngle", <<m_elevationAbsDeg, azimutAbs>>)
    /\ m_azimutAbsDeg' = azimutAbs
    /\ UNCHANGED <<m_elevationAbsDeg, m_azimutIncDeg, m_elevationIncDeg>>

callbackSetWantElevation ==
    /\ Approve("want_elevation")
    /\ Call("setPositionAngle", <<attr["want_elevation"], m_azimutAbsDeg>>)
    /\ m_elevationAbsDeg' = attr["want_elevation"]
    /\ UNCHANGED <<m_azimutAbsDeg, m_azimutIncDeg, m_elevationIncDeg>>

callbackSetAzimutChangeRate ==
    /\ Approve("azimut_change_rate")
    /\ Call("cameraRotation", <<attr["azimut_change_rate"], m_elevationIncDeg>>)
    /\ m_azimutIncDeg' = attr["azimut_change_rate"]
    /\ UNCHANGED <<m_azimutAbsDeg, m_elevationAbsDeg, m_elevationIncDeg>>

callbackSetElevationChangeRate_uncached ==
    /\ Approve("elevation_change_rate")
    /\ Call("cameraRotation", <<m_azimutIncDeg, attr["elevation_change_rate"]>>)
    /\ UNCHANGED caches
callbackSetElevationChangeRate ==
    /\ Approve("elevation_change_rate")
    /\ Call("cameraRotation", <<m_azimutIncDeg, attr["elevation_change_rate"]>>)
    /\ m_elevationIncDeg' = attr["elevation_change_rate"]
    /\ UNCHANGED <<m_azimutAbsDeg, m_elevationAbsDeg, m_azimutIncDeg>>

(* A rate drives focus or zoom by its sign; one without a sign, and that is *)
(* not zero either, calls nothing.                                          *)
Direction_unknownStop(rate) == CASE rate > 0 -> "In" [] rate < 0 -> "Out" [] OTHER -> "UNDEFINED"
Direction(rate) == CASE rate > 0 -> "In" [] rate < 0 -> "Out" [] OTHER -> "Stop"

Drive(command, rate) ==
    IF rate = NaN THEN UNCHANGED rfc ELSE Call(command, <<Direction(rate)>>)

callbackSetFocusChangeRate ==
    /\ Approve("focus_change_rate")
    /\ Drive("cameraFunctionFocus", attr["focus_change_rate"])
    /\ UNCHANGED caches

callbackSetZoomChangeRate ==
    /\ Approve("zoom_change_rate")
    /\ Drive("cameraFunctionZoom", attr["zoom_change_rate"])
    /\ UNCHANGED caches

(* An unknown diaphragm mode is logged and reaches no rfc call. *)
convertDiaphragmModeFromStr(str) == IF str \in {"open", "auto"} THEN str ELSE "UNDEFINED"

callbackSetDiaphragmMode ==
    LET mode == convertDiaphragmModeFromStr(attr["diaphragm_mode"]) IN
    /\ Approve("diaphragm_mode")
    /\ IF mode = "UNDEFINED"
         THEN UNCHANGED rfc
         ELSE Call("cameraFunctionDiaphragmOpen", <<mode = "open">>)
    /\ UNCHANGED caches

(* startStream or stopStream; scale, aim and telemetry are passed on. *)
callbackStartVideoStream ==
    /\ Approve("start_video_stream")
    /\ Call("stream", <<attr["start_video_stream"]>>)
    /\ UNCHANGED caches

callbackSetTxRxScale ==
    /\ Approve("trx_scale")
    /\ Call("setTxrxScale", <<attr["trx_scale"]>>)
    /\ UNCHANGED caches

callbackSetShowAim ==
    /\ Approve("show_aim")
    /\ Call("cameraFunctionShowAim", <<attr["show_aim"]>>)
    /\ UNCHANGED caches

callbackSetShowTelemetry ==
    /\ Approve("show_telemetry")
    /\ Call("cameraFunctionShowTelemetry", <<attr["show_telemetry"]>>)
    /\ UNCHANGED caches

callbackApprovePending ==
    \/ callbackSetWantAzimut \/ callbackSetAzimutChangeRate
    \/ callbackSetWantElevation \/ callbackSetElevationChangeRate
    \/ callbackSetFocusChangeRate \/ callbackSetZoomChangeRate
    \/ callbackSetDiaphragmMode \/ callbackStartVideoStream
    \/ callbackSetTxRxScale \/ callbackSetShowAim \/ callbackSetShowTelemetry

Operator == \E name \in console : \E value \in Values(name) : Write(name, value)

Next == Operator \/ callbackApprovePending

Spec == Init /\ [][Next]_vars

----------------------------------------------------------------------------
Arguments(command) ==
    CASE command \in {"setPositionAngle", "cameraRotation"} -> Int \X Int
      [] command \in {"cameraFunctionFocus", "cameraFunctionZoom"} ->
           {<<d>> : d \in {"In", "Out", "Stop"}}
      [] command = "setTxrxScale" -> {<<r>> : r \in Reals}
      [] OTHER -> {<<b>> : b \in BOOLEAN}
TypeOK ==
    /\ \A name \in Attributes : attr[name] \in Values(name)
    /\ console \in Consoles
    /\ calls \in Seq(console)
    /\ {m_azimutAbsDeg, m_elevationAbsDeg, m_azimutIncDeg, m_elevationIncDeg} \subseteq Int
    /\ \A command \in Commands : rfc[command] = Never \/ rfc[command] \in Arguments(command)
    /\ written \subseteq console

Queued(name) == \E i \in 1..Len(calls) : calls[i] = name
Settled(names) == \A name \in names : ~Queued(name)

(* Each angle command carries one angle of its own and one from the cache. *)
(* Of an angle that was written to an earlier client only, nothing is      *)
(* promised: the cache starts at zero.  The azimuth loses its fraction.    *)
AnglesSettle ==
    Settled({"want_azimut", "want_elevation"}) =>
        /\ "want_elevation" \in written =>
             /\ rfc["setPositionAngle"] # Never
             /\ rfc["setPositionAngle"][1] = attr["want_elevation"]
        /\ "want_azimut" \in written =>
             /\ rfc["setPositionAngle"] # Never
             /\ rfc["setPositionAngle"][2] - attr["want_azimut"] \in (1 - Unit)..(Unit - 1)

(* The same for the two rates, whose arguments come in the other order.    *)
RatesSettle ==
    Settled({"azimut_change_rate", "elevation_change_rate"}) =>
        /\ "azimut_change_rate" \in written =>
             /\ rfc["cameraRotation"] # Never
             /\ rfc["cameraRotation"][1] = attr["azimut_change_rate"]
        /\ "elevation_change_rate" \in written =>
             /\ rfc["cameraRotation"] # Never
             /\ rfc["cameraRotation"][2] = attr["elevation_change_rate"]

Expected(name) ==
    CASE name = "focus_change_rate" -> <<"cameraFunctionFocus", Direction(attr[name])>>
      [] name = "zoom_change_rate" -> <<"cameraFunctionZoom", Direction(attr[name])>>
      [] name = "diaphragm_mode" -> <<"cameraFunctionDiaphragmOpen", attr[name] = "open">>
      [] name = "start_video_stream" -> <<"stream", attr[name]>>
      [] name = "trx_scale" -> <<"setTxrxScale", attr[name]>>
      [] name = "show_aim" -> <<"cameraFunctionShowAim", attr[name]>>
      [] name = "show_telemetry" -> <<"cameraFunctionShowTelemetry", attr[name]>>

(* A diaphragm mode the client does not know, or a rate that is no number, *)
(* leaves the drone as the last one before set it.                         *)
Ignored(name) ==
    \/ name = "diaphragm_mode" /\ attr[name] \notin {"auto", "open"}
    \/ name \in SignAttributes /\ attr[name] = NaN

OpticsSettle ==
    \A name \in written \ {"want_azimut", "want_elevation",
                            "azimut_change_rate", "elevation_change_rate"} :
        ~Queued(name) /\ ~Ignored(name) => rfc[Expected(name)[1]] = <<Expected(name)[2]>>

(* Whatever the order, and however the writes overtake the callbacks: once *)
(* the callbacks of a command have run, everything the operator wrote to   *)
(* this client is what the drone was sent last, whichever half of a pair   *)
(* was written last: to the number, but for the azimuth, of which the code *)
(* drops the fraction, and which is less than a degree off.                *)
CommandsSettle == AnglesSettle /\ RatesSettle /\ OpticsSettle
=============================================================================
