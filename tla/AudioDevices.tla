---------------------------- MODULE AudioDevices ----------------------------
(***************************************************************************)
(* How the ADC and DAC modules of one process open and close their         *)
(* PortAudio streams (preparePa, start, stop and the destructors), when    *)
(* each of PortAudio's calls may fail.  PortAudio counts initialisations;  *)
(* the last Pa_Terminate closes every stream that is still open            *)
(* (portaudio.h:135).                                                      *)
(***************************************************************************)
EXTENDS Integers, FiniteSets

CONSTANTS ADCs, DACs     \* the modules that may be created

Devices == ADCs \cup DACs
ASSUME AudioDevicesAssumption == ADCs \cap DACs = {} /\ IsFiniteSet(Devices)

VARIABLES alive,         \* modules created and not deleted
          paStream,      \* "none", "stopped" or "running"
          initialised,   \* PortAudio's count
          balance,       \* history: a module's initialisations less its terminations
          failed         \* history: a call of PortAudio has failed

deviceVars == <<alive, paStream, initialised, balance, failed>>

DevicesInit ==
    /\ alive = {}
    /\ paStream = [m \in Devices |-> "none"]
    /\ initialised = 0
    /\ balance = [m \in Devices |-> 0]
    /\ failed = FALSE

-----------------------------------------------------------------------------
\* m makes `up` successful Pa_Initialize calls (0 or 1), leaves its stream
\* as `s`, and calls Pa_Terminate `down` times; its balance was `from`.
Calls(m, up, s, down, from) ==
    LET count == initialised + up
    IN  /\ initialised' = IF down > count THEN 0 ELSE count - down
        /\ paStream' = IF down > 0 /\ count > 0 /\ down >= count
                       THEN [x \in Devices |-> "none"]
                       ELSE [paStream EXCEPT ![m] = s]
        /\ balance' = [balance EXCEPT ![m] = from + up - down]

\* preparePa: where it fails, and how often it then terminates.  A stream
\* that could not be opened is started all the same; ADC::start terminates
\* when it fails, DAC::start does not look.
Outcomes(m) ==
    LET StartFails == IF m \in ADCs THEN 1 ELSE 0
    IN  { [at |-> "nowhere",    up |-> 1, stream |-> "running", down |-> 0],
          [at |-> "initialise", up |-> 0, stream |-> "none",    down |-> 1],
          [at |-> "device",     up |-> 1, stream |-> "none",    down |-> 1],
          [at |-> "open",       up |-> 1, stream |-> "none",    down |-> 1 + StartFails],
          [at |-> "start",      up |-> 1, stream |-> "stopped", down |-> StartFails] }

\* The constructor
CreateDevice(m) ==
    /\ m \notin alive
    /\ alive' = alive \cup {m}
    /\ \E o \in Outcomes(m) :
           /\ Calls(m, o.up, o.stream, o.down, 0)
           /\ failed' = (failed \/ o.at # "nowhere")

\* Slip: the stream is terminated whether or not stopping it failed.
StopTerminatesAlways(m) == IF m \in ADCs THEN 1 ELSE 0
\* Pa_StopStream fails for a stream that does not run.
StopTerminates(m) == IF m \in ADCs /\ paStream[m] # "running" THEN 1 ELSE 0

\* The destructor: stop, Pa_CloseStream, Pa_Terminate
DeleteDevice(m) ==
    /\ m \in alive
    /\ alive' = alive \ {m}
    /\ Calls(m, 0, "none", 1 + StopTerminates(m), balance[m])
    /\ UNCHANGED failed

DevicesNext == \E m \in Devices : CreateDevice(m) \/ DeleteDevice(m)
DevicesSpec == DevicesInit /\ [][DevicesNext]_deviceVars

-----------------------------------------------------------------------------
(* Modules come and go in any order and none takes away another's stream,  *)
(* as long as no call of PortAudio has failed.                             *)
LivingDevicesRun ==
    ~failed => /\ \A m \in alive : paStream[m] = "running"
               /\ initialised = Cardinality(alive)

(* "if Pa_Initialize() returns an error code, Pa_Terminate() should NOT be *)
(* called", and each call that succeeded is matched by one (portaudio.h).  *)
TerminatesMatchInitialises == \A m \in Devices : balance[m] >= 0
=============================================================================
