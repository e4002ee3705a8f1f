---------------------------- MODULE FrameCounter ----------------------------
(***************************************************************************)
(* The frame counter of the coordinator and its copy in non-volatile       *)
(* memory.  The co-processor counts the frames it secures; the collector   *)
(* saves the counter of an acknowledged frame once in a window             *)
(* (Csf_updateFrameCounter) and, after a restart of the host or of the     *)
(* co-processor, sets the co-processor to a counter a window above the     *)
(* saved one (Csf_getFrameCounter, from processStartEvent).                *)
(***************************************************************************)
EXTENDS Integers

CONSTANTS
    Window,      \* FRAME_COUNTER_SAVE_WINDOW
    MaxCounter,  \* bound: the counter at which the co-processor stops
    WriteFails   \* may a write to non-volatile memory fail?

ASSUME ConstantsAssumption ==
    /\ Window \in Nat \ {0}
    /\ MaxCounter \in Nat
    /\ WriteFails \in BOOLEAN

Absent == -1     \* there is no item CSF_NV_FRAMECOUNTER_ID

VARIABLES
    running,     \* processStartEvent has set the co-processor's counter
    counter,     \* the counter of the co-processor's next frame
    waiting,     \* acknowledged frames whose confirm is on its way
    lastSaved,   \* lastSavedCoordinatorFrameCounter
    nv,          \* the saved counter
    acked,       \* history: above every counter confirmed as acknowledged
    failed       \* history: a write has failed

fcVars == <<running, counter, waiting, lastSaved, nv, acked, failed>>

FcInit ==
    /\ running = FALSE
    /\ counter = 0
    /\ waiting = {}
    /\ lastSaved = 0
    /\ nv = Absent
    /\ acked = 0
    /\ failed = FALSE

(* writeItem succeeds, or leaves the item as it was.                       *)
Written(c) == nv' = c /\ failed' = failed
NotWritten == WriteFails /\ nv' = nv /\ failed' = TRUE

(* Csf_getFrameCounter.                                                    *)
GetFrameCounter ==
    \/ /\ nv # Absent
       /\ counter' = nv + Window
       /\ UNCHANGED <<nv, failed>>
    \/ /\ nv = Absent
       /\ counter' = 0
       /\ Written(0) \/ NotWritten

StartCounter ==
    /\ ~running
    /\ running' = TRUE
    /\ GetFrameCounter
    /\ UNCHANGED <<waiting, lastSaved, acked>>

(* The co-processor secures a frame.  Frames that nobody acknowledges, be  *)
(* they lost or broadcast, use up counters too.                            *)
Send(acknowledged) ==
    /\ running
    /\ counter < MaxCounter
    /\ counter' = counter + 1
    /\ waiting' = IF acknowledged THEN waiting \cup {counter} ELSE waiting
    /\ UNCHANGED <<running, lastSaved, nv, acked, failed>>

(* Mutant: the first counter outside the window is not saved.              *)
UpdateFrameCounterPast(c) ==
    \/ /\ c > lastSaved + Window
       /\ \/ Written(c) /\ lastSaved' = c
          \/ NotWritten /\ lastSaved' = lastSaved
    \/ /\ c <= lastSaved + Window
       /\ UNCHANGED <<lastSaved, nv, failed>>

(* Csf_updateFrameCounter, for the coordinator itself.                     *)
UpdateFrameCounter(c) ==
    \/ /\ c >= lastSaved + Window
       /\ \/ Written(c) /\ lastSaved' = c
          \/ NotWritten /\ lastSaved' = lastSaved
    \/ /\ c < lastSaved + Window
       /\ UNCHANGED <<lastSaved, nv, failed>>

(* dataCnfCB, with status success.  Confirms come in any order: a frame    *)
(* for a sleeping device waits until it polls.                             *)
DataCnf(c) ==
    /\ c \in waiting
    /\ waiting' = waiting \ {c}
    /\ acked' = IF c < acked THEN acked ELSE c + 1
    /\ UpdateFrameCounter(c)
    /\ UNCHANGED <<running, counter>>

(* resetIndCb: the co-processor restarts, and the start event is set.      *)
ResetCounter ==
    /\ running
    /\ running' = FALSE
    /\ waiting' = {}
    /\ UNCHANGED <<counter, lastSaved, nv, acked, failed>>

(* The host program dies; started again, it resets the co-processor.       *)
CrashCounter ==
    /\ running' = FALSE
    /\ waiting' = {}
    /\ lastSaved' = 0
    /\ UNCHANGED <<counter, nv, acked, failed>>

FcNext ==
    \/ StartCounter \/ ResetCounter \/ CrashCounter
    \/ \E acknowledged \in BOOLEAN : Send(acknowledged)
    \/ \E c \in waiting : DataCnf(c)

FcSpec == FcInit /\ [][FcNext]_fcVars

-----------------------------------------------------------------------------
FcTypeOK ==
    /\ running \in BOOLEAN
    /\ counter \in Nat
    /\ waiting \subseteq Nat
    /\ lastSaved \in Nat
    /\ nv \in Nat \cup {Absent}
    /\ acked \in Nat
    /\ failed \in BOOLEAN

(* A counter under which a device acknowledged a frame is never used for   *)
(* another one: whatever the order of confirms, resets and crashes, the    *)
(* window above the saved counter is past all of them, unless the memory   *)
(* has failed.                                                             *)
AckedAreBehind == ~failed /\ running => acked <= counter

(* The counter in the memory only ever grows, by a window at least, across *)
(* restarts as well: a restart forgets lastSavedCoordinatorFrameCounter,   *)
(* so that any confirm might be saved, but the frames of the new run are   *)
(* a window above the old.  This keeps the writes to the flash rare.       *)
SavesAreRare ==
    [][nv # Absent /\ nv' # nv => nv' >= nv + Window]_fcVars

(* What is remembered of the saved counter, and the frames in flight.      *)
SavedIsKnown ==
    /\ lastSaved \in {0, nv}
    /\ \A c \in waiting : c < counter
    /\ running \/ waiting = {}
    /\ nv # Absent /\ running /\ lastSaved # nv =>
          /\ counter >= nv + Window
          /\ \A c \in waiting : c >= nv + Window

(* A restart will be past what was acknowledged.                           *)
WindowIsAhead ==
    ~failed =>
        /\ running => nv # Absent
        /\ nv = Absent => acked = 0
        /\ nv # Absent => acked <= nv + Window
        /\ running => acked <= counter

(* The inductive invariant.                                                *)
IInv == FcTypeOK /\ SavedIsKnown /\ WindowIsAhead
=============================================================================
