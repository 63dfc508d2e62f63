--------------------------- MODULE FairPartsProofs ---------------------------
(***************************************************************************)
(* What is proved of the parts with threads of their own and of those that *)
(* live on packets: a routing table, the timer of porttime, the thread and *)
(* the ring that bring the radio's frames, liblo's server, Envelope and    *)
(* AudioSource.  Each has its own inductive invariant, for any size of the *)
(* table and any number of threads, users, bytes and packets.              *)
(***************************************************************************)
EXTENDS FairParts, SelectionProofs, FiniteSetTheorems

-----------------------------------------------------------------------------
(***************************************************************************)
(* RoutingTable.  The table keeps its shape for every size, every set of   *)
(* addresses and every interleaving of the handlers with a walking         *)
(* callback.                                                               *)
(***************************************************************************)

(* What the pc says about the cursors and about the slot being filled.     *)
CursorsInRange ==
    /\ pc = "shrink" => i < aNum
    /\ pc = "shift" => j <= aNum /\ aNum < MAX_ANUM
    /\ pc \in {"path", "publish"} => aNum < MAX_ANUM /\ ~IsRouting(req.route)
    /\ pc \in {"path", "publish"} => loAddr[aNum] = req.route.ip
    /\ pc = "publish" => oscAddr[aNum] = req.route.osc

(* Slots beyond the ones in use are cleared; while an entry is taken out   *)
(* or appended, one more slot is in use.                                   *)
InUse == IF pc \in {"shift", "path", "publish"} THEN aNum + 1 ELSE aNum
BeyondCleared ==
    \A n \in Slots : n >= InUse => loAddr[n] = NULL /\ oscAddr[n] = NoOsc

HeldLive == \A n \in Held : Entry(n) \in Route

IInv == TypeOK /\ CursorsInRange /\ BeyondCleared /\ HeldLive /\ NoDuplicateRoutes

LEMMA InitIInv == Init => IInv
  <1> SUFFICES ASSUME Init PROVE IInv
    OBVIOUS
  <1> USE TableAssumption DEF Init, Slots
  <1>1. TypeOK
    <2>1. req \in [kind : Kinds, route : Route]
      BY DEF Kinds
    <2>2. pc \in {"idle", "scan"} \cup Removing \cup Appending
      BY DEF Removing, Appending
    <2>3. /\ loAddr \in [Slots -> Ip \cup {NULL, FREED}]
          /\ oscAddr \in [Slots -> Osc \cup {NoOsc}]
      OBVIOUS
    <2> QED BY <2>1, <2>2, <2>3 DEF TypeOK
  <1>2. CursorsInRange
    BY DEF CursorsInRange
  <1>3. BeyondCleared
    BY DEF BeyondCleared
  <1>4. Held = {}
    BY DEF Held, Holds
  <1> QED BY <1>1, <1>2, <1>3, <1>4 DEF IInv, HeldLive, NoDuplicateRoutes

LEMMA IInvImplies == IInv => NoDuplicateRoutes /\ SlotsAccountedFor
  <1> SUFFICES ASSUME IInv PROVE SlotsAccountedFor
    BY DEF IInv
  <1>1. \A n \in Held : Entry(n) \in Route
    BY DEF IInv, HeldLive
  <1>2. ASSUME pc \in {"idle", "scan"}, NEW n \in Slots \ Held
        PROVE  loAddr[n] = NULL /\ oscAddr[n] = NoOsc
    <2>1. n >= InUse
      BY <1>2, TableAssumption DEF IInv, TypeOK, InUse, Held, Holds, Slots
    <2> QED BY <2>1, <1>2 DEF IInv, BeyondCleared
  <1> QED BY <1>1, <1>2 DEF SlotsAccountedFor

LEMMA StepIInv == IInv /\ [Next]_vars => IInv'
  <1> SUFFICES ASSUME IInv, [Next]_vars PROVE IInv'
    OBVIOUS
  <1> USE TableAssumption DEF IInv, Slots
  <1>1. CASE Request
    <2>1. TypeOK'
      BY <1>1 DEF Request, Handle, FirstStep, TypeOK, table, walk, Kinds, Removing, Appending, Route
    <2>2. CursorsInRange'
      BY <1>1 DEF Request, Handle, FirstStep, TypeOK, table, walk, CursorsInRange, IsRouting, Entries, Entry, Full
    <2>3. BeyondCleared'
      BY <1>1 DEF Request, Handle, FirstStep, TypeOK, table, walk, CursorsInRange, BeyondCleared, InUse
    <2>4. HeldLive'
      BY <1>1 DEF Request, Handle, FirstStep, TypeOK, table, walk, CursorsInRange, HeldLive, Held, Holds, Entry, Route
    <2>5. NoDuplicateRoutes'
      BY <1>1 DEF Request, Handle, FirstStep, TypeOK, table, walk, CursorsInRange, NoDuplicateRoutes, Held, Holds, Entry
    <2> QED BY <2>1, <2>2, <2>3, <2>4, <2>5
  <1>2. CASE Repeat
    <2>1. TypeOK'
      BY <1>2 DEF Repeat, Handle, FirstStep, TypeOK, table, walk, Kinds, Removing, Appending, Route
    <2>2. CursorsInRange'
      BY <1>2 DEF Repeat, Handle, FirstStep, TypeOK, table, walk, CursorsInRange, IsRouting, Entries, Entry, Full
    <2>3. BeyondCleared'
      BY <1>2 DEF Repeat, Handle, FirstStep, TypeOK, table, walk, CursorsInRange, BeyondCleared, InUse
    <2>4. HeldLive'
      BY <1>2 DEF Repeat, Handle, FirstStep, TypeOK, table, walk, CursorsInRange, HeldLive, Held, Holds, Entry, Route
    <2>5. NoDuplicateRoutes'
      BY <1>2 DEF Repeat, Handle, FirstStep, TypeOK, table, walk, CursorsInRange, NoDuplicateRoutes, Held, Holds, Entry
    <2> QED BY <2>1, <2>2, <2>3, <2>4, <2>5
  <1>3. CASE ScanOn
    <2>1. TypeOK'
      BY <1>3 DEF ScanOn, TypeOK, table, walk, Kinds, Removing, Appending, Route
    <2>2. CursorsInRange'
      BY <1>3 DEF ScanOn, TypeOK, table, walk, CursorsInRange, IsRouting, Entries, Entry, Full
    <2>3. BeyondCleared'
      BY <1>3 DEF ScanOn, TypeOK, table, walk, CursorsInRange, BeyondCleared, InUse
    <2>4. HeldLive'
      BY <1>3 DEF ScanOn, TypeOK, table, walk, CursorsInRange, HeldLive, Held, Holds, Entry, Route
    <2>5. NoDuplicateRoutes'
      BY <1>3 DEF ScanOn, TypeOK, table, walk, CursorsInRange, NoDuplicateRoutes, Held, Holds, Entry
    <2> QED BY <2>1, <2>2, <2>3, <2>4, <2>5
  <1>4. CASE ScanEnd
    <2>1. TypeOK'
      BY <1>4 DEF ScanEnd, TypeOK, table, walk, Kinds, Removing, Appending, Route
    <2>2. CursorsInRange'
      BY <1>4 DEF ScanEnd, TypeOK, table, walk, CursorsInRange, IsRouting, Entries, Entry, Full
    <2>3. BeyondCleared'
      BY <1>4 DEF ScanEnd, TypeOK, table, walk, CursorsInRange, BeyondCleared, InUse
    <2>4. HeldLive'
      BY <1>4 DEF ScanEnd, TypeOK, table, walk, CursorsInRange, HeldLive, Held, Holds, Entry, Route
    <2>5. NoDuplicateRoutes'
      BY <1>4 DEF ScanEnd, TypeOK, table, walk, CursorsInRange, NoDuplicateRoutes, Held, Holds, Entry
    <2> QED BY <2>1, <2>2, <2>3, <2>4, <2>5
  <1>5. CASE Release
    <2>1. TypeOK'
      BY <1>5 DEF Release, TypeOK, table, walk, Kinds, Removing, Appending, Route
    <2>2. CursorsInRange'
      BY <1>5 DEF Release, TypeOK, table, walk, CursorsInRange, IsRouting, Entries, Entry, Full
    <2>3. BeyondCleared'
      BY <1>5 DEF Release, TypeOK, table, walk, CursorsInRange, BeyondCleared, InUse
    <2>4. HeldLive'
      BY <1>5 DEF Release, TypeOK, table, walk, CursorsInRange, HeldLive, Held, Holds, Entry, Route
    <2>5. NoDuplicateRoutes'
      BY <1>5 DEF Release, TypeOK, table, walk, CursorsInRange, NoDuplicateRoutes, Held, Holds, Entry
    <2> QED BY <2>1, <2>2, <2>3, <2>4, <2>5
  <1>6. CASE Shrink
    <2>1. TypeOK'
      BY <1>6 DEF Shrink, TypeOK, CursorsInRange, table, walk, Removing, Appending
    <2>2. CursorsInRange'
      BY <1>6 DEF Shrink, TypeOK, table, walk, CursorsInRange, IsRouting, Entries, Entry, Full
    <2>3. BeyondCleared'
      BY <1>6 DEF Shrink, TypeOK, table, walk, CursorsInRange, BeyondCleared, InUse
    <2>4. HeldLive'
      BY <1>6 DEF Shrink, TypeOK, table, walk, CursorsInRange, HeldLive, Held, Holds, Entry, Route
    <2>5. NoDuplicateRoutes'
      BY <1>6 DEF Shrink, TypeOK, table, walk, CursorsInRange, NoDuplicateRoutes, Held, Holds, Entry
    <2> QED BY <2>1, <2>2, <2>3, <2>4, <2>5
  <1>7. CASE ShiftOn
    <2>1. TypeOK'
      BY <1>7 DEF ShiftOn, TypeOK, CursorsInRange, table, walk, Removing, Appending
    <2>2. CursorsInRange'
      BY <1>7 DEF ShiftOn, TypeOK, table, walk, CursorsInRange, IsRouting, Entries, Entry, Full
    <2>3. BeyondCleared'
      BY <1>7 DEF ShiftOn, TypeOK, table, walk, CursorsInRange, BeyondCleared, InUse
    <2>4. HeldLive'
      BY <1>7 DEF ShiftOn, TypeOK, table, walk, CursorsInRange, HeldLive, Held, Holds, Entry, Route
    <2>5. NoDuplicateRoutes'
      BY <1>7 DEF ShiftOn, TypeOK, table, walk, CursorsInRange, NoDuplicateRoutes, Held, Holds, Entry
    <2> QED BY <2>1, <2>2, <2>3, <2>4, <2>5
  <1>8. CASE ShiftEnd
    <2>1. TypeOK'
      <3>1. pc' \in {"idle", "scan"} /\ i' \in Nat
        BY <1>8 DEF ShiftEnd, AfterRemoval, TypeOK
      <3>2. /\ loAddr' \in [Slots -> Ip \cup {NULL, FREED}]
            /\ oscAddr' \in [Slots -> Osc \cup {NoOsc}]
        BY <1>8 DEF ShiftEnd, TypeOK
      <3>3. UNCHANGED <<aNum, req, j, requests, k, walking, torn>>
        BY <1>8 DEF ShiftEnd, walk
      <3> QED BY <3>1, <3>2, <3>3 DEF TypeOK
    <2>2. CursorsInRange'
      BY <1>8 DEF ShiftEnd, AfterRemoval, TypeOK, table, walk, CursorsInRange, IsRouting, Entries, Entry, Full
    <2>3. BeyondCleared'
      BY <1>8 DEF ShiftEnd, AfterRemoval, TypeOK, table, walk, CursorsInRange, BeyondCleared, InUse
    <2>4. HeldLive'
      BY <1>8 DEF ShiftEnd, AfterRemoval, TypeOK, table, walk, CursorsInRange, HeldLive, Held, Holds, Entry, Route
    <2>5. NoDuplicateRoutes'
      BY <1>8 DEF ShiftEnd, AfterRemoval, TypeOK, table, walk, CursorsInRange, NoDuplicateRoutes, Held, Holds, Entry
    <2> QED BY <2>1, <2>2, <2>3, <2>4, <2>5
  <1>9. CASE AppendRefused
    <2>1. TypeOK'
      BY <1>9 DEF AppendRefused, TypeOK, table, walk, Kinds, Removing, Appending, Route
    <2>2. CursorsInRange'
      BY <1>9 DEF AppendRefused, TypeOK, table, walk, CursorsInRange, IsRouting, Entries, Entry, Full
    <2>3. BeyondCleared'
      BY <1>9 DEF AppendRefused, TypeOK, table, walk, CursorsInRange, BeyondCleared, InUse
    <2>4. HeldLive'
      BY <1>9 DEF AppendRefused, TypeOK, table, walk, CursorsInRange, HeldLive, Held, Holds, Entry, Route
    <2>5. NoDuplicateRoutes'
      BY <1>9 DEF AppendRefused, TypeOK, table, walk, CursorsInRange, NoDuplicateRoutes, Held, Holds, Entry
    <2> QED BY <2>1, <2>2, <2>3, <2>4, <2>5
  <1>10. CASE AppendHostname
    <2>1. TypeOK'
      BY <1>10 DEF AppendHostname, TypeOK, table, walk, Kinds, Removing, Appending, Route
    <2>2. CursorsInRange'
      BY <1>10 DEF AppendHostname, TypeOK, table, walk, CursorsInRange, IsRouting, Entries, Entry, Full
    <2>3. BeyondCleared'
      BY <1>10 DEF AppendHostname, TypeOK, table, walk, CursorsInRange, BeyondCleared, InUse
    <2>4. HeldLive'
      BY <1>10 DEF AppendHostname, TypeOK, table, walk, CursorsInRange, HeldLive, Held, Holds, Entry, Route
    <2>5. NoDuplicateRoutes'
      BY <1>10 DEF AppendHostname, TypeOK, table, walk, CursorsInRange, NoDuplicateRoutes, Held, Holds, Entry
    <2> QED BY <2>1, <2>2, <2>3, <2>4, <2>5
  <1>11. CASE AppendPath
    <2>1. TypeOK'
      BY <1>11 DEF AppendPath, TypeOK, table, walk, Kinds, Removing, Appending, Route
    <2>2. CursorsInRange'
      BY <1>11 DEF AppendPath, TypeOK, table, walk, CursorsInRange, IsRouting, Entries, Entry, Full
    <2>3. BeyondCleared'
      BY <1>11 DEF AppendPath, TypeOK, table, walk, CursorsInRange, BeyondCleared, InUse
    <2>4. HeldLive'
      BY <1>11 DEF AppendPath, TypeOK, table, walk, CursorsInRange, HeldLive, Held, Holds, Entry, Route
    <2>5. NoDuplicateRoutes'
      BY <1>11 DEF AppendPath, TypeOK, table, walk, CursorsInRange, NoDuplicateRoutes, Held, Holds, Entry
    <2> QED BY <2>1, <2>2, <2>3, <2>4, <2>5
  <1>12. CASE Publish
    <2>1. TypeOK'
      BY <1>12 DEF Publish, TypeOK, CursorsInRange, table, walk, Removing, Appending
    <2>2. CursorsInRange'
      BY <1>12 DEF Publish, TypeOK, table, walk, CursorsInRange, IsRouting, Entries, Entry, Full
    <2>3. BeyondCleared'
      BY <1>12 DEF Publish, TypeOK, table, walk, CursorsInRange, BeyondCleared, InUse
    <2>4. HeldLive'
      BY <1>12 DEF Publish, TypeOK, table, walk, CursorsInRange, HeldLive, Held, Holds, Entry, Route
    <2>5. NoDuplicateRoutes'
      \* The published entry was not in the table before.
      <3>1. \A n \in 0 .. aNum - 1 : Entry(n) # req.route
        BY <1>12 DEF Publish, CursorsInRange, IsRouting, Entries
      <3>2. Entry(aNum) = [ip |-> req.route.ip, osc |-> req.route.osc] /\ req.route \in Route
        BY <1>12 DEF Publish, CursorsInRange, TypeOK, Entry
      <3>3. Entry(aNum) = req.route
        BY <3>2 DEF Route
      <3>4. Held' = Held \cup {aNum} /\ Held = 0 .. aNum - 1
        BY <1>12 DEF Publish, TypeOK, CursorsInRange, Held, Holds
      <3>5. \A n \in Held' : Entry(n)' = Entry(n)
        BY <1>12 DEF Publish, Entry
      <3> QED BY <3>1, <3>3, <3>4, <3>5 DEF NoDuplicateRoutes
    <2> QED BY <2>1, <2>2, <2>3, <2>4, <2>5
  <1>13. CASE SenderStep \/ UNCHANGED vars
    <2>1. UNCHANGED <<table, handler, requests>>
      BY <1>13 DEF SenderStep, BeginPass, Walk, EndPass, vars
    <2>2. TypeOK'
      <3>1. CASE BeginPass
        <4>1. torn' \in BOOLEAN
          <5>1. torn' = (pc \in Removing)
            BY <3>1 DEF BeginPass
          <5>2. (pc \in Removing) \in BOOLEAN
            OBVIOUS
          <5> QED BY <5>1, <5>2
        <4> QED BY <4>1, <3>1, <2>1 DEF BeginPass, table, handler, TypeOK
      <3>2. CASE Walk \/ EndPass \/ UNCHANGED vars
        BY <3>2, <2>1 DEF Walk, EndPass, vars, walk, table, handler, TypeOK
      <3> QED BY <3>1, <3>2, <1>13 DEF SenderStep
    <2> QED BY <2>1, <2>2 DEF table, handler, CursorsInRange, BeyondCleared, InUse,
          HeldLive, NoDuplicateRoutes, Held, Holds, Entry, IsRouting, Entries
  <1> QED
    BY <1>1, <1>2, <1>3, <1>4, <1>5, <1>6, <1>7, <1>8, <1>9, <1>10, <1>11, <1>12, <1>13 DEF Next, HandlerStep

(* Spec => no duplicates, and the slots accounted for. *)
THEOREM TableShape == Spec => [](TypeOK /\ NoDuplicateRoutes /\ SlotsAccountedFor)
  <1>1. IInv => TypeOK /\ NoDuplicateRoutes /\ SlotsAccountedFor
    BY IInvImplies DEF IInv
  <1> QED BY InitIInv, StepIInv, <1>1, PTL DEF Spec

-----------------------------------------------------------------------------
(* What the handlers' steps do to the routes the table holds.              *)

\* Only SetRoute and AddRoute come to append.
AppendsAsAsked == pc \in Appending => req.kind \in {"SetRoute", "AddRoute"}
\* AddRoute searches and removes nothing.
ScansAsAsked == pc \in {"scan"} \cup Removing => req.kind # "AddRoute"

EditInv == IInv /\ AppendsAsAsked /\ ScansAsAsked

LEMMA InitEditInv == Init => EditInv
  BY InitIInv DEF EditInv, AppendsAsAsked, ScansAsAsked, Init, Appending, Removing

LEMMA StepEditInv == EditInv /\ [Next]_vars => EditInv'
  <1> SUFFICES ASSUME EditInv, [Next]_vars PROVE AppendsAsAsked' /\ ScansAsAsked'
    BY StepIInv DEF EditInv
  <1> USE DEF EditInv, AppendsAsAsked, ScansAsAsked, Appending, Removing, Kinds
  <1>1. CASE Request \/ Repeat
    <2>1. PICK kind \in Kinds, r \in Route : Handle(kind, r)
      BY <1>1, TableAssumption DEF Request, Repeat
    <2> QED BY <2>1 DEF Handle, FirstStep
  <1>2. CASE HandlerStep
    BY <1>2 DEF HandlerStep, ScanOn, ScanEnd, Release, Shrink, ShiftOn, ShiftEnd, AfterRemoval,
          AppendRefused, AppendHostname, AppendPath, Publish
  <1>3. CASE SenderStep \/ UNCHANGED vars
    BY <1>3 DEF SenderStep, BeginPass, Walk, EndPass, vars, handler
  <1> QED BY <1>1, <1>2, <1>3 DEF Next

\* The routes are the same where the same slots hold the same entries.
LEMMA SameRoutes ==
    ASSUME Held' = Held, \A n \in Held : Entry(n)' = Entry(n) PROVE Routes' = Routes
  BY DEF Routes

LEMMA RoutesStay ==
    ASSUME IInv, Next, ~Release, ~Publish PROVE Routes' = Routes
  <1> USE TableAssumption DEF IInv, Slots
  <1>1. CASE Request \/ Repeat
    <2>1. PICK kind \in Kinds, r \in Route : Handle(kind, r)
      BY <1>1 DEF Request, Repeat, Kinds
    <2> QED BY <2>1, SameRoutes DEF Handle, FirstStep, table, Held, Holds, Entry
  <1>2. CASE ScanOn \/ ScanEnd \/ AppendRefused
    BY <1>2, SameRoutes DEF ScanOn, ScanEnd, AppendRefused, table, Held, Holds, Entry
  <1>3. CASE AppendHostname \/ AppendPath
    <2>1. Held' = Held
      BY <1>3 DEF AppendHostname, AppendPath, Held, Holds
    <2>2. \A n \in Held : n # aNum
      BY <1>3 DEF AppendHostname, AppendPath, Held, Holds, TypeOK
    <2>3. \A n \in Held : Entry(n)' = Entry(n)
      BY <1>3, <2>2 DEF AppendHostname, AppendPath, Held, Entry, TypeOK
    <2> QED BY <2>1, <2>3, SameRoutes
  <1>4. CASE Shrink
    BY <1>4, SameRoutes DEF Shrink, Held, Holds, Entry, TypeOK, CursorsInRange
  <1>5. CASE ShiftOn
    \* What slot j + 1 held, slot j holds now, and the hole is at j + 1.
    <2>1. j \in Held' /\ j + 1 \notin Held' /\ j \notin Held /\ j + 1 \in Held
      BY <1>5 DEF ShiftOn, Held, Holds, TypeOK, CursorsInRange
    <2>2. \A n : n = j => Entry(n)' = Entry(j + 1)
      BY <1>5 DEF ShiftOn, Entry, TypeOK, CursorsInRange
    <2>3. \A n \in Slots \ {j, j + 1} : Entry(n)' = Entry(n) /\ (n \in Held' <=> n \in Held)
      BY <1>5 DEF ShiftOn, Entry, TypeOK, Held, Holds, CursorsInRange
    <2>4. ASSUME NEW n \in Held' PROVE Entry(n)' \in Routes
      <3>1. CASE n = j
        BY <3>1, <2>1, <2>2 DEF Routes
      <3>2. CASE n # j
        <4>1. n # j + 1 /\ n \in Slots
          BY <2>1, <2>4 DEF Held
        <4> QED BY <4>1, <3>2, <2>3, <2>4 DEF Routes
      <3> QED BY <3>1, <3>2
    <2>5. ASSUME NEW n \in Held PROVE Entry(n) \in Routes'
      <3>1. CASE n = j + 1
        <4>1. PICK m \in Held' : m = j
          BY <2>1
        <4>2. Entry(n) = Entry(m)'
          BY <3>1, <4>1, <2>2
        <4> QED BY <4>1, <4>2 DEF Routes
      <3>2. CASE n # j + 1
        <4>1. n # j /\ n \in Slots
          BY <2>1, <2>5 DEF Held
        <4> QED BY <4>1, <3>2, <2>3, <2>5 DEF Routes
      <3> QED BY <3>1, <3>2
    <2> QED BY <2>4, <2>5 DEF Routes
  <1>6. CASE ShiftEnd
    <2>1. j = aNum
      BY <1>6 DEF ShiftEnd, TypeOK, CursorsInRange
    <2>2. Held' = Held /\ aNum \notin Held
      BY <1>6, <2>1 DEF ShiftEnd, AfterRemoval, Held, Holds, TypeOK
    <2>3. \A n \in Held : Entry(n)' = Entry(n)
      BY <1>6, <2>2 DEF ShiftEnd, Held, Entry, TypeOK
    <2> QED BY <2>2, <2>3, SameRoutes
  <1>7. CASE SenderStep
    BY <1>7, SameRoutes DEF SenderStep, BeginPass, Walk, EndPass, table, handler, Held, Holds, Entry
  <1> QED BY <1>1, <1>2, <1>3, <1>4, <1>5, <1>6, <1>7 DEF Next, HandlerStep

\* EditsOnlyWhatWasAsked, for one step.
OnlyWhatWasAsked ==
    /\ Routes' \ Routes \subseteq
         (IF req.kind \in {"SetRoute", "AddRoute"} THEN {req.route} ELSE {})
    /\ \A r \in Routes \ Routes' :
         CASE req.kind = "AddRoute"    -> FALSE
           [] req.kind = "DeleteRoute" -> r = req.route
           [] OTHER                    -> Contains(r.osc, req.route.osc)

LEMMA StepAsked == EditInv /\ [Next]_vars => [OnlyWhatWasAsked]_vars
  <1> SUFFICES ASSUME EditInv, Next PROVE OnlyWhatWasAsked
    OBVIOUS
  <1> USE TableAssumption DEF EditInv, IInv, Slots
  <1>1. CASE ~Release /\ ~Publish
    <2>1. Routes' = Routes
      BY <1>1, RoutesStay
    <2> QED BY <2>1 DEF OnlyWhatWasAsked
  <1>2. CASE Release
    \* The entry in slot i matched; the others stay where they are.
    <2>1. Held' = Held \ {i} /\ i \in Held
      BY <1>2 DEF Release, Held, Holds, TypeOK
    <2>2. \A n \in Held' : Entry(n)' = Entry(n)
      BY <1>2, <2>1 DEF Release, Entry, Held, TypeOK
    <2>3. Routes' \subseteq Routes /\ Routes \ Routes' \subseteq {Entry(i)}
      BY <2>1, <2>2 DEF Routes
    <2>4. req.kind # "AddRoute" /\ Matches(i) /\ Entry(i).osc = oscAddr[i]
      BY <1>2 DEF Release, Entry, ScansAsAsked
    <2> QED BY <2>3, <2>4 DEF OnlyWhatWasAsked, Matches
  <1>3. CASE Publish
    \* The slot behind the last one is held from now on.
    <2>1. Held' = Held \cup {aNum}
      BY <1>3 DEF Publish, Held, Holds, TypeOK, CursorsInRange
    <2>2. \A n : Entry(n)' = Entry(n)
      BY <1>3 DEF Publish, Entry
    <2>3. Entry(aNum) = req.route
      <3>1. Entry(aNum) = [ip |-> req.route.ip, osc |-> req.route.osc] /\ req.route \in Route
        BY <1>3 DEF Publish, CursorsInRange, TypeOK, Entry
      <3> QED BY <3>1 DEF Route
    <2>4. Routes \subseteq Routes' /\ Routes' \ Routes \subseteq {req.route}
      BY <2>1, <2>2, <2>3 DEF Routes
    <2>5. req.kind \in {"SetRoute", "AddRoute"}
      BY <1>3 DEF Publish, AppendsAsAsked, Appending
    <2> QED BY <2>4, <2>5 DEF OnlyWhatWasAsked
  <1> QED BY <1>1, <1>2, <1>3

(* Whatever the table's size and its paths: a step adds at most the route  *)
(* that is asked for, and takes out only what the request matches.         *)
THEOREM EditsAreAsked == Spec => EditsOnlyWhatWasAsked
  <1>1. [OnlyWhatWasAsked]_vars <=>
        [/\ Routes' \ Routes \subseteq
              (IF req.kind \in {"SetRoute", "AddRoute"} THEN {req.route} ELSE {})
         /\ \A r \in Routes \ Routes' :
              CASE req.kind = "AddRoute"    -> FALSE
                [] req.kind = "DeleteRoute" -> r = req.route
                [] OTHER                    -> Contains(r.osc, req.route.osc)]_vars
    BY DEF OnlyWhatWasAsked
  <1> QED BY InitEditInv, StepEditInv, StepAsked, <1>1, PTL DEF Spec, EditsOnlyWhatWasAsked

-----------------------------------------------------------------------------
(* The callback's pass.                                                    *)

Begins(n) == [m \in 1 .. n |-> Entry(m - 1)]

\* A pass that no removal has overlapped has sent to what is selected of the
\* slots behind it; they hold what they held when it began.
PassSoFar ==
    ~torn =>
        /\ pc \notin Removing
        /\ k <= aNum /\ sent = Sendable(Begins(k))
        /\ \E n \in 0 .. aNum : start = Begins(n) /\ (~walking => n <= k)

PassInv == IInv /\ PassSoFar

LEMMA BeginsAre ==
    ASSUME IInv, pc \notin Removing, NEW n \in 0 .. aNum
    PROVE  /\ Begins(n) \in Seq(Route) /\ Len(Begins(n)) = n
           /\ \A m \in 1 .. n : Begins(n)[m] = Entry(m - 1)
  <1>1. ASSUME NEW m \in 1 .. n PROVE Entry(m - 1) \in Route
    <2>1. m - 1 \in Held
      BY <1>1, TableAssumption DEF IInv, TypeOK, Held, Holds, Slots, Removing
    <2> QED BY <2>1 DEF IInv, HeldLive
  <1> DEFINE e(m) == Entry(m - 1)
  <1>2. n \in Nat /\ \A m \in 1 .. n : e(m) \in Route
    BY <1>1
  <1>3. [m \in 1 .. n |-> e(m)] \in Seq(Route)
    <2> HIDE DEF e
    <2> QED BY <1>2, IsASeq
  <1>4. Begins(n) = [m \in 1 .. n |-> e(m)]
    BY DEF Begins
  <1>5. Begins(n) \in Seq(Route)
    BY <1>3, <1>4
  <1>6. DOMAIN Begins(n) = 1 .. n
    BY DEF Begins
  <1>7. Len(Begins(n)) = n
    BY <1>2, <1>5, <1>6, LenProperties
  <1> QED BY <1>5, <1>7 DEF Begins

\* The next slot is sent to if its path is one of Sends.
LEMMA SentOn ==
    ASSUME IInv, pc \notin Removing, k < aNum
    PROVE  Sendable(Begins(k + 1)) =
               IF oscAddr[k] \in Sends THEN Append(Sendable(Begins(k)), Entry(k)) ELSE Sendable(Begins(k))
  <1>1. k \in 0 .. aNum /\ k + 1 \in 0 .. aNum /\ k \in Nat /\ k + 1 \in 1 .. k + 1 /\ (k + 1) - 1 = k
    BY DEF IInv, TypeOK
  <1>2. /\ Begins(k) \in Seq(Route) /\ Len(Begins(k)) = k /\ \A m \in 1 .. k : Begins(k)[m] = Entry(m - 1)
    BY <1>1, BeginsAre
  <1>3. /\ Begins(k + 1) \in Seq(Route) /\ Len(Begins(k + 1)) = k + 1
        /\ \A m \in 1 .. k + 1 : Begins(k + 1)[m] = Entry(m - 1)
    BY <1>1, BeginsAre
  <1>4. Entry(k) \in Route /\ Entry(k).osc = oscAddr[k]
    <2>1. Begins(k + 1)[k + 1] = Entry(k)
      BY <1>1, <1>3
    <2>2. Begins(k + 1)[k + 1] \in Route
      BY <1>1, <1>3, ElementOfSeq
    <2> QED BY <2>1, <2>2 DEF Entry
  <1> DEFINE b == Append(Begins(k), Entry(k))
  <1>5. b = Begins(k + 1)
    <2>1. /\ b \in Seq(Route) /\ Len(b) = k + 1 /\ \A m \in 1 .. k : b[m] = Begins(k)[m]
          /\ b[k + 1] = Entry(k)
      BY <1>2, <1>4, AppendProperties
    <2> HIDE DEF b
    <2>2. ASSUME NEW m \in 1 .. k + 1 PROVE b[m] = Begins(k + 1)[m]
      <3>1. m \in 1 .. k \/ m = k + 1
        BY <1>1
      <3> QED BY <1>1, <1>2, <1>3, <2>1, <3>1
    <2> QED BY <1>3, <2>1, <2>2, SeqEqual
  <1> DEFINE T == {r \in Route : r.osc \in Sends}
  <1>6. Selected(b, T) = IF Entry(k) \in T THEN Append(Selected(Begins(k), T), Entry(k)) ELSE Selected(Begins(k), T)
    <2> HIDE DEF T
    <2> QED BY <1>2, <1>4, SelectedOfAppend
  <1>7. Entry(k) \in T <=> oscAddr[k] \in Sends
    BY <1>4
  <1> QED BY <1>5, <1>6, <1>7 DEF Sendable

LEMMA PassBegins == Init => PassSoFar
  <1> SUFFICES ASSUME Init PROVE PassSoFar
    OBVIOUS
  <1>1. Begins(0) = <<>>
    BY DEF Begins
  <1>2. Sendable(Begins(0)) = <<>>
    BY <1>1, SelectedEmpty DEF Sendable
  <1>3. 0 \in 0 .. aNum /\ k <= aNum /\ pc \notin Removing
    BY DEF Init, Removing
  <1> QED BY <1>1, <1>2, <1>3 DEF Init, PassSoFar

\* What leaves the slots in use as they are leaves the pass as it is.
LEMMA PassStays ==
    ASSUME PassInv, torn' = torn, UNCHANGED <<walking, k, sent, start>>, pc' \notin Removing,
           aNum' \in Nat, aNum <= aNum', ~torn => \A m \in 0 .. aNum - 1 : Entry(m)' = Entry(m)
    PROVE  PassSoFar'
  <1> SUFFICES ASSUME ~torn
               PROVE  /\ k' <= aNum' /\ sent' = Sendable(Begins(k))'
                      /\ \E n \in 0 .. aNum' : start' = Begins(n)' /\ (~walking' => n <= k')
    BY DEF PassSoFar
  <1>1. aNum \in Nat /\ k \in Nat
    BY DEF PassInv, IInv, TypeOK
  <1>2. ASSUME NEW n \in 0 .. aNum PROVE Begins(n)' = Begins(n)
    <2>1. \A m \in 1 .. n : m - 1 \in 0 .. aNum - 1
      BY <1>1
    <2> QED BY <2>1 DEF Begins
  <1>3. k \in 0 .. aNum /\ sent = Sendable(Begins(k))
    BY <1>1 DEF PassInv, PassSoFar
  <1>4. Sendable(Begins(k))' = Sendable(Begins(k))
    <2>1. Begins(k)' = Begins(k)
      BY <1>2, <1>3
    <2> QED BY <2>1 DEF Sendable
  <1>5. PICK n \in 0 .. aNum : start = Begins(n) /\ (~walking => n <= k)
    BY DEF PassInv, PassSoFar
  <1>6. n \in 0 .. aNum' /\ start' = Begins(n)'
    BY <1>1, <1>2, <1>5
  <1> QED BY <1>1, <1>3, <1>4, <1>5, <1>6

LEMMA PassKeeps == PassInv /\ [Next]_vars => PassSoFar'
  <1> SUFFICES ASSUME PassInv, [Next]_vars PROVE PassSoFar'
    OBVIOUS
  <1>1. aNum \in Nat /\ k \in Nat /\ IInv
    BY DEF PassInv, IInv, TypeOK
  <1>2. CASE Request \/ Repeat
    <2>1. PICK kind \in Kinds, r \in Route : Handle(kind, r)
      BY <1>2, TableAssumption DEF Request, Repeat, Kinds
    <2> QED BY <1>1, <2>1, PassStays DEF Handle, FirstStep, table, walk, Removing, Entry
  <1>3. CASE ScanOn \/ ScanEnd \/ AppendRefused
    BY <1>1, <1>3, PassStays DEF ScanOn, ScanEnd, AppendRefused, table, walk, Removing, Entry
  <1>4. CASE Release
    BY <1>4 DEF Release, PassSoFar
  <1>5. CASE Shrink \/ ShiftOn \/ ShiftEnd
    <2>1. torn
      BY <1>5 DEF PassInv, PassSoFar, Removing, Shrink, ShiftOn, ShiftEnd
    <2>2. torn'
      BY <1>5, <2>1 DEF Shrink, ShiftOn, ShiftEnd, walk
    <2> QED BY <2>2 DEF PassSoFar
  <1>6. CASE AppendHostname \/ AppendPath
    <2>1. \A m \in 0 .. aNum - 1 : Entry(m)' = Entry(m)
      <3>1. \A m \in 0 .. aNum - 1 : m # aNum /\ m \in Slots
        BY <1>1, TableAssumption DEF IInv, TypeOK, Slots
      <3>2. /\ loAddr \in [Slots -> Ip \cup {NULL, FREED}]
            /\ oscAddr \in [Slots -> Osc \cup {NoOsc}]
        BY <1>1 DEF IInv, TypeOK
      <3> QED BY <1>6, <3>1, <3>2 DEF AppendHostname, AppendPath, Entry
    <2> QED BY <1>1, <1>6, <2>1, PassStays DEF AppendHostname, AppendPath, walk, Removing
  <1>7. CASE Publish
    <2>1. \A m \in 0 .. aNum - 1 : Entry(m)' = Entry(m)
      BY <1>7 DEF Publish, Entry
    <2> QED BY <1>1, <1>7, <2>1, PassStays DEF Publish, walk, Removing
  <1>8. CASE BeginPass
    <2>1. \A n : Begins(n)' = Begins(n)
      BY <1>8 DEF BeginPass, table, Begins, Entry
    <2>2. Sendable(Begins(0)) = <<>>
      <3>1. Begins(0) = <<>>
        BY DEF Begins
      <3> QED BY <3>1, SelectedEmpty DEF Sendable
    <2>3. start' = Begins(aNum)
      BY <1>8 DEF BeginPass, AsSequence, Begins
    <2>4. /\ pc' = pc /\ aNum' = aNum /\ walking' = TRUE /\ k' = 0 /\ sent' = <<>>
          /\ torn' = (pc \in Removing)
      BY <1>8 DEF BeginPass, table, handler
    <2>5. aNum \in 0 .. aNum /\ 0 <= aNum
      BY <1>1
    <2>6. Sendable(Begins(k))' = <<>>
      BY <2>1, <2>2, <2>4 DEF Sendable, Begins
    <2> QED BY <2>1, <2>3, <2>4, <2>5, <2>6 DEF PassSoFar
  <1>9. CASE Walk
    <2>1. \A n : Begins(n)' = Begins(n)
      BY <1>9 DEF Walk, table, Begins, Entry
    <2> SUFFICES ASSUME ~torn'
                 PROVE  /\ pc' \notin Removing /\ k' <= aNum' /\ sent' = Sendable(Begins(k))'
                        /\ \E n \in 0 .. aNum' : start' = Begins(n)' /\ (~walking' => n <= k')
      BY DEF PassSoFar
    <2>2. /\ ~torn /\ k < aNum /\ k' = k + 1 /\ aNum' = aNum /\ start' = start /\ walking' /\ pc' = pc
          /\ sent' = IF oscAddr[k] \in Sends THEN Append(sent, Entry(k)) ELSE sent
      BY <1>9 DEF Walk, table, handler
    <2>3. pc \notin Removing /\ sent = Sendable(Begins(k)) /\ \E n \in 0 .. aNum : start = Begins(n)
      BY <2>2 DEF PassInv, PassSoFar
    <2>4. sent' = Sendable(Begins(k + 1))
      BY <1>1, <2>2, <2>3, SentOn
    <2>5. Sendable(Begins(k))' = Sendable(Begins(k + 1))
      BY <2>2, <1>9 DEF Walk, table, Sendable, Begins, Entry
    <2>6. PICK n \in 0 .. aNum : start = Begins(n)
      BY <2>3
    <2>7. n \in 0 .. aNum' /\ start' = Begins(n)'
      BY <2>1, <2>2, <2>6
    <2>8. pc' \notin Removing /\ k' <= aNum' /\ sent' = Sendable(Begins(k))'
      <3>1. k' <= aNum'
        BY <1>1, <2>2
      <3> QED BY <2>2, <2>3, <2>4, <2>5, <3>1
    <2> QED BY <2>2, <2>7, <2>8
  <1>10. CASE EndPass
    <2>1. \A n : Begins(n)' = Begins(n)
      BY <1>10 DEF EndPass, table, Begins, Entry
    <2>2. Sendable(Begins(k))' = Sendable(Begins(k))
      BY <1>10 DEF EndPass, table, Begins, Entry, Sendable
    <2> QED BY <1>1, <1>10, <2>1, <2>2 DEF EndPass, table, handler, PassInv, PassSoFar
  <1>11. CASE UNCHANGED vars
    BY <1>1, <1>11, PassStays DEF vars, table, handler, walk, Entry, PassInv, PassSoFar
  <1> QED BY <1>2, <1>3, <1>4, <1>5, <1>6, <1>7, <1>8, <1>9, <1>10, <1>11
          DEF Next, HandlerStep, SenderStep

(* However the handlers' steps fall into a callback's pass over the table: *)
(* unless they take something out, it sends to each selected route that    *)
(* was there when it began, once and in order, and to nothing else.        *)
THEOREM CleanPasses == Spec => []CleanPassIsTheTable
  <1>1. PassInv => CleanPassIsTheTable
    <2> SUFFICES ASSUME PassInv, ~walking, ~torn
                 PROVE  LET now == Sendable(AsSequence)
                            old == Sendable(start)
                        IN  /\ Len(old) <= Len(sent) /\ Len(sent) <= Len(now)
                            /\ sent = SubSeq(now, 1, Len(sent))
                            /\ old = SubSeq(now, 1, Len(old))
      BY DEF CleanPassIsTheTable
    <2>1. aNum \in Nat /\ k \in Nat /\ IInv /\ pc \notin Removing /\ k <= aNum /\ sent = Sendable(Begins(k))
      BY DEF PassInv, IInv, TypeOK, PassSoFar
    <2>2. PICK n \in 0 .. aNum : start = Begins(n) /\ n <= k
      BY DEF PassInv, PassSoFar
    <2>3. AsSequence = Begins(aNum)
      BY DEF AsSequence, Begins
    <2>4. ASSUME NEW a \in 0 .. aNum, NEW b \in 0 .. aNum, a <= b
          PROVE  IsPrefixOf(Sendable(Begins(a)), Sendable(Begins(b)))
      <3>1. /\ Begins(a) \in Seq(Route) /\ Len(Begins(a)) = a /\ \A m \in 1 .. a : Begins(a)[m] = Entry(m - 1)
            /\ Begins(b) \in Seq(Route) /\ Len(Begins(b)) = b /\ \A m \in 1 .. b : Begins(b)[m] = Entry(m - 1)
        BY <2>1, BeginsAre
      <3>2. IsPrefixOf(Begins(a), Begins(b))
        BY <2>4, <3>1 DEF IsPrefixOf
      <3> QED BY <3>1, <3>2, SelectedPrefix DEF Sendable
    <2>5. \A a \in 0 .. aNum : Sendable(Begins(a)) \in Seq(Route)
      BY <2>1, BeginsAre, SelectedType DEF Sendable
    <2>6. k \in 0 .. aNum /\ aNum \in 0 .. aNum
      BY <2>1
    <2>7. /\ IsPrefixOf(Sendable(Begins(n)), Sendable(Begins(k)))
          /\ IsPrefixOf(Sendable(Begins(k)), Sendable(Begins(aNum)))
          /\ IsPrefixOf(Sendable(Begins(n)), Sendable(Begins(aNum)))
      BY <2>1, <2>2, <2>4, <2>6
    <2> QED BY <2>1, <2>2, <2>3, <2>5, <2>6, <2>7, PrefixIsSubSeq
  <1>2. PassInv /\ [Next]_vars => PassInv'
    BY StepIInv, PassKeeps DEF PassInv
  <1>3. Init => PassInv
    BY InitIInv, PassBegins DEF PassInv
  <1> QED BY <1>1, <1>2, <1>3, PTL DEF Spec

-----------------------------------------------------------------------------
(* PortTime.  While the users of the timer are calm there is one timer.    *)

\* Threads are created in order.
Uncreated == \A n \in Threads : n > threads => state[n] = "none"

\* Pt_Stop can reach every run loop that is published and not stopped.
Reachable == \A n \in Threads : state[n] \in {"published", "running"} => timerRunLoop = n

TimerInv == TimerTypeOK /\ OneTimer /\ Uncreated /\ Reachable

ThreadStates == {"none", "created", "published", "running", "stopping", "ended"}
NoneLive(st) == \A n \in Threads : st[n] \notin {"created", "published", "running"}
UsersOK == users \subseteq Clocks \cup {XBC} /\ interval \in [Clocks \cup {XBC} -> Intervals]

LEMMA InitTimer == TimerInit => TimerInv
  <1> SUFFICES ASSUME TimerInit PROVE TimerInv
    OBVIOUS
  <1>1. state \in [Threads -> {"none", "created", "published", "running", "stopping", "ended"}]
    BY DEF TimerInit
  <1>2. user \in [Threads -> Clocks \cup {XBC, NoUser}]
    BY DEF TimerInit
  <1>3. \A n \in Threads : state[n] = "none"
    BY DEF TimerInit
  <1>4. TimerTypeOK
    <2>1. threads \in 0 .. MaxThreads /\ timerRunLoop \in 0 .. threads
      BY TimerAssumption DEF TimerInit
    <2>2. time_started_flag \in BOOLEAN /\ users \subseteq Clocks \cup {XBC}
      BY DEF TimerInit
    <2>3. interval \in [Clocks \cup {XBC} -> Intervals] /\ resolution \in [Threads -> Intervals]
      BY DEF TimerInit, Intervals
    <2> QED BY <1>1, <1>2, <2>1, <2>2, <2>3 DEF TimerTypeOK
  <1>5. OneTimer /\ Uncreated /\ Reachable
    BY <1>3 DEF TimerInit, OneTimer, Uncreated, Reachable, Live
  <1> QED BY <1>4, <1>5 DEF TimerInv

\* What OneTimer says of a timer that nobody has started.
LEMMA Unstarted == ASSUME TimerInv, ~time_started_flag PROVE NoneLive(state)
  BY DEF TimerInv, OneTimer, Live, NoneLive

\* Calm, a stop leaves no thread live.
LEMMA StopReaches ==
    ASSUME TimerInv, Calm
    PROVE  /\ AfterStop \in [Threads -> ThreadStates] /\ NoneLive(AfterStop)
           /\ \A n \in Threads : n > threads => AfterStop[n] = "none"
  BY DEF TimerInv, TimerTypeOK, Uncreated, Reachable, Calm, AfterStop, ThreadStates, NoneLive

\* Starting the timer when no thread is live makes the new thread the one.
LEMMA StartMakesOne ==
    ASSUME TimerInv, NEW u \in Clocks \cup {XBC}, NEW dt \in Intervals, NEW st \in [Threads -> ThreadStates],
           NoneLive(st), \A n \in Threads : n > threads => st[n] = "none",
           Start(u, dt, st), UsersOK'
    PROVE  TimerInv'
  <1>1. threads + 1 \in Threads /\ threads \in Nat /\ threads' = threads + 1
    BY TimerAssumption DEF TimerInv, TimerTypeOK, Start, Threads
  <1>2. \A n \in Threads : state'[n] = IF n = threads + 1 THEN "created" ELSE st[n]
    BY <1>1 DEF Start
  <1>3. TimerTypeOK'
    <2>1. state' \in [Threads -> {"none", "created", "published", "running", "stopping", "ended"}]
      BY <1>1 DEF Start, ThreadStates
    <2>2. user' \in [Threads -> Clocks \cup {XBC, NoUser}]
      BY <1>1 DEF Start, TimerInv, TimerTypeOK
    <2>3. timerRunLoop' \in 0 .. threads' /\ threads' \in 0 .. MaxThreads
      BY <1>1, TimerAssumption DEF Start, TimerInv, TimerTypeOK, Threads
    <2>4. time_started_flag' \in BOOLEAN
      BY DEF Start
    <2>5. resolution' \in [Threads -> Intervals]
      BY <1>1 DEF Start, TimerInv, TimerTypeOK
    <2> QED BY <2>1, <2>2, <2>3, <2>4, <2>5 DEF TimerTypeOK, UsersOK
  <1>4. OneTimer'
    <2>1. \A n \in Threads : Live(n)' <=> n = threads + 1
      BY <1>2 DEF Live, NoneLive
    <2>2. time_started_flag' = TRUE /\ threads' # 0
      BY <1>1 DEF Start
    <2> QED BY <1>1, <2>1, <2>2 DEF OneTimer
  <1>5. Uncreated'
    BY <1>1, <1>2 DEF Uncreated, Threads
  <1>6. Reachable'
    BY <1>2 DEF Reachable, Start, Threads, NoneLive
  <1> QED BY <1>3, <1>4, <1>5, <1>6 DEF TimerInv

LEMMA StopLeavesNone == ASSUME TimerInv, Calm, Stop, UsersOK' PROVE TimerInv'
  <1>1. state' = AfterStop /\ time_started_flag' = FALSE /\ UNCHANGED <<timerRunLoop, user, threads, resolution>>
    BY DEF Stop
  <1>2. TimerTypeOK'
    BY <1>1, StopReaches DEF TimerInv, TimerTypeOK, ThreadStates, UsersOK
  <1>3. NoneLive(state')
    BY <1>1, StopReaches
  <1>4. OneTimer' /\ Uncreated' /\ Reachable'
    BY <1>1, <1>3, StopReaches DEF OneTimer, Live, Uncreated, Reachable, Threads, NoneLive
  <1> QED BY <1>2, <1>4 DEF TimerInv

\* A call that finds the timer as it wants it.
LEMMA TimerLeft == ASSUME TimerInv, UNCHANGED timer, UsersOK' PROVE TimerInv'
  BY DEF timer, TimerInv, TimerTypeOK, OneTimer, Live, Uncreated, Reachable, UsersOK

LEMMA UserKeeps == ASSUME TimerInv, Calm, UserStep PROVE TimerInv'
  <1>0. /\ users \subseteq Clocks \cup {XBC} /\ interval \in [Clocks \cup {XBC} -> Intervals]
        /\ state \in [Threads -> ThreadStates] /\ \A n \in Threads : n > threads => state[n] = "none"
        /\ 1 \in Intervals
    BY DEF TimerInv, TimerTypeOK, Uncreated, ThreadStates, Intervals
  <1>1. ASSUME NEW u \in Clocks \cup {XBC}, Create(u) PROVE TimerInv'
    <2>1. UsersOK'
      BY <1>0, <1>1 DEF Create, UsersOK
    <2>2. CASE time_started_flag
      BY <1>1, <2>1, <2>2, TimerLeft DEF Create
    <2>3. CASE ~time_started_flag
      <3>1. Start(u, 1, state)
        BY <1>1, <2>3 DEF Create
      <3> QED BY <1>0, <2>1, <2>3, <3>1, Unstarted, StartMakesOne
    <2> QED BY <2>2, <2>3
  <1>2. ASSUME NEW c \in Clocks, Delete(c) PROVE TimerInv'
    <2>1. UsersOK' /\ Stop
      BY <1>0, <1>2 DEF Delete, UsersOK
    <2> QED BY <2>1, StopLeavesNone
  <1>3. ASSUME NEW c \in Clocks, NEW turned \in BOOLEAN, Data1(c, turned) PROVE TimerInv'
    <2>1. UsersOK' /\ interval[c] \in Intervals
      BY <1>0, <1>3 DEF Data1, UsersOK
    <2>2. CASE turned
      <3>1. Start(c, interval[c], state) /\ ~time_started_flag
        BY <1>3, <2>2 DEF Data1, TimerInv, TimerTypeOK
      <3> QED BY <1>0, <2>1, <3>1, Unstarted, StartMakesOne
    <2>3. CASE ~turned
      BY <1>3, <2>1, <2>3, StopLeavesNone DEF Data1
    <2> QED BY <2>2, <2>3
  <1>4. ASSUME NEW c \in Clocks, NEW turned \in BOOLEAN, NEW dt \in Intervals, Data2(c, turned, dt) PROVE TimerInv'
    <2>1. UsersOK'
      BY <1>0, <1>4 DEF Data2, UsersOK
    <2>2. CASE turned /\ time_started_flag
      <3>1. Start(c, dt, AfterStop)
        BY <1>4, <2>2 DEF Data2
      <3> QED BY <2>1, <3>1, StopReaches, StartMakesOne
    <2>3. CASE turned /\ ~time_started_flag
      <3>1. Start(c, dt, state)
        BY <1>4, <2>3 DEF Data2
      <3> QED BY <1>0, <2>1, <2>3, <3>1, Unstarted, StartMakesOne
    <2>4. CASE ~turned /\ time_started_flag
      BY <1>4, <2>1, <2>4, StopLeavesNone DEF Data2
    <2>5. CASE ~turned /\ ~time_started_flag
      BY <1>4, <2>1, <2>5, TimerLeft DEF Data2
    <2> QED BY <2>2, <2>3, <2>4, <2>5
  <1> QED BY <1>1, <1>2, <1>3, <1>4 DEF UserStep

LEMMA ThreadKeeps == ASSUME TimerInv, ThreadStep PROVE TimerInv'
  <1>1. PICK n \in Threads : PublishRunLoop(n) \/ Enter(n) \/ Expire(n) \/ Leave(n)
    BY DEF ThreadStep
  <1>2. /\ state[n] \in {"created", "published", "running", "stopping"} /\ n <= threads
        /\ UNCHANGED <<time_started_flag, user, threads, users, interval, resolution>>
    BY <1>1, TimerAssumption DEF PublishRunLoop, Enter, Expire, Leave, TimerInv, TimerTypeOK, Uncreated, Threads
  <1>3. TimerTypeOK'
    <2>1. state' \in [Threads -> {"none", "created", "published", "running", "stopping", "ended"}]
      BY <1>1 DEF PublishRunLoop, Enter, Expire, Leave, TimerInv, TimerTypeOK
    <2>2. timerRunLoop' \in 0 .. threads'
      BY <1>1, <1>2, TimerAssumption DEF PublishRunLoop, Enter, Expire, Leave, TimerInv, TimerTypeOK, Threads
    <2> QED BY <1>2, <2>1, <2>2 DEF TimerInv, TimerTypeOK
  <1>4. /\ \A m \in Threads \ {n} : Live(m)' <=> Live(m)
        /\ Live(n)' <=> Live(n) /\ ~Expire(n)
    <2>1. \A m \in Threads \ {n} : state'[m] = state[m]
      BY <1>1 DEF PublishRunLoop, Enter, Expire, Leave, TimerInv, TimerTypeOK
    <2>2. \A m \in Threads \ {n} : Live(m)' <=> Live(m)
      BY <2>1 DEF Live
    <2>3. ASSUME Expire(n) PROVE ~Live(n)'
      BY <2>3 DEF Expire, Live, TimerInv, TimerTypeOK
    <2>4. ASSUME PublishRunLoop(n) \/ Enter(n) \/ Leave(n), ~Expire(n) PROVE Live(n)' <=> Live(n)
      BY <2>4 DEF PublishRunLoop, Enter, Leave, Live, TimerInv, TimerTypeOK
    <2> QED BY <1>1, <2>2, <2>3, <2>4
  <1>5. OneTimer'
    <2>1. \A m \in Threads : Live(m)' => time_started_flag' /\ m = threads'
      BY <1>2, <1>4 DEF TimerInv, OneTimer
    <2>2. ASSUME time_started_flag' PROVE threads' # 0 /\ (Live(threads)' \/ resolution'[threads'] = 0)
      <3>1. threads # 0 /\ (Live(threads) \/ resolution[threads] = 0) /\ threads \in Threads
        BY <1>2, <2>2, TimerAssumption DEF TimerInv, OneTimer, TimerTypeOK, Threads
      <3>2. CASE resolution[threads] = 0
        BY <1>2, <3>1, <3>2
      <3>3. CASE resolution[threads] # 0
        <4>1. Live(threads) /\ (threads = n => ~Expire(n))
          BY <3>1, <3>3 DEF Expire
        <4>2. Live(threads)'
          BY <1>2, <1>4, <3>1, <4>1 DEF Live
        <4> QED BY <1>2, <3>1, <4>2
      <3> QED BY <3>2, <3>3
    <2> QED BY <2>1, <2>2 DEF OneTimer
  <1>6. Uncreated'
    BY <1>1, <1>2, TimerAssumption DEF PublishRunLoop, Enter, Expire, Leave, TimerInv, TimerTypeOK, Uncreated, Threads
  <1>7. Reachable'
    <2> SUFFICES ASSUME NEW m \in Threads, state'[m] \in {"published", "running"} PROVE timerRunLoop' = m
      BY DEF Reachable
    <2>1. CASE m = n
      BY <1>1, <2>1 DEF PublishRunLoop, Enter, Expire, Leave, TimerInv, TimerTypeOK, Reachable
    <2>2. CASE m # n
      <3>1. state[m] \in {"published", "running"} /\ Live(m) /\ m = threads
        BY <1>1, <2>2 DEF PublishRunLoop, Enter, Expire, Leave, TimerInv, TimerTypeOK, OneTimer, Live
      <3>2. ~Live(n)
        BY <2>2, <3>1 DEF TimerInv, OneTimer
      <3>3. ~PublishRunLoop(n)
        BY <3>2 DEF PublishRunLoop, Live
      <3> QED BY <1>1, <3>1, <3>3 DEF Enter, Expire, Leave, TimerInv, Reachable
    <2> QED BY <2>1, <2>2
  <1> QED BY <1>3, <1>5, <1>6, <1>7 DEF TimerInv

(* While its users are calm the timer of the process is one, and lives as  *)
(* long as its flag says unless it was given an interval of 0.             *)
THEOREM TimerIsOne == CalmSpec => [](TimerTypeOK /\ OneTimer)
  <1>1. TimerInv /\ [CalmNext]_timerVars => TimerInv'
    <2> SUFFICES ASSUME TimerInv, [CalmNext]_timerVars PROVE TimerInv'
      OBVIOUS
    <2>1. CASE UNCHANGED timerVars
      BY <2>1, TimerLeft DEF timerVars, UsersOK, TimerInv, TimerTypeOK
    <2> QED BY <2>1, UserKeeps, ThreadKeeps DEF CalmNext
  <1>2. TimerInv => TimerTypeOK /\ OneTimer
    BY DEF TimerInv
  <1> QED BY InitTimer, <1>1, <1>2, PTL DEF CalmSpec

-----------------------------------------------------------------------------
(* The threads that read                                                   *)

States == {"new", "loop", "read", "sending", "gone"}

SerialTypeOK ==
    /\ fd \in SerialDevices \cup {BadFd} /\ device \in SerialDevices
    /\ serialActive \in BOOLEAN
    /\ caller \in {"idle", "joining", "preparing", "starting"}
    /\ readerAt \in [Readers -> States]
    /\ got \in [Readers -> SerialDevices \cup {BadFd}]

\* Between the join and the next start there is no thread; a thread that
\* lives is told to go only by the one who waits for it.
AliveWhen ==
    /\ caller # "idle" => ~serialActive
    /\ caller # "joining" /\ ~serialActive => Alive = {}

AtMostOne == \A r, s \in Alive : r = s

SendsWhatIsOpen == \A r \in Alive : readerAt[r] = "sending" => got[r] = fd

SerialInv == SerialTypeOK /\ AliveWhen /\ AtMostOne /\ SendsWhatIsOpen

LEMMA InitSerial == SerialInit => SerialInv
  BY DEF SerialInit, SerialInv, SerialTypeOK, States, AliveWhen, AtMostOne, SendsWhatIsOpen, Alive

\* What the controlling thread does keeps the invariant.
LEMMA CallerKeeps == ASSUME SerialInv, SerialCaller PROVE SerialInv'
  <1>1. CASE ThreadStart
    <2>1. ~serialActive /\ Alive = {}
      BY <1>1 DEF ThreadStart, SerialInv, AliveWhen
    <2>2. PICK r \in Readers : readerAt[r] = "new" /\ readerAt' = [readerAt EXCEPT ![r] = "loop"]
      BY <1>1, <2>1 DEF ThreadStart
    <2>3. SerialTypeOK'
      BY <1>1, <2>1, <2>2 DEF ThreadStart, SerialInv, SerialTypeOK, States
    <2>4. Alive' = {r}
      BY <2>1, <2>2 DEF Alive, SerialInv, SerialTypeOK
    <2>5. readerAt'[r] = "loop"
      BY <2>2 DEF SerialInv, SerialTypeOK
    <2> QED BY <1>1, <2>1, <2>3, <2>4, <2>5 DEF ThreadStart, SerialInv, AliveWhen, AtMostOne, SendsWhatIsOpen
  <1>2. CASE SetDevice
    <2>1. UNCHANGED <<fd, readerAt, got>> /\ Alive' = Alive
      BY <1>2 DEF SetDevice, Alive
    <2> QED BY <1>2, <2>1 DEF SetDevice, StopThread, SerialInv, SerialTypeOK, AliveWhen, AtMostOne, SendsWhatIsOpen
  <1>3. CASE Joined
    <2>1. Alive = {} /\ Alive' = {}
      BY <1>3 DEF Joined, Alive
    <2> QED BY <1>3, <2>1 DEF Joined, SerialInv, SerialTypeOK, AliveWhen, AtMostOne, SendsWhatIsOpen
  <1>4. CASE PrepareSerial
    <2>1. Alive = {} /\ Alive' = {}
      BY <1>4 DEF PrepareSerial, Alive, SerialInv, AliveWhen
    <2> QED BY <1>4, <2>1 DEF PrepareSerial, SerialInv, SerialTypeOK, AliveWhen, AtMostOne, SendsWhatIsOpen
  <1> QED BY <1>1, <1>2, <1>3, <1>4 DEF SerialCaller

\* So does the thread: it may go, but none comes of it.
LEMMA ReaderKeeps == ASSUME SerialInv, NEW r \in Readers, RunReader(r) PROVE SerialInv'
  <1>1. UNCHANGED <<fd, serialActive, caller, device>> /\ ThreadFunction(r)
    BY DEF RunReader
  <1>2. r \in Alive
    BY <1>1 DEF ThreadFunction, Alive
  <1>3. SerialTypeOK'
    BY <1>1 DEF ThreadFunction, SerialInv, SerialTypeOK, States
  <1>4. Alive' \subseteq Alive
    BY <1>1, <1>2 DEF ThreadFunction, SerialInv, SerialTypeOK, Alive
  <1>5. AliveWhen' /\ AtMostOne'
    BY <1>1, <1>4 DEF SerialInv, AliveWhen, AtMostOne
  <1>6. SendsWhatIsOpen'
    <2>1. readerAt'[r] = "sending" => got'[r] = fd
      BY <1>1 DEF ThreadFunction, SerialInv, SerialTypeOK
    <2> QED BY <1>1, <1>2, <1>4, <2>1 DEF SerialInv, AtMostOne, SendsWhatIsOpen
  <1> QED BY <1>3, <1>5, <1>6 DEF SerialInv

(* One thread at most reads and sends, and what it sends is from the       *)
(* device that is open.                                                    *)
THEOREM SerialHasOneReader == SerialSpec => []OneReader
  <1>1. SerialInv /\ [SerialNext]_serialVars => SerialInv'
    <2> SUFFICES ASSUME SerialInv, [SerialNext]_serialVars PROVE SerialInv'
      OBVIOUS
    <2>1. CASE Feed
      BY <2>1 DEF Feed, SerialInv, SerialTypeOK, AliveWhen, AtMostOne, SendsWhatIsOpen, Alive
    <2>2. CASE UNCHANGED serialVars
      BY <2>2 DEF serialVars, SerialInv, SerialTypeOK, AliveWhen, AtMostOne, SendsWhatIsOpen, Alive
    <2> QED BY <2>1, <2>2, CallerKeeps, ReaderKeeps DEF SerialNext
  <1>2. SerialInv => OneReader
    <2> SUFFICES ASSUME SerialInv PROVE Cardinality(Alive) <= 1
      BY DEF SerialInv, OneReader, SendsWhatIsOpen
    <2>1. CASE Alive = {}
      BY <2>1, FS_EmptySet
    <2>2. CASE Alive # {}
      <3>1. PICK r \in Alive : Alive = {r}
        BY <2>2 DEF SerialInv, AtMostOne
      <3>2. Cardinality({r}) = 1
        BY FS_Singleton, Zenon
      <3> QED BY <3>1, <3>2
    <2> QED BY <2>1, <2>2
  <1> QED BY InitSerial, <1>1, <1>2, PTL DEF SerialSpec

-----------------------------------------------------------------------------
(* The ring and its frames                                                 *)

\* The bytes of frames handled, and the bytes that wait in the ring.
Handled == FrameLen * Len(handled)
Waiting == received - Handled

ParserTypeOK ==
    /\ buf \in [RingSlots -> Nat] /\ rp \in RingSlots /\ wp \in RingSlots
    /\ received \in Nat /\ handled \in Seq(Nat)

\* Less than a frame waits, from rp to wp, and it begins with a frame's first byte.
InStep ==
    /\ Waiting \in 0 .. FrameLen - 1
    /\ Available(rp, wp) = Waiting
    /\ \A x \in 0 .. Waiting - 1 : buf[After(rp, x)] = Handled + x

InOrder == handled = [x \in 1 .. Len(handled) |-> x - 1]

RingInv == ParserTypeOK /\ InStep /\ InOrder

LEMMA FrameArithmetic ==
    ASSUME NEW F \in Nat, F >= 2, NEW L \in Nat, NEW r \in 0 .. F - 1
    PROVE  (F * L + r) % F = r /\ (F * L + r) \div F = L
  <1>1. F * L + r \in Nat
    OBVIOUS
  <1> QED BY <1>1, SMTT(30)

LEMMA InitRing == ParserInit => RingInv
  <1> SUFFICES ASSUME ParserInit PROVE RingInv
    OBVIOUS
  <1> USE ParserAssumption DEF ParserInit
  <1>1. Len(handled) = 0 /\ FrameLen * 0 = 0
    OBVIOUS
  <1>2. Handled = 0 /\ Waiting = 0
    BY <1>1 DEF Handled, Waiting
  <1>3. ParserTypeOK /\ InStep
    BY <1>2 DEF ParserTypeOK, InStep, RingSlots, Available
  <1>4. InOrder
    BY <1>1 DEF InOrder
  <1> QED BY <1>3, <1>4 DEF RingInv

LEMMA StepRing == RingInv /\ [ParserNext]_parserVars => RingInv'
  <1> SUFFICES ASSUME RingInv, ParserNext PROVE RingInv'
    BY DEF parserVars, RingInv, ParserTypeOK, InStep, InOrder, Waiting, Handled
  <1> USE ParserAssumption
  <1>1. PICK n \in 1 .. MaxChunk : Stream(n)
    BY DEF ParserNext
  <1> DEFINE b == Appended(n)
             w == After(wp, n)
             a == Waiting + n
  <1>2. /\ n \in 1 .. FrameLen /\ Waiting \in 0 .. FrameLen - 1
        /\ Handled \in Nat /\ received = Handled + Waiting /\ Len(handled) \in Nat
    <2>1. Len(handled) \in Nat
      BY DEF RingInv, ParserTypeOK
    <2>2. Handled \in Nat
      BY <2>1 DEF Handled
    <2> QED BY <2>1, <2>2 DEF RingInv, ParserTypeOK, InStep, Waiting
  <1>3. b \in [RingSlots -> Nat] /\ w \in RingSlots
    BY <1>2 DEF RingInv, ParserTypeOK, Appended, After, RingSlots
  \* Nothing that waited is overwritten, and the new bytes follow it.
  <1>4. Available(rp, w) = a
    BY <1>2 DEF RingInv, ParserTypeOK, InStep, Available, After, RingSlots
  <1>5. ASSUME NEW x \in 0 .. a - 1 PROVE b[After(rp, x)] = Handled + x
    <2>1. /\ After(rp, x) \in RingSlots
          /\ wp = After(rp, Waiting)
      BY <1>2 DEF RingInv, ParserTypeOK, InStep, Available, After, RingSlots
    <2>2. CASE x < Waiting
      <3>1. b[After(rp, x)] = buf[After(rp, x)]
        BY <1>2, <2>1, <2>2, SMTT(60) DEF Appended, After, RingSlots, RingInv, ParserTypeOK
      <3> QED BY <3>1, <2>2, <1>2 DEF RingInv, InStep
    <2>3. CASE x >= Waiting
      <3> DEFINE s == After(rp, x)
                 behind == IF s >= wp THEN s - wp ELSE s + RingSize - wp
      <3>1. behind = x - Waiting
        BY <1>2, <2>1, <2>3, SMTT(60) DEF After, RingSlots, RingInv, ParserTypeOK
      <3>2. b[s] = IF behind < n THEN received + behind ELSE buf[s]
        BY <2>1 DEF Appended
      <3>3. b[s] = received + (x - Waiting)
        BY <1>2, <2>3, <3>1, <3>2
      <3> QED BY <3>3, <1>2
    <2> QED BY <2>2, <2>3, <1>2
  <1>6. Parse(b, rp, w) /\ buf' = b /\ wp' = w /\ received' = received + n
    BY <1>1 DEF Stream
  <1>7. CASE a < FrameLen
    <2>1. rp' = rp /\ handled' = handled
      BY <1>4, <1>6, <1>7, <1>2 DEF Parse, Enough
    <2>2. Handled' = Handled /\ Waiting' = a
      BY <1>2, <1>6, <2>1 DEF Handled, Waiting
    <2>3. ParserTypeOK'
      BY <1>2, <1>3, <1>6, <2>1 DEF RingInv, ParserTypeOK
    <2>4. InStep'
      <3>1. Available(rp, wp)' = a
        BY <1>4, <1>6, <2>1 DEF Available
      <3>2. \A x \in 0 .. a - 1 : buf'[After(rp, x)'] = Handled + x
        BY <1>5, <1>6, <2>1 DEF After
      <3> QED BY <1>2, <1>7, <2>2, <3>1, <3>2 DEF InStep
    <2> QED BY <2>1, <2>3, <2>4 DEF RingInv, InOrder
  <1>8. CASE a >= FrameLen
    \* The first byte is a delimiter: nothing is skipped.
    <2>1. After(rp, 0) = rp /\ b[rp] = Handled
      <3>1. After(rp, 0) = rp
        BY DEF After, RingInv, ParserTypeOK, RingSlots
      <3> QED BY <3>1, <1>5, <1>8, <1>2
    <2>2. Handled % FrameLen = 0 /\ Handled \div FrameLen = Len(handled)
      <3>1. Handled = FrameLen * Len(handled) + 0
        BY <1>2 DEF Handled
      <3>2. 0 \in 0 .. FrameLen - 1 /\ FrameLen \in Nat /\ FrameLen >= 2
        OBVIOUS
      <3> QED BY <1>2, <3>1, <3>2, FrameArithmetic
    <2>3. Skipped(b, rp, w) = 0
      <3> DEFINE found == {x \in 0 .. a - 1 : IsDelimiter(b, After(rp, x))}
      <3>1. 0 \in found
        <4>1. IsDelimiter(b, After(rp, 0))
          BY <2>1, <2>2 DEF IsDelimiter
        <4>2. 0 \in 0 .. a - 1
          BY <1>2, <1>8
        <4> QED BY <4>1, <4>2
      <3>2. \A x \in found : (\A m \in found : x <= m) => x = 0
        BY <3>1
      <3>3. \A m \in found : 0 <= m
        OBVIOUS
      <3>4. (CHOOSE x \in found : \A m \in found : x <= m) = 0
        BY <3>1, <3>2, <3>3
      <3>5. Skipped(b, rp, w) = (CHOOSE x \in found : \A m \in found : x <= m)
        BY <3>1, <1>4 DEF Skipped
      <3> QED BY <3>4, <3>5
    <2>4. IsFrame(b, rp)
      BY <1>2, <1>5, <1>8, <2>1 DEF IsFrame
    <2>5. rp' = After(rp, FrameLen) /\ handled' = Append(handled, Len(handled))
      BY <1>2, <1>4, <1>6, <1>8, <2>1, <2>2, <2>3, <2>4 DEF Parse, Enough
    <2>6. /\ Len(handled') = Len(handled) + 1 /\ handled' \in Seq(Nat)
          /\ \A x \in 1 .. Len(handled) : handled'[x] = handled[x]
          /\ handled'[Len(handled) + 1] = Len(handled)
      BY <1>2, <2>5 DEF RingInv, ParserTypeOK
    <2>7. Handled' = Handled + FrameLen /\ Waiting' = a - FrameLen
      <3>1. Handled' = Handled + FrameLen
        BY <1>2, <2>6 DEF Handled
      <3> QED BY <3>1, <1>2, <1>6 DEF Waiting
    <2>8. ParserTypeOK'
      <3>1. rp' \in RingSlots
        BY <2>5 DEF RingInv, ParserTypeOK, After, RingSlots
      <3> QED BY <3>1, <1>2, <1>3, <1>6, <2>6 DEF RingInv, ParserTypeOK
    <2>9. InStep'
      <3>1. Available(rp, wp)' = a - FrameLen
        BY <1>2, <1>3, <1>4, <1>6, <1>8, <2>5, SMTT(60) DEF Available, After, RingSlots, RingInv, ParserTypeOK
      <3>2. ASSUME NEW x \in 0 .. a - FrameLen - 1
            PROVE  buf'[After(rp, x)'] = Handled + FrameLen + x
        <4>1. After(rp, x)' = After(rp, FrameLen + x)
          BY <1>2, <2>5, SMTT(60) DEF After, RingSlots, RingInv, ParserTypeOK
        <4>2. FrameLen + x \in 0 .. a - 1
          BY <1>2
        <4> QED BY <4>1, <4>2, <1>5, <1>6, <1>2
      <3> QED BY <1>2, <1>8, <2>7, <3>1, <3>2 DEF InStep
    <2>10. InOrder'
      <3>1. DOMAIN handled' = 1 .. Len(handled')
        BY <2>6
      <3>2. \A x \in 1 .. Len(handled') : handled'[x] = x - 1
        BY <1>2, <2>6 DEF RingInv, InOrder
      <3>3. handled' = [x \in DOMAIN handled' |-> handled'[x]]
        BY <2>6
      <3> QED BY <3>1, <3>2, <3>3 DEF InOrder
    <2> QED BY <2>8, <2>9, <2>10 DEF RingInv
  <1> QED BY <1>2, <1>7, <1>8

(* For a ring that holds more than two frames and reads of up to one: each *)
(* frame is handled by the call that brought its last byte, once and in    *)
(* the order sent.                                                         *)
THEOREM FramesAreHandledOnce == ParserSpec => []EveryFrameOnce
  <1>1. RingInv => EveryFrameOnce
    <2> SUFFICES ASSUME RingInv PROVE EveryFrameOnce
      OBVIOUS
    <2>1. Len(handled) \in Nat /\ Waiting \in 0 .. FrameLen - 1 /\ received \in Nat
      BY DEF RingInv, ParserTypeOK, InStep
    <2>2. received = FrameLen * Len(handled) + Waiting
      BY <2>1, ParserAssumption DEF Waiting, Handled
    <2>3. received \div FrameLen = Len(handled)
      BY <2>1, <2>2, FrameArithmetic, ParserAssumption
    <2> QED BY <2>3 DEF RingInv, InOrder, EveryFrameOnce
  <1> QED BY InitRing, StepRing, <1>1, PTL DEF ParserSpec

-----------------------------------------------------------------------------
(* Envelope                                                                *)

EnvelopeInv ==
    /\ A \in 0 .. TOP /\ D \in 0 .. TOP /\ S \in 0 .. TOP /\ R \in 0 .. TOP
    /\ IndexInTable
    /\ count \in Nat

\* A fraction of which the numerator is within bounds is.
LEMMA Quotient ==
    ASSUME NEW n \in Nat, NEW d \in Nat \ {0}, NEW top \in Nat, n <= top * d
    PROVE  n \div d \in 0 .. top
  BY Z3

\* Each of the volume's three formulas ends in the table.
LEMMA VolumeInTable ==
    ASSUME EnvelopeInv
    PROVE  /\ count <= A => Attack \in 0 .. TOP
           /\ A < count /\ count <= A + D => Decay \in 0 .. TOP
           /\ Fallen \in 0 .. TOP
  <1>1. TOP \in Nat /\ A \in Nat /\ D \in Nat /\ S \in 0 .. TOP /\ R \in Nat /\ vVal \in 0 .. TOP /\ count \in Nat
    BY EnvelopeAssumption DEF EnvelopeInv, IndexInTable
  <1>2. ASSUME count <= A PROVE Attack \in 0 .. TOP
    <2>1. (count + 1) * TOP \in Nat /\ (count + 1) * TOP <= TOP * (A + 1)
      BY <1>1, <1>2, Z3
    <2> QED BY <1>1, <2>1, Quotient DEF Attack
  <1>3. ASSUME A < count, count <= A + D PROVE Decay \in 0 .. TOP
    <2>1. count - A \in 0 .. D + 1 /\ TOP - S \in 0 .. TOP
      BY <1>1, <1>3
    <2>2. /\ (count - A) * (TOP - S) >= 0
          /\ (count - A) * (TOP - S) <= (D + 1) * TOP
      BY <1>1, <2>1, Z3
    <2>3. /\ TOP * (D + 1) - (count - A) * (TOP - S) \in Nat
          /\ TOP * (D + 1) - (count - A) * (TOP - S) <= TOP * (D + 1)
      BY <1>1, <2>1, <2>2, Z3
    <2> QED BY <1>1, <2>3, Quotient DEF Decay
  <1>4. Fallen \in 0 .. TOP
    <2>1. CASE vVal * (R + 1) <= S
      BY <1>1, <2>1 DEF Fallen
    <2>2. CASE ~(vVal * (R + 1) <= S)
      <3>1. vVal * (R + 1) - S \in Nat /\ vVal * (R + 1) - S <= TOP * (R + 1)
        BY <1>1, <2>2, Z3
      <3> QED BY <1>1, <2>2, <3>1, Quotient DEF Fallen
    <2> QED BY <2>1, <2>2
  <1> QED BY <1>2, <1>3, <1>4

LEMMA EnvelopeBegins == EnvelopeInit => EnvelopeInv
  <1>1. {0, FirstDecay, FirstLevel, FirstRelease} \subseteq 0 .. TOP
    BY EnvelopeAssumption
  <1>2. 0 \in Nat
    OBVIOUS
  <1> QED BY <1>1, <1>2, Zenon DEF EnvelopeInit, EnvelopeInv, IndexInTable

LEMMA EnvelopeKeeps == ASSUME EnvelopeInv, [EnvelopeNext]_envelopeVars PROVE EnvelopeInv'
  <1>1. CASE EnvelopePacket
    <2>1. vVal' \in {vVal, Risen, Fallen} /\ UNCHANGED settings
      BY <1>1 DEF EnvelopePacket
    <2>2. count' \in Nat
      BY <1>1 DEF EnvelopePacket, EnvelopeInv
    <2>3. Risen \in 0 .. TOP
      BY VolumeInTable DEF Risen, EnvelopeInv
    <2> QED BY <2>1, <2>2, <2>3, VolumeInTable DEF settings, EnvelopeInv, IndexInTable
  <1>2. CASE EnvelopeData
    BY <1>2, EnvelopeAssumption
       DEF EnvelopeData, NoteOff, NoteOn, SetDecay, SetLevel, SetRelease, settings, EnvelopeInv, IndexInTable
  <1>3. CASE UNCHANGED envelopeVars
    BY <1>3 DEF envelopeVars, settings, EnvelopeInv, IndexInTable
  <1> QED BY <1>1, <1>2, <1>3 DEF EnvelopeNext

(* Whatever is changed in the middle of an attack, a decay or a release,   *)
(* the volume's index stays in a table of any length.                      *)
THEOREM EnvelopeInTable == EnvelopeSpec => []IndexInTable
  <1>1. EnvelopeInv => IndexInTable
    BY DEF EnvelopeInv
  <1> QED BY EnvelopeBegins, EnvelopeKeeps, <1>1, PTL DEF EnvelopeSpec

-----------------------------------------------------------------------------
(* AudioSource                                                             *)

\* The parts of a sound behind the last pair of samples
End == (sound - 1) * PARTS

\* The float of the length starts no sound over before its first sample.
Rounds == AsFloat(sound) <= sound

PlaybackInv ==
    /\ sound \in SoundLengths \cup {0} /\ location \in Int /\ rate \in Rates
    /\ left \in Nat
    /\ sound = 0 => ~isPlaying /\ left = 0 /\ location = 0 /\ readAt = 0
    /\ sound # 0 => location < End
    /\ sound # 0 /\ Rounds => location >= 0 /\ readAt \in 0 .. sound - 2

\* What lies before n whole samples lies in one of the first n.
LEMMA WholePart ==
    ASSUME NEW l \in Nat, NEW n \in Nat, NEW p \in Nat \ {0}, l < n * p
    PROVE  l \div p \in 0 .. n - 1
  BY Z3

LEMMA FloatIsNat == ASSUME NEW n \in SoundLengths PROVE AsFloat(n) \in Nat
  <1>1. PICK d \in Spacings : n <= EXACT * d
    BY PlaybackAssumption
  <1>. DEFINE Fits == {e \in Spacings : n <= EXACT * e}
  <1>2. Fits \subseteq Nat /\ Fits # {}
    BY <1>1, PlaybackAssumption
  <1>3. \E d0 \in Fits : \A e \in Fits : d0 <= e
    <2>. HIDE DEF Fits
    <2> QED BY <1>2, Least
  <1>4. Spacing(n) \in Nat \ {0}
    BY <1>3, PlaybackAssumption DEF Spacing
  <1> QED BY <1>4, PlaybackAssumption, Z3 DEF AsFloat

LEMMA RenderKeeps == ASSUME PlaybackInv, Render PROVE PlaybackInv'
  <1>1. /\ left > 0 /\ sound # 0 /\ UNCHANGED <<sound, rate>> /\ readAt' \in IndexOf(location)
    BY DEF Render, PlaybackInv
  <1>2. /\ sound \in SoundLengths /\ sound \in Nat /\ sound > 2 /\ rate \in Nat
        /\ PARTS \in Nat \ {0} /\ location \in Int /\ location < End /\ left \in Nat
    BY <1>1, PlaybackAssumption DEF PlaybackInv
  <1>3. End \in Nat /\ AsFloat(sound) \in Nat /\ rate <= (AsFloat(sound) - 1) * PARTS
    <2>1. End \in Nat
      BY <1>2, Z3 DEF End
    <2> QED BY <1>2, <2>1, FloatIsNat, RatesAssumption DEF PlaybackInv
  <1>4. Rounds => readAt' \in 0 .. sound - 2
    <2>1. SUFFICES ASSUME Rounds PROVE readAt' \in 0 .. sound - 2
      OBVIOUS
    <2>2. location \in Nat
      BY <1>1, <1>2, <2>1 DEF PlaybackInv
    <2>3. location \div PARTS \in 0 .. (sound - 1) - 1
      BY <1>2, <2>2, WholePart DEF End
    <2> QED BY <1>1, <1>2, <2>2, <2>3 DEF IndexOf
  <1>5. left' \in {left - 1, 0}
    BY DEF Render
  <1>6. location' \in Int /\ location' < End /\ (Rounds => location' >= 0)
    <2>1. CASE ~AtEnd(location + rate)
      BY <1>1, <1>2, <1>3, <2>1 DEF Render, AtEnd, End, PlaybackInv
    <2>2. CASE AtEnd(location + rate)
      <3>1. location + rate >= End /\ location' \in {Wrapped(location + rate), 0} /\ End > 0
        <4>1. End > 0
          BY <1>2, Z3 DEF End
        <4> QED BY <2>2, <4>1 DEF Render, AtEnd, End
      <3>. DEFINE Rest == (AsFloat(sound) - 1) * PARTS
      <3>2. Rest \in Int /\ Wrapped(location + rate) = location + rate - Rest /\ (Rounds => Rest <= End)
        BY <1>2, <1>3, Z3 DEF Wrapped, End, Rounds
      <3>3. rate <= Rest
        BY <1>3
      <3>. HIDE DEF Rest
      <3> QED BY <1>2, <1>3, <3>1, <3>2, <3>3
    <2> QED BY <2>1, <2>2
  <1>7. left' \in Nat /\ End' = End /\ Rounds' = Rounds
    BY <1>1, <1>2, <1>5 DEF End, Rounds, AsFloat, Spacing
  <1> QED BY <1>1, <1>4, <1>6, <1>7 DEF PlaybackInv

LEMMA PlaybackBegins == PlaybackInit => PlaybackInv
  BY PlaybackAssumption DEF PlaybackInit, initAudioInfo, PlaybackInv

LEMMA PlaybackKeeps == ASSUME PlaybackInv, [PlaybackNext]_playbackVars PROVE PlaybackInv'
  <1>1. CASE PlaybackPacket
    BY <1>1, PlaybackAssumption DEF PlaybackPacket, PlaybackInv, End, Rounds, AsFloat, Spacing
  <1>2. CASE PlaybackData
    <2>1. /\ sound # 0 /\ sound' = sound /\ UNCHANGED <<left, readAt>>
          /\ location' \in {location, 0} /\ rate' \in Rates
      BY <1>2, PlaybackAssumption
         DEF PlaybackData, PlaybackData1, PlaybackData2, PlaybackData3, StopSound, PlaybackInv
    <2>2. End' = End /\ Rounds' = Rounds
      BY <2>1 DEF End, Rounds, AsFloat, Spacing
    <2>3. End \in Int /\ End > 0
      BY <2>1, PlaybackAssumption, Z3 DEF End, PlaybackInv
    <2> QED BY <2>1, <2>2, <2>3 DEF PlaybackInv
  <1>3. ASSUME NEW n \in SoundLengths, prepareAudioSource(n) PROVE PlaybackInv'
    <2>1. n \in Nat /\ n > 2 /\ PARTS \in Nat \ {0}
      BY PlaybackAssumption
    <2>2. (n - 1) * PARTS > 0
      BY <2>1, Z3
    <2> QED BY <1>3, <2>1, <2>2 DEF prepareAudioSource, PlaybackInv, End, Rounds
  <1>4. CASE UNCHANGED playbackVars
    BY <1>4 DEF playbackVars, PlaybackInv, End, Rounds, AsFloat, Spacing
  <1> QED BY <1>1, <1>2, <1>3, <1>4, RenderKeeps DEF PlaybackNext

(* At any rate, however a sound is started over or sped up, both samples   *)
(* that a step reads are in the sound.                                     *)
THEOREM PlaybackInSound == PlaybackSpec => []ReadsInsideSound
  <1>1. PlaybackInv => ReadsInsideSound
    BY DEF PlaybackInv, ReadsInsideSound, Rounds
  <1> QED BY PlaybackBegins, PlaybackKeeps, <1>1, PTL DEF PlaybackSpec

(* Together, in any order of their packets and settings with the steps of  *)
(* the other parts: no index of theirs leaves its table.                   *)
THEOREM IndicesStay == PartsSpec => []IndicesInBounds
  <1>1. PartsInit => EnvelopeInv /\ PlaybackInv
    BY EnvelopeBegins, PlaybackBegins DEF PartsInit
  <1>2. [PartsNext]_partsVars => [EnvelopeNext]_envelopeVars /\ [PlaybackNext]_playbackVars
    BY DEF PartsNext, partsVars, TableAlone, EnvelopeAlone, PlaybackAlone, TilesAlone, TimerAlone,
           SerialAlone, ServerAlone, ParserAlone
  <1>3. EnvelopeInv /\ [EnvelopeNext]_envelopeVars => EnvelopeInv'
    BY EnvelopeKeeps
  <1>4. PlaybackInv /\ [PlaybackNext]_playbackVars => PlaybackInv'
    BY PlaybackKeeps
  <1>5. EnvelopeInv /\ PlaybackInv => IndicesInBounds
    BY DEF EnvelopeInv, PlaybackInv, ReadsInsideSound, Rounds, IndicesInBounds
  <1> QED BY <1>1, <1>2, <1>3, <1>4, <1>5, PTL DEF PartsSpec

-----------------------------------------------------------------------------
(***************************************************************************)
(* The server: the queue is sorted and what is called next precedes all    *)
(* that can still come.                                                    *)
(***************************************************************************)

Elements == [ts : Nat, of : Nat, k : Nat]

Sorted(q) ==
    \A n, m \in DOMAIN q : n < m =>
        /\ q[n].ts <= q[m].ts
        /\ q[n].ts = q[m].ts => q[n].of <= q[m].of
        /\ q[n].of = q[m].of => q[n].k < q[m].k

\* An element that is as new as any of its bundle and of those of its time.
Newest(q, e) == \A n \in DOMAIN q : q[n].of <= e.of /\ (q[n].of = e.of => q[n].ts = e.ts /\ q[n].k < e.k)

\* queue_data keeps the queue sorted.
LEMMA InsertedSorted ==
    ASSUME NEW q \in Seq(Elements), NEW e \in Elements, Sorted(q), Newest(q, e)
    PROVE  /\ Inserted(q, e) \in Seq(Elements) /\ Sorted(Inserted(q, e))
           /\ \A n \in DOMAIN Inserted(q, e) :
                  Inserted(q, e)[n] = e \/ \E m \in DOMAIN q : Inserted(q, e)[n] = q[m]
  <1> DEFINE place == IF Place(q, e) = {} THEN Len(q) + 1
                      ELSE CHOOSE n \in Place(q, e) : \A x \in Place(q, e) : n <= x
             q1 == SubSeq(q, 1, place - 1)
             q2 == SubSeq(q, place, Len(q))
             r == q1 \o <<e>> \o q2
  <1>1. Len(q) \in Nat /\ DOMAIN q = 1 .. Len(q) /\ \A n \in 1 .. Len(q) : q[n] \in Elements
    BY LenProperties, ElementOfSeq
  <1>2. /\ place \in 1 .. Len(q) + 1
        /\ \A n \in 1 .. place - 1 : q[n].ts <= e.ts
        /\ \A n \in place .. Len(q) : q[n].ts > e.ts
    <2>1. CASE Place(q, e) = {}
      <3>1. place = Len(q) + 1
        BY <2>1
      <3>2. \A n \in 1 .. Len(q) : ~(q[n].ts > e.ts)
        BY <1>1, <2>1 DEF Place
      <3> HIDE DEF place
      <3> QED BY <1>1, <3>1, <3>2 DEF Elements
    <2>2. CASE Place(q, e) # {}
      <3>1. Place(q, e) \in SUBSET Nat
        BY <1>1 DEF Place
      <3>2. place \in Place(q, e) /\ \A x \in Place(q, e) : place <= x
        BY <2>2, <3>1, Least
      <3> HIDE DEF place
      <3>3. place \in 1 .. Len(q) /\ q[place].ts > e.ts
        BY <1>1, <3>2 DEF Place
      <3>4. ASSUME NEW n \in 1 .. place - 1 PROVE q[n].ts <= e.ts
        <4>1. n \in 1 .. Len(q) /\ n \notin Place(q, e)
          BY <3>2, <3>3
        <4> QED BY <1>1, <4>1 DEF Place, Elements
      <3>5. ASSUME NEW n \in place .. Len(q) PROVE q[n].ts > e.ts
        <4>1. n = place \/ q[place].ts <= q[n].ts
          BY <1>1, <3>3 DEF Sorted
        <4>2. q[place] \in Elements /\ q[n] \in Elements
          BY <1>1, <3>3
        <4>3. q[place].ts \in Nat /\ q[n].ts \in Nat /\ e.ts \in Nat
          BY <4>2 DEF Elements
        <4> QED BY <3>3, <4>1, <4>3
      <3> QED BY <3>3, <3>4, <3>5
    <2> QED BY <2>1, <2>2
  <1>3. Inserted(q, e) = r
    BY DEF Inserted
  <1> HIDE DEF place
  <1>4. /\ q1 \in Seq(Elements) /\ Len(q1) = place - 1
        /\ \A n \in 1 .. place - 1 : q1[n] = q[n]
    <2>1. \A n \in 1 .. place - 1 : q[n] \in Elements
      BY <1>1, <1>2
    <2>2. /\ SubSeq(q, 1, place - 1) \in Seq(Elements)
          /\ Len(SubSeq(q, 1, place - 1)) = IF 1 <= place - 1 THEN place - 1 - 1 + 1 ELSE 0
          /\ \A n \in 1 .. place - 1 - 1 + 1 : SubSeq(q, 1, place - 1)[n] = q[1 + n - 1]
      BY <1>2, <2>1, SubSeqProperties
    <2> QED BY <1>2, <2>2
  <1>5. /\ q2 \in Seq(Elements) /\ Len(q2) = Len(q) + 1 - place
        /\ \A n \in 1 .. Len(q) + 1 - place : q2[n] = q[place + n - 1]
    <2>1. \A n \in place .. Len(q) : q[n] \in Elements
      BY <1>1, <1>2
    <2>2. /\ SubSeq(q, place, Len(q)) \in Seq(Elements)
          /\ Len(SubSeq(q, place, Len(q))) = IF place <= Len(q) THEN Len(q) - place + 1 ELSE 0
          /\ \A n \in 1 .. Len(q) - place + 1 : SubSeq(q, place, Len(q))[n] = q[place + n - 1]
      BY <1>1, <1>2, <2>1, SubSeqProperties
    <2> QED BY <1>1, <1>2, <2>2
  <1> HIDE DEF q1, q2
  <1>6. /\ r \in Seq(Elements) /\ DOMAIN r = 1 .. Len(q) + 1
        /\ \A n \in 1 .. Len(q) + 1 :
               r[n] = IF n < place THEN q[n] ELSE IF n = place THEN e ELSE q[n - 1]
    <2> DEFINE q3 == q1 \o <<e>>
    <2>1. <<e>> \in Seq(Elements) /\ Len(<<e>>) = 1 /\ <<e>>[1] = e
      OBVIOUS
    <2>2. /\ q3 \in Seq(Elements) /\ Len(q3) = place
          /\ \A n \in 1 .. place : q3[n] = IF n < place THEN q[n] ELSE e
      <3>1. /\ q3 \in Seq(Elements) /\ Len(q3) = place - 1 + 1
            /\ \A n \in 1 .. place - 1 + 1 : q3[n] = IF n <= place - 1 THEN q1[n] ELSE <<e>>[n - (place - 1)]
        BY <1>4, <2>1, ConcatProperties
      <3> HIDE DEF q3
      <3> QED BY <1>2, <1>4, <3>1
    <2> HIDE DEF q3
    <2>3. r = q3 \o q2
      BY DEF q3
    <2> HIDE DEF r
    <2>4. /\ r \in Seq(Elements) /\ Len(r) = place + (Len(q) + 1 - place)
          /\ \A n \in 1 .. place + (Len(q) + 1 - place) : r[n] = IF n <= place THEN q3[n] ELSE q2[n - place]
      <3>1. /\ q3 \o q2 \in Seq(Elements) /\ Len(q3 \o q2) = Len(q3) + Len(q2)
            /\ \A n \in 1 .. Len(q3) + Len(q2) :
                   (q3 \o q2)[n] = IF n <= Len(q3) THEN q3[n] ELSE q2[n - Len(q3)]
        BY <1>5, <2>2, ConcatProperties
      <3> QED BY <1>5, <2>2, <2>3, <3>1
    <2>5. Len(r) = Len(q) + 1 /\ DOMAIN r = 1 .. Len(q) + 1
      BY <1>1, <1>2, <2>4, LenProperties
    <2>6. ASSUME NEW n \in 1 .. Len(q) + 1, n > place PROVE r[n] = q[n - 1]
      <3>1. n - place \in 1 .. Len(q) + 1 - place /\ place + (n - place) - 1 = n - 1
        BY <1>1, <1>2, <2>6
      <3>2. PICK idx \in 1 .. Len(q) + 1 - place : idx = n - place
        BY <3>1
      <3>3. r[n] = q2[idx]
        <4>1. n \in 1 .. place + (Len(q) + 1 - place) /\ ~(n <= place)
          BY <1>1, <1>2, <2>6
        <4> QED BY <2>4, <3>2, <4>1
      <3>4. place + idx - 1 = n - 1
        BY <3>1, <3>2
      <3>5. q2[idx] = q[place + idx - 1]
        BY <1>5
      <3> QED BY <3>3, <3>4, <3>5
    <2>7. ASSUME NEW n \in 1 .. Len(q) + 1, n <= place PROVE r[n] = q3[n]
      BY <1>1, <1>2, <2>4, <2>7
    <2> QED BY <1>1, <1>2, <2>2, <2>4, <2>5, <2>6, <2>7
  <1> HIDE DEF r
  <1>7. Sorted(r)
    <2> SUFFICES ASSUME NEW n \in 1 .. Len(q) + 1, NEW m \in 1 .. Len(q) + 1, n < m
                 PROVE  /\ r[n].ts <= r[m].ts
                        /\ r[n].ts = r[m].ts => r[n].of <= r[m].of
                        /\ r[n].of = r[m].of => r[n].k < r[m].k
      BY <1>6 DEF Sorted
    <2>1. CASE m < place
      <3>1. n \in DOMAIN q /\ m \in DOMAIN q /\ r[n] = q[n] /\ r[m] = q[m]
        BY <1>1, <1>2, <1>6, <2>1
      <3> QED BY <3>1 DEF Sorted
    <2>2. CASE m = place
      <3>1. n \in 1 .. place - 1 /\ n \in DOMAIN q /\ r[n] = q[n] /\ r[m] = e
        BY <1>1, <1>2, <1>6, <2>2
      <3> QED BY <1>2, <3>1 DEF Newest
    <2>3. CASE m > place /\ n = place
      <3>1. m - 1 \in place .. Len(q) /\ m - 1 \in DOMAIN q /\ r[n] = e /\ r[m] = q[m - 1]
        BY <1>1, <1>2, <1>6, <2>3
      <3>2. q[m - 1].ts > e.ts /\ q[m - 1].ts \in Nat /\ e.ts \in Nat
        BY <1>1, <1>2, <3>1 DEF Elements
      <3>3. q[m - 1].of # e.of
        BY <3>1, <3>2 DEF Newest
      <3> QED BY <3>1, <3>2, <3>3
    <2>4. CASE m > place /\ n < place
      <3>1. n \in DOMAIN q /\ m - 1 \in DOMAIN q /\ n < m - 1 /\ r[n] = q[n] /\ r[m] = q[m - 1]
        BY <1>1, <1>2, <1>6, <2>4
      <3> QED BY <3>1 DEF Sorted
    <2>5. CASE m > place /\ n > place
      <3>1. n - 1 \in DOMAIN q /\ m - 1 \in DOMAIN q /\ n - 1 < m - 1 /\ r[n] = q[n - 1] /\ r[m] = q[m - 1]
        BY <1>1, <1>2, <1>6, <2>5
      <3> QED BY <3>1 DEF Sorted
    <2> QED BY <1>2, <2>1, <2>2, <2>3, <2>4, <2>5
  <1>8. \A n \in DOMAIN r : r[n] = e \/ \E m \in DOMAIN q : r[n] = q[m]
    <2> SUFFICES ASSUME NEW n \in 1 .. Len(q) + 1 PROVE r[n] = e \/ \E m \in DOMAIN q : r[n] = q[m]
      BY <1>6
    <2>1. CASE n < place
      BY <1>1, <1>2, <1>6, <2>1
    <2>2. CASE n = place
      BY <1>1, <1>2, <1>6, <2>2
    <2>3. CASE n > place
      <3>1. n - 1 \in DOMAIN q /\ r[n] = q[n - 1]
        BY <1>1, <1>2, <1>6, <2>3
      <3> QED BY <3>1
    <2> QED BY <1>2, <2>1, <2>2, <2>3
  <1> QED BY <1>3, <1>6, <1>7, <1>8
\* What is asked of the elements that come after those of a queue, in order.
NewAfter(q, es) ==
    /\ \A n \in DOMAIN q, m \in DOMAIN es : q[n].of < es[m].of
    /\ \A n, m \in DOMAIN es : n < m => es[n].of = es[m].of /\ es[n].ts = es[m].ts /\ es[n].k < es[m].k

LEMMA QueueAllSorted ==
    ASSUME NEW q \in Seq(Elements), NEW es \in Seq(Elements), Sorted(q), NewAfter(q, es)
    PROVE  /\ QueueAll(q, es) \in Seq(Elements) /\ Sorted(QueueAll(q, es))
           /\ \A n \in DOMAIN QueueAll(q, es) :
                  \/ \E m \in DOMAIN q : QueueAll(q, es)[n] = q[m]
                  \/ \E m \in DOMAIN es : QueueAll(q, es)[n] = es[m]
  <1> DEFINE N == Len(es)
             step == [p \in Seq(Elements) \X (1 .. N) |->
                          IF Inserted(p[1], es[p[2]]) \in Seq(Elements)
                          THEN Inserted(p[1], es[p[2]]) ELSE q]
             From(r, m) == \A n \in DOMAIN r : \/ \E x \in DOMAIN q : r[n] = q[x]
                                               \/ \E x \in 1 .. m : r[n] = es[x]
  <1>1. N \in Nat /\ DOMAIN es = 1 .. N /\ (\A n \in 1 .. N : es[n] \in Elements) /\ DOMAIN q = 1 .. Len(q)
    BY LenProperties, ElementOfSeq
  <1>2. step \in Steps(Seq(Elements), N)
    BY DEF Steps
  <1>3. \A r \in Seq(Elements), n \in 1 .. N :
            Inserted(r, es[n]) \in Seq(Elements) => step[<<r, n>>] = Inserted(r, es[n])
    OBVIOUS
  <1> HIDE DEF step, N
  <1>4. PICK F : F \in [0 .. N -> Seq(Elements)] /\ F[0] = q /\ \A n \in 1 .. N : F[n] = step[<<F[n - 1], n>>]
    <2>1. \E f : IsRun(f, Seq(Elements), N, q, step)
      BY <1>1, <1>2, Iterate
    <2> QED BY <2>1 DEF IsRun
  <1> DEFINE G == {n \in 0 .. N : /\ Sorted(F[n]) /\ From(F[n], n)
                                  /\ n # 0 => F[n] = Inserted(F[n - 1], es[n])}
  <1>5. 0 \in G
    <2>1. F[0] = q /\ 0 \in 0 .. N
      BY <1>1, <1>4
    <2>2. From(F[0], 0)
      BY <2>1
    <2>3. Sorted(F[0])
      BY <2>1
    <2> QED BY <2>1, <2>2, <2>3
  <1>6. ASSUME NEW n \in 0 .. N - 1, n \in G PROVE n + 1 \in G
    <2> DEFINE r == F[n]  e == es[n + 1]
    <2>1. n + 1 \in 1 .. N /\ n + 1 \in 0 .. N /\ n \in 0 .. N /\ (n + 1) - 1 = n
      BY <1>1
    <2>2. r \in Seq(Elements) /\ e \in Elements /\ Sorted(r) /\ From(r, n)
      BY <1>1, <1>4, <1>6, <2>1
    <2> HIDE DEF r
    <2>3. Newest(r, e)
      <3> SUFFICES ASSUME NEW m \in DOMAIN r PROVE r[m].of <= e.of /\ (r[m].of = e.of => r[m].ts = e.ts /\ r[m].k < e.k)
        BY DEF Newest
      <3>1. CASE \E x \in DOMAIN q : r[m] = q[x]
        <4>1. PICK x \in DOMAIN q : r[m] = q[x]
          BY <3>1
        <4>2. q[x].of < e.of /\ q[x].of \in Nat /\ e.of \in Nat
          <5>1. q[x] \in Elements /\ n + 1 \in DOMAIN es
            BY <1>1, <2>1, ElementOfSeq
          <5> QED BY <2>2, <5>1 DEF NewAfter, Elements
        <4> QED BY <4>1, <4>2
      <3>2. CASE \E x \in 1 .. n : r[m] = es[x]
        <4>1. PICK x \in 1 .. n : r[m] = es[x]
          BY <3>2
        <4>2. x \in DOMAIN es /\ n + 1 \in DOMAIN es /\ x < n + 1
          BY <1>1, <2>1
        <4>3. es[x].of = e.of /\ es[x].ts = e.ts /\ es[x].k < e.k
          BY <4>2 DEF NewAfter
        <4>4. es[x].of \in Nat
          BY <1>1, <4>2 DEF Elements
        <4> QED BY <4>1, <4>3, <4>4
      <3> QED BY <2>2, <3>1, <3>2
    <2>4. /\ Inserted(r, e) \in Seq(Elements) /\ Sorted(Inserted(r, e))
          /\ \A m \in DOMAIN Inserted(r, e) : Inserted(r, e)[m] = e \/ \E x \in DOMAIN r : Inserted(r, e)[m] = r[x]
      BY <2>2, <2>3, InsertedSorted
    <2>5. F[n + 1] = Inserted(r, e)
      <3>1. PICK idx \in 1 .. N : idx = n + 1 /\ idx - 1 = n
        BY <2>1
      <3>2. F[idx] = step[<<F[idx - 1], idx>>] /\ F[idx - 1] = r /\ es[idx] = e
        BY <1>4, <3>1 DEF r
      <3>3. step[<<r, idx>>] = Inserted(r, es[idx])
        BY <1>3, <2>2, <2>4, <3>2
      <3> QED BY <3>1, <3>2, <3>3
    <2>6. From(Inserted(r, e), n + 1)
      <3> SUFFICES ASSUME NEW m \in DOMAIN Inserted(r, e)
                   PROVE  \/ \E x \in DOMAIN q : Inserted(r, e)[m] = q[x]
                          \/ \E x \in 1 .. n + 1 : Inserted(r, e)[m] = es[x]
        OBVIOUS
      <3>1. CASE Inserted(r, e)[m] = e
        BY <2>1, <3>1
      <3>2. CASE Inserted(r, e)[m] # e
        <4>1. PICK x \in DOMAIN r : Inserted(r, e)[m] = r[x]
          BY <2>4, <3>2
        <4>2. 1 .. n \subseteq 1 .. n + 1
          OBVIOUS
        <4> QED BY <2>2, <4>1, <4>2
      <3> QED BY <3>1, <3>2
    <2> QED BY <2>1, <2>4, <2>5, <2>6 DEF r
  <1>7. 0 .. N \subseteq G
    <2> HIDE DEF G
    <2> QED BY <1>1, <1>5, <1>6, Induct
  <1>8. \A n \in 1 .. N : F[n] = Inserted(F[n - 1], es[n])
    BY <1>7
  <1>9. QueueAll(q, es) = F[N]
    <2> DEFINE Q(f) == f = [n \in 0 .. N |-> IF n = 0 THEN q ELSE Inserted(f[n - 1], es[n])]
               ch == CHOOSE f : Q(f)
    <2>1. Q(F)
      BY <1>4, <1>8
    <2>2. Q(ch)
      BY <2>1
    <2>3. QueueAll(q, es) = ch[N]
      BY DEF QueueAll, N
    <2> DEFINE H == {n \in 0 .. N : ch[n] = F[n]}
    <2> HIDE DEF ch
    <2>4. \A n \in 0 .. N : ch[n] = IF n = 0 THEN q ELSE Inserted(ch[n - 1], es[n])
      BY <2>2
    <2>5. 0 \in H
      BY <1>1, <1>4, <2>4
    <2>6. ASSUME NEW n \in 0 .. N - 1, n \in H PROVE n + 1 \in H
      <3>1. n + 1 \in 1 .. N /\ n + 1 \in 0 .. N /\ n + 1 # 0 /\ (n + 1) - 1 = n
        BY <1>1
      <3> QED BY <1>8, <2>4, <2>6, <3>1
    <2>7. 0 .. N \subseteq H
      <3> HIDE DEF H
      <3> QED BY <1>1, <2>5, <2>6, Induct
    <2> QED BY <1>1, <2>3, <2>7
  <1>10. N \in G
    BY <1>1, <1>7
  <1>11. F[N] \in Seq(Elements) /\ Sorted(F[N]) /\ From(F[N], N)
    BY <1>1, <1>4, <1>10
  <1> QED BY <1>1, <1>9, <1>11
-----------------------------------------------------------------------------
(* The server's thread.                                                    *)

Datagrams == [ts : Nat, elements : Nat, invalid : Nat, number : Nat]
Calls == [e : Elements, at : Nat, waited : BOOLEAN]

OscServerTypeOK ==
    /\ clock \in Nat /\ arrived \in Nat /\ dispTime \in Nat
    /\ socket \in Seq(Datagrams) /\ \A n \in DOMAIN socket : socket[n].invalid <= socket[n].elements
    /\ queued \in Seq(Elements) /\ inHand \in Seq(Elements)
    /\ dispatched \in Seq(Calls)

\* Datagrams are numbered as they come: whatever has been read of them comes
\* from an earlier one than those that wait.
IsRead(e) ==
    \/ \E n \in DOMAIN queued : queued[n] = e
    \/ \E n \in DOMAIN inHand : inHand[n] = e
    \/ \E n \in DOMAIN dispatched : dispatched[n].e = e
Numbered ==
    /\ \A n \in DOMAIN socket : socket[n].number <= arrived
    /\ \A n, m \in DOMAIN socket : n < m => socket[n].number < socket[m].number
    /\ \A e \in Elements : IsRead(e) => e.of <= arrived /\ \A n \in DOMAIN socket : e.of < socket[n].number

\* The elements of the bundle in hand are due, follow those of it that have
\* been dispatched and are not in the queue.
HandInOrder ==
    /\ \A n, m \in DOMAIN inHand :
           inHand[n].of = inHand[m].of /\ (n < m => inHand[n].k < inHand[m].k)
    /\ \A n \in DOMAIN inHand :
           /\ inHand[n].ts <= clock
           /\ \A m \in DOMAIN queued : queued[m].of # inHand[n].of
           /\ \A m \in DOMAIN dispatched :
                  dispatched[m].e.of = inHand[n].of => dispatched[m].e.k < inHand[n].k

\* a may be dispatched before b, both having waited.
MayPrecede(a, b) ==
    \/ a.ts < b.ts \/ (b.ts < a.ts /\ a.ts < b.ts + EARLY)
    \/ a.ts = b.ts /\ a.of <= b.of

QueueInOrder ==
    /\ Sorted(queued)
    /\ \A m \in DOMAIN dispatched, n \in DOMAIN queued :
           /\ dispatched[m].e.of = queued[n].of => dispatched[m].e.k < queued[n].k
           /\ dispatched[m].waited => MayPrecede(dispatched[m].e, queued[n])

AtTheQueue ==
    /\ serverAt = "queue" => queued # <<>> /\ queued[1].ts = dispTime /\ dispTime <= clock + EARLY
    /\ serverAt = "read" => socket # <<>>

NoneEarly ==
    \A n \in DOMAIN dispatched : dispatched[n].at <= clock /\ dispatched[n].e.ts <= dispatched[n].at + EARLY

CallsInOrder ==
    \A n, m \in DOMAIN dispatched : n < m =>
        /\ dispatched[n].e.of = dispatched[m].e.of => dispatched[n].e.k < dispatched[m].e.k
        /\ dispatched[n].waited /\ dispatched[m].waited => MayPrecede(dispatched[n].e, dispatched[m].e)

OscServerInv ==
    /\ OscServerTypeOK /\ Numbered /\ HandInOrder /\ QueueInOrder
    /\ AtTheQueue /\ NoneEarly /\ CallsInOrder
LEMMA MembersType ==
    ASSUME OscServerTypeOK
    PROVE  /\ \A n \in DOMAIN socket : socket[n] \in Datagrams
           /\ \A n \in DOMAIN queued : queued[n] \in Elements
           /\ \A n \in DOMAIN inHand : inHand[n] \in Elements
           /\ \A n \in DOMAIN dispatched : dispatched[n] \in Calls
           /\ DOMAIN socket = 1 .. Len(socket) /\ DOMAIN queued = 1 .. Len(queued)
           /\ DOMAIN inHand = 1 .. Len(inHand) /\ DOMAIN dispatched = 1 .. Len(dispatched)
           /\ Len(socket) \in Nat /\ Len(queued) \in Nat /\ Len(inHand) \in Nat /\ Len(dispatched) \in Nat
  <1>1. /\ socket \in Seq(Datagrams) /\ queued \in Seq(Elements)
        /\ inHand \in Seq(Elements) /\ dispatched \in Seq(Calls)
    BY DEF OscServerTypeOK
  <1> QED BY <1>1, LenProperties, ElementOfSeq

LEMMA InitServer == OscServerInit => OscServerInv
  <1> SUFFICES ASSUME OscServerInit PROVE OscServerInv
    OBVIOUS
  <1>1. OscServerTypeOK
    BY DEF OscServerInit, OscServerTypeOK
  <1>2. Numbered /\ HandInOrder /\ QueueInOrder /\ AtTheQueue /\ NoneEarly /\ CallsInOrder
    BY DEF OscServerInit, Numbered, IsRead, HandInOrder, QueueInOrder, Sorted, AtTheQueue, NoneEarly, CallsInOrder
  <1> QED BY <1>1, <1>2 DEF OscServerInv

\* The elements of a datagram.
LEMMA ElementsType ==
    ASSUME NEW d \in Datagrams, d.invalid <= d.elements
    PROVE  /\ ElementsOf(d) \in Seq(Elements)
           /\ \A n \in DOMAIN ElementsOf(d) :
                  ElementsOf(d)[n].of = d.number /\ ElementsOf(d)[n].ts = d.ts /\ ElementsOf(d)[n].k = n
           /\ DOMAIN ElementsOf(d) \subseteq Nat
  <1>1. Valid(d) \in Nat
    BY DEF Valid, Datagrams
  <1>2. \A n \in 1 .. Valid(d) : [ts |-> d.ts, of |-> d.number, k |-> n] \in Elements
    BY <1>1 DEF Elements, Datagrams
  <1>3. ElementsOf(d) \in [1 .. Valid(d) -> Elements]
    BY <1>2 DEF ElementsOf
  <1>4. ElementsOf(d) \in Seq(Elements)
    BY <1>1, <1>3, SeqDef
  <1> QED BY <1>1, <1>3, <1>4 DEF ElementsOf

\* What the thread does besides calling handlers and reading.
LEMMA IdleKeeps ==
    ASSUME OscServerInv, Wait \/ Recv \/ Read \/ ServerThreadStart \/ ServerThreadStop \/ UNCHANGED oscServerVars
    PROVE  OscServerInv'
  <1>1. UNCHANGED <<clock, socket, arrived, queued, inHand, dispatched>>
    BY DEF Wait, Recv, Read, ServerThreadStart, ServerThreadStop, oscServerVars, timeVars, threadVars
  <1>2. OscServerTypeOK' /\ AtTheQueue'
    <2>1. CASE Recv
      <3>1. queued # <<>> => Len(queued) > 0 /\ queued[1] \in Elements
        BY EmptySeq, LenProperties, ElementOfSeq DEF OscServerInv, OscServerTypeOK
      <3> QED BY <1>1, <2>1, <3>1 DEF Recv, OscServerInv, OscServerTypeOK, AtTheQueue, Elements
    <2>2. CASE Wait \/ Read \/ ServerThreadStart \/ ServerThreadStop \/ UNCHANGED oscServerVars
      BY <1>1, <2>2 DEF Wait, Read, ServerThreadStart, ServerThreadStop, oscServerVars,
                        OscServerInv, OscServerTypeOK, AtTheQueue
    <2> QED BY <2>1, <2>2
  <1>3. Numbered' /\ HandInOrder' /\ QueueInOrder' /\ NoneEarly' /\ CallsInOrder'
    BY <1>1 DEF OscServerInv, Numbered, IsRead, HandInOrder, QueueInOrder, NoneEarly, CallsInOrder
  <1> QED BY <1>2, <1>3 DEF OscServerInv

LEMMA TickKeeps == ASSUME OscServerInv, Tick PROVE OscServerInv'
  <1>1. /\ clock' = clock + 1 /\ clock \in Nat /\ clock' \in Nat
        /\ UNCHANGED <<socket, arrived, queued, inHand, dispatched, serverAt, dispTime>>
    BY DEF Tick, OscServerInv, OscServerTypeOK
  <1>2. OscServerTypeOK'
    BY <1>1 DEF OscServerInv, OscServerTypeOK
  <1>3. HandInOrder'
    <2>1. \A n \in DOMAIN inHand : inHand[n].ts \in Nat
      BY MembersType DEF OscServerInv, Elements
    <2>2. \A n \in DOMAIN inHand : inHand[n].ts <= clock'
      BY <1>1, <2>1 DEF OscServerInv, HandInOrder
    <2> QED BY <1>1, <2>2 DEF OscServerInv, HandInOrder
  <1>4. AtTheQueue'
    BY <1>1, OscServerAssumption DEF OscServerInv, OscServerTypeOK, AtTheQueue
  <1>5. NoneEarly'
    <2>1. \A n \in DOMAIN dispatched : dispatched[n].at \in Nat
      BY MembersType DEF OscServerInv, Calls
    <2> QED BY <1>1, <2>1 DEF OscServerInv, NoneEarly
  <1>6. Numbered' /\ QueueInOrder' /\ CallsInOrder'
    BY <1>1 DEF OscServerInv, Numbered, IsRead, QueueInOrder, CallsInOrder
  <1> QED BY <1>2, <1>3, <1>4, <1>5, <1>6 DEF OscServerInv

LEMMA ArriveKeeps == ASSUME OscServerInv, NEW b \in Bundles, Arrive(b) PROVE OscServerInv'
  <1> DEFINE d == [ts |-> b.ts, elements |-> b.elements, invalid |-> b.invalid, number |-> arrived + 1]
  <1>1. /\ socket' = Append(socket, d) /\ arrived' = arrived + 1 /\ arrived \in Nat
        /\ UNCHANGED <<clock, queued, inHand, dispatched, serverAt, dispTime>>
    BY DEF Arrive, OscServerInv, OscServerTypeOK
  <1>2. d \in Datagrams /\ d.invalid <= d.elements /\ d.number = arrived + 1
    <2>1. b.ts \in Nat /\ b.elements \in Nat /\ b.invalid \in Nat /\ b.invalid <= b.elements
      BY OscServerAssumption
    <2> QED BY <1>1, <2>1 DEF Datagrams
  <1> HIDE DEF d
  <1>3. /\ socket \in Seq(Datagrams) /\ Len(socket) \in Nat /\ DOMAIN socket = 1 .. Len(socket)
        /\ socket' \in Seq(Datagrams) /\ DOMAIN socket' = 1 .. Len(socket) + 1
        /\ socket'[Len(socket) + 1] = d
        /\ \A n \in DOMAIN socket : socket'[n] = socket[n] /\ n \in DOMAIN socket'
    BY <1>1, <1>2, LenProperties DEF OscServerInv, OscServerTypeOK
  <1>4. OscServerTypeOK'
    BY <1>1, <1>2, <1>3 DEF OscServerInv, OscServerTypeOK
  <1>5. \A n \in DOMAIN socket : socket[n].number \in Nat /\ socket[n].number <= arrived
    BY MembersType DEF OscServerInv, Numbered, Datagrams
  <1>6. Numbered'
    <2>1. \A n \in DOMAIN socket' : socket'[n].number <= arrived'
      BY <1>1, <1>2, <1>3, <1>5
    <2>2. \A n, m \in DOMAIN socket' : n < m => socket'[n].number < socket'[m].number
      BY <1>1, <1>2, <1>3, <1>5 DEF OscServerInv, Numbered
    <2>3. \A e \in Elements : IsRead(e)' => IsRead(e)
      BY <1>1 DEF IsRead
    <2>4. \A e \in Elements : IsRead(e) => e.of <= arrived /\ e.of \in Nat
      BY DEF OscServerInv, Numbered, Elements
    <2>5. \A e \in Elements : IsRead(e) => e.of <= arrived' /\ \A n \in DOMAIN socket' : e.of < socket'[n].number
      BY <1>1, <1>2, <1>3, <2>4 DEF OscServerInv, Numbered
    <2> QED BY <2>1, <2>2, <2>3, <2>5 DEF Numbered
  <1>7. AtTheQueue'
    BY <1>1, <1>3 DEF OscServerInv, AtTheQueue
  <1>8. HandInOrder' /\ QueueInOrder' /\ NoneEarly' /\ CallsInOrder'
    BY <1>1 DEF OscServerInv, HandInOrder, QueueInOrder, NoneEarly, CallsInOrder
  <1> QED BY <1>4, <1>6, <1>7, <1>8 DEF OscServerInv
LEMMA ReadKeeps == ASSUME OscServerInv, DispatchData PROVE OscServerInv'
  <1> DEFINE d == Head(socket)  es == ElementsOf(d)
  <1>1. /\ serverAt = "read" /\ socket # <<>> /\ socket' = Tail(socket)
        /\ UNCHANGED <<clock, arrived, dispTime, dispatched>>
    BY DEF DispatchData, OscServerInv, AtTheQueue
  <1>2. /\ Len(socket) > 0 /\ d = socket[1] /\ Tail(socket) \in Seq(Datagrams)
        /\ DOMAIN socket' = 1 .. Len(socket) - 1
        /\ \A n \in DOMAIN socket' : socket'[n] = socket[n + 1] /\ n + 1 \in DOMAIN socket
    <2>1. socket \in Seq(Datagrams) /\ Len(socket) \in Nat /\ DOMAIN socket = 1 .. Len(socket)
      BY MembersType DEF OscServerInv, OscServerTypeOK
    <2> QED BY <1>1, <2>1, HeadTailProperties, LenProperties, EmptySeq
  <1>3. d \in Datagrams /\ d.invalid <= d.elements /\ 1 \in DOMAIN socket
    BY <1>2, MembersType DEF OscServerInv, OscServerTypeOK
  <1>4. /\ es \in Seq(Elements) /\ DOMAIN es \subseteq Nat
        /\ \A n \in DOMAIN es : es[n] \in Elements /\ es[n].of = d.number /\ es[n].ts = d.ts /\ es[n].k = n
    <2>1. es \in Seq(Elements) /\ DOMAIN es \subseteq Nat /\ DOMAIN es = 1 .. Len(es)
      BY <1>3, ElementsType, LenProperties
    <2>2. \A n \in DOMAIN es : es[n] \in Elements
      BY <2>1, ElementOfSeq
    <2> QED BY <1>3, <2>1, <2>2, ElementsType
  <1> HIDE DEF es
  <1>5. \A n \in DOMAIN socket : n > 1 => d.number < socket[n].number
    BY <1>2, <1>3, MembersType DEF OscServerInv, Numbered
  <1>6. d.number \in Nat /\ d.number <= arrived
    BY <1>2, <1>3 DEF Datagrams, OscServerInv, Numbered
  \* What was read before is of earlier bundles.
  <1>7. \A e \in Elements : IsRead(e) => e.of < d.number /\ e.of \in Nat
    BY <1>2, <1>3 DEF OscServerInv, Numbered, Elements
  <1>8. /\ \A n \in DOMAIN queued : queued[n].of < d.number /\ queued[n].of \in Nat
        /\ \A n \in DOMAIN dispatched : dispatched[n].e.of < d.number /\ dispatched[n].e.of \in Nat
    BY <1>7, MembersType DEF OscServerInv, IsRead, Calls
  \* Where the elements go
  <1>9. \/ inHand' = es /\ queued' = queued /\ serverAt' = "bundle" /\ d.ts <= clock
        \/ inHand' = inHand /\ queued' = QueueAll(queued, es) /\ serverAt' = "wait" /\ d.ts > clock
    <2>1. d.ts \in Nat /\ clock \in Nat /\ Immediate = 0
      BY <1>3, OscServerAssumption DEF Datagrams, OscServerInv, OscServerTypeOK
    <2>2. \/ (d.ts = Immediate \/ d.ts <= clock) /\ inHand' = es /\ serverAt' = "bundle" /\ queued' = queued
          \/ ~(d.ts = Immediate \/ d.ts <= clock) /\ queued' = QueueAll(queued, es) /\ serverAt' = "wait" /\ inHand' = inHand
      BY DEF DispatchData, es
    <2> QED BY <2>1, <2>2
  <1>10. NewAfter(queued, es)
    BY <1>4, <1>8 DEF NewAfter
  <1>11. /\ QueueAll(queued, es) \in Seq(Elements) /\ Sorted(QueueAll(queued, es))
         /\ \A n \in DOMAIN QueueAll(queued, es) :
                  \/ \E m \in DOMAIN queued : QueueAll(queued, es)[n] = queued[m]
                  \/ \E m \in DOMAIN es : QueueAll(queued, es)[n] = es[m]
    BY <1>4, <1>10, QueueAllSorted DEF OscServerInv, OscServerTypeOK, QueueInOrder
  <1>12. OscServerTypeOK'
    <2>1. socket' \in Seq(Datagrams) /\ \A n \in DOMAIN socket' : socket'[n].invalid <= socket'[n].elements
      BY <1>1, <1>2 DEF OscServerInv, OscServerTypeOK
    <2>2. inHand' \in Seq(Elements) /\ queued' \in Seq(Elements)
      BY <1>4, <1>9, <1>11 DEF OscServerInv, OscServerTypeOK
    <2> QED BY <1>1, <2>1, <2>2 DEF OscServerInv, OscServerTypeOK
  <1>13. Numbered'
    <2>1. \A n \in DOMAIN socket' : socket'[n].number <= arrived'
      BY <1>1, <1>2 DEF OscServerInv, Numbered
    <2>2. \A n, m \in DOMAIN socket' : n < m => socket'[n].number < socket'[m].number
      BY <1>2 DEF OscServerInv, Numbered
    <2>3. ASSUME NEW e \in Elements, IsRead(e)' PROVE IsRead(e) \/ e.of = d.number
      <3>1. CASE \E n \in DOMAIN queued' : queued'[n] = e
        BY <1>4, <1>9, <1>11, <3>1 DEF IsRead
      <3>2. CASE \E n \in DOMAIN inHand' : inHand'[n] = e
        BY <1>4, <1>9, <3>2 DEF IsRead
      <3>3. CASE \E n \in DOMAIN dispatched' : dispatched'[n].e = e
        BY <1>1, <3>3 DEF IsRead
      <3> QED BY <2>3, <3>1, <3>2, <3>3 DEF IsRead
    <2>4. \A n \in DOMAIN socket' : d.number < socket'[n].number /\ socket'[n].number \in Nat
      <3>1. \A n \in DOMAIN socket' : n + 1 > 1
        BY <1>2
      <3> QED BY <1>2, <1>5, <3>1, MembersType DEF OscServerInv, Datagrams
    <2>5. ASSUME NEW e \in Elements, IsRead(e)'
          PROVE  e.of <= arrived' /\ \A n \in DOMAIN socket' : e.of < socket'[n].number
      <3>1. e.of <= d.number /\ e.of \in Nat
        BY <1>6, <1>7, <2>3, <2>5
      <3>2. arrived' = arrived /\ arrived \in Nat
        BY <1>1 DEF OscServerInv, OscServerTypeOK
      <3> QED BY <1>6, <2>4, <3>1, <3>2
    <2> QED BY <2>1, <2>2, <2>5 DEF Numbered
  <1>14. HandInOrder'
    <2>1. CASE inHand' = es /\ queued' = queued /\ d.ts <= clock
      <3>1. \A n \in DOMAIN es : /\ es[n].ts <= clock'
                                 /\ \A m \in DOMAIN queued' : queued'[m].of # es[n].of
                                 /\ \A m \in DOMAIN dispatched' : dispatched'[m].e.of # es[n].of
        BY <1>1, <1>4, <1>6, <1>8, <2>1
      <3>2. \A n, m \in DOMAIN es : es[n].of = es[m].of /\ (n < m => es[n].k < es[m].k)
        BY <1>4
      <3> QED BY <2>1, <3>1, <3>2 DEF HandInOrder
    <2>2. CASE inHand' = inHand /\ queued' = QueueAll(queued, es)
      <3>1. \A n \in DOMAIN inHand : inHand[n].of < d.number /\ inHand[n].of \in Nat
        BY <1>7, MembersType DEF OscServerInv, IsRead
      <3>2. \A n \in DOMAIN inHand : \A m \in DOMAIN queued' : queued'[m].of # inHand[n].of
        BY <1>4, <1>6, <1>11, <2>2, <3>1 DEF OscServerInv, HandInOrder
      <3> QED BY <1>1, <2>2, <3>2 DEF OscServerInv, HandInOrder
    <2> QED BY <1>9, <2>1, <2>2
  <1>15. QueueInOrder'
    <2>1. CASE queued' = queued
      BY <1>1, <2>1 DEF OscServerInv, QueueInOrder
    <2>2. CASE queued' = QueueAll(queued, es) /\ d.ts > clock
      <3>1. ASSUME NEW m \in DOMAIN dispatched, NEW n \in DOMAIN es
            PROVE  /\ dispatched[m].e.of # es[n].of
                   /\ MayPrecede(dispatched[m].e, es[n])
        <4>1. dispatched[m].e.of < es[n].of
          BY <1>4, <1>8
        <4>2. dispatched[m] \in Calls /\ es[n] \in Elements
          BY <1>4, MembersType DEF OscServerInv
        <4>3. dispatched[m].e.ts <= dispatched[m].at + EARLY /\ dispatched[m].at <= clock
          BY DEF OscServerInv, NoneEarly
        <4>4. es[n].ts > clock /\ clock \in Nat /\ EARLY \in Nat
          BY <1>4, <2>2, OscServerAssumption DEF OscServerInv, OscServerTypeOK
        <4>5. dispatched[m].e.ts < es[n].ts + EARLY
          BY <4>2, <4>3, <4>4 DEF Calls, Elements
        <4> QED BY <4>1, <4>2, <4>5 DEF MayPrecede, Calls, Elements
      <3>2. ASSUME NEW m \in DOMAIN dispatched', NEW n \in DOMAIN queued'
            PROVE  /\ dispatched'[m].e.of = queued'[n].of => dispatched'[m].e.k < queued'[n].k
                   /\ dispatched'[m].waited => MayPrecede(dispatched'[m].e, queued'[n])
        <4>1. CASE \E x \in DOMAIN queued : queued'[n] = queued[x]
          BY <1>1, <4>1 DEF OscServerInv, QueueInOrder
        <4>2. CASE \E x \in DOMAIN es : queued'[n] = es[x]
          BY <1>1, <3>1, <4>2
        <4> QED BY <1>11, <2>2, <4>1, <4>2
      <3> QED BY <1>11, <2>2, <3>2 DEF QueueInOrder, MayPrecede
    <2> QED BY <1>9, <2>1, <2>2
  <1>16. AtTheQueue'
    BY <1>9 DEF AtTheQueue
  <1>17. NoneEarly' /\ CallsInOrder'
    BY <1>1 DEF OscServerInv, NoneEarly, CallsInOrder
  <1> QED BY <1>12, <1>13, <1>14, <1>15, <1>16, <1>17 DEF OscServerInv

\* A call of a handler is added.
LEMMA CallAppends ==
    ASSUME OscServerInv, NEW e \in Elements, Call(e)
    PROVE  /\ dispatched' \in Seq(Calls) /\ DOMAIN dispatched' = 1 .. Len(dispatched) + 1
           /\ \A n \in DOMAIN dispatched : dispatched'[n] = dispatched[n] /\ n \in DOMAIN dispatched'
           /\ \A n \in DOMAIN dispatched' :
                  \/ n \in DOMAIN dispatched
                  \/ n = Len(dispatched) + 1
           /\ LET c == dispatched'[Len(dispatched) + 1]
              IN  c.e = e /\ c.at = clock /\ (c.waited <=> serverAt = "queue")
  <1> DEFINE c == [e |-> e, at |-> clock, waited |-> serverAt = "queue"]
  <1>1. c \in Calls /\ dispatched \in Seq(Calls)
    BY DEF Calls, OscServerInv, OscServerTypeOK
  <1>2. dispatched' = Append(dispatched, c)
    BY DEF Call
  <1>3. c.e = e /\ c.at = clock /\ (c.waited <=> serverAt = "queue")
    OBVIOUS
  <1> HIDE DEF c
  <1>4. Len(dispatched) \in Nat /\ DOMAIN dispatched = 1 .. Len(dispatched)
    BY <1>1, LenProperties
  <1>5. /\ Append(dispatched, c) \in Seq(Calls) /\ DOMAIN Append(dispatched, c) = 1 .. Len(dispatched) + 1
        /\ Append(dispatched, c)[Len(dispatched) + 1] = c
        /\ \A n \in 1 .. Len(dispatched) : Append(dispatched, c)[n] = dispatched[n]
    BY <1>1, <1>4, LenProperties
  <1> QED BY <1>2, <1>3, <1>4, <1>5
LEMMA ElementKeeps == ASSUME OscServerInv, DispatchElement PROVE OscServerInv'
  <1>1. UNCHANGED <<clock, socket, arrived, queued, dispTime>> /\ serverAt = "bundle"
    BY DEF DispatchElement, timeVars
  <1>2. CASE inHand = <<>>
    <2>1. UNCHANGED <<inHand, dispatched>> /\ serverAt' = "wait"
      BY <1>2 DEF DispatchElement
    <2> QED BY <1>1, <2>1 DEF OscServerInv, OscServerTypeOK, Numbered, IsRead, HandInOrder, QueueInOrder,
                              AtTheQueue, NoneEarly, CallsInOrder
  <1>3. CASE inHand # <<>>
    <2> DEFINE e == Head(inHand)  new == Len(dispatched) + 1
    <2>1. inHand' = Tail(inHand) /\ Call(e) /\ serverAt' = serverAt
      BY <1>3 DEF DispatchElement
    <2>2. /\ Len(inHand) > 0 /\ e = inHand[1] /\ 1 \in DOMAIN inHand /\ e \in Elements
          /\ Tail(inHand) \in Seq(Elements) /\ DOMAIN inHand' = 1 .. Len(inHand) - 1
          /\ \A n \in DOMAIN inHand' : inHand'[n] = inHand[n + 1] /\ n + 1 \in DOMAIN inHand /\ n + 1 > 1
      <3>1. inHand \in Seq(Elements) /\ Len(inHand) \in Nat /\ DOMAIN inHand = 1 .. Len(inHand)
        BY MembersType DEF OscServerInv, OscServerTypeOK
      <3>2. /\ Head(inHand) \in Elements /\ Tail(inHand) \in Seq(Elements) /\ Len(Tail(inHand)) = Len(inHand) - 1
            /\ \A n \in 1 .. Len(Tail(inHand)) : Tail(inHand)[n] = inHand[n + 1]
        BY <1>3, <3>1, HeadTailProperties
      <3>3. Len(inHand) > 0
        BY <1>3, <3>1, EmptySeq
      <3> QED BY <2>1, <3>1, <3>2, <3>3, LenProperties
    <2> HIDE DEF e
    <2>3. /\ dispatched' \in Seq(Calls) /\ DOMAIN dispatched' = 1 .. new
          /\ \A n \in DOMAIN dispatched : dispatched'[n] = dispatched[n]
          /\ \A n \in DOMAIN dispatched' : n \in DOMAIN dispatched \/ n = new
          /\ dispatched'[new].e = e /\ dispatched'[new].at = clock /\ ~dispatched'[new].waited
      BY <1>1, <2>1, <2>2, CallAppends
    <2>4. DOMAIN dispatched = 1 .. Len(dispatched) /\ Len(dispatched) \in Nat
      BY MembersType DEF OscServerInv
    <2> HIDE DEF new
    <2>5. OscServerTypeOK'
      BY <1>1, <2>1, <2>2, <2>3 DEF OscServerInv, OscServerTypeOK
    <2>6. Numbered'
      <3>1. ASSUME NEW x \in Elements, IsRead(x)' PROVE IsRead(x)
        BY <1>1, <2>2, <2>3, <3>1 DEF IsRead
      <3> QED BY <1>1, <3>1 DEF OscServerInv, Numbered
    <2>7. HandInOrder'
      <3>1. ASSUME NEW n \in DOMAIN inHand', NEW m \in DOMAIN dispatched', dispatched'[m].e.of = inHand'[n].of
            PROVE  dispatched'[m].e.k < inHand'[n].k
        <4>1. CASE m \in DOMAIN dispatched
          BY <2>2, <2>3, <3>1, <4>1 DEF OscServerInv, HandInOrder
        <4>2. CASE m = new
          BY <2>2, <2>3, <4>2 DEF OscServerInv, HandInOrder
        <4> QED BY <2>3, <4>1, <4>2
      <3>2. \A n, m \in DOMAIN inHand' :
                inHand'[n].of = inHand'[m].of /\ (n < m => inHand'[n].k < inHand'[m].k)
        <4>1. \A n, m \in DOMAIN inHand' : n < m => n + 1 < m + 1
          BY <2>2
        <4> QED BY <2>2, <4>1 DEF OscServerInv, HandInOrder
      <3>3. \A n \in DOMAIN inHand' : inHand'[n].ts <= clock' /\ \A m \in DOMAIN queued' : queued'[m].of # inHand'[n].of
        BY <1>1, <2>2 DEF OscServerInv, HandInOrder
      <3> QED BY <3>1, <3>2, <3>3 DEF HandInOrder
    <2>8. QueueInOrder'
      <3>1. ASSUME NEW m \in DOMAIN dispatched', NEW n \in DOMAIN queued
            PROVE  /\ dispatched'[m].e.of = queued[n].of => dispatched'[m].e.k < queued[n].k
                   /\ dispatched'[m].waited => MayPrecede(dispatched'[m].e, queued[n])
        <4>1. CASE m \in DOMAIN dispatched
          BY <2>3, <4>1 DEF OscServerInv, QueueInOrder
        <4>2. CASE m = new
          BY <2>2, <2>3, <4>2 DEF OscServerInv, HandInOrder
        <4> QED BY <2>3, <4>1, <4>2
      <3> QED BY <1>1, <3>1 DEF OscServerInv, QueueInOrder
    <2>9. AtTheQueue'
      BY <1>1, <2>1 DEF AtTheQueue
    <2>10. NoneEarly'
      <3>1. e.ts <= clock /\ e.ts \in Nat /\ clock \in Nat /\ EARLY \in Nat
        BY <2>2, OscServerAssumption DEF OscServerInv, HandInOrder, OscServerTypeOK, Elements
      <3>2. e.ts <= clock + EARLY
        BY <3>1
      <3> QED BY <1>1, <2>3, <3>1, <3>2 DEF OscServerInv, NoneEarly
    <2>11. CallsInOrder'
      <3> SUFFICES ASSUME NEW n \in DOMAIN dispatched', NEW m \in DOMAIN dispatched', n < m
                   PROVE  /\ dispatched'[n].e.of = dispatched'[m].e.of => dispatched'[n].e.k < dispatched'[m].e.k
                          /\ dispatched'[n].waited /\ dispatched'[m].waited
                                => MayPrecede(dispatched'[n].e, dispatched'[m].e)
        BY DEF CallsInOrder, MayPrecede
      <3>1. n \in DOMAIN dispatched
        BY <2>3, <2>4 DEF new
      <3>2. CASE m \in DOMAIN dispatched
        BY <2>3, <3>1, <3>2 DEF OscServerInv, CallsInOrder
      <3>3. CASE m = new
        BY <2>2, <2>3, <3>1, <3>3 DEF OscServerInv, HandInOrder
      <3> QED BY <2>3, <3>2, <3>3
    <2> QED BY <2>5, <2>6, <2>7, <2>8, <2>9, <2>10, <2>11 DEF OscServerInv
  <1> QED BY <1>2, <1>3

LEMMA QueuedKeeps == ASSUME OscServerInv, DispatchQueued PROVE OscServerInv'
  <1> DEFINE e == Head(queued)  new == Len(dispatched) + 1
  <1>1. /\ UNCHANGED <<clock, socket, arrived, inHand, dispTime>> /\ serverAt = "queue"
        /\ queued' = Tail(queued) /\ Call(e)
        /\ serverAt' = IF Len(queued) > 1 /\ queued[2].ts = dispTime THEN "queue" ELSE "wait"
    BY DEF DispatchQueued, timeVars
  <1>2. queued # <<>> /\ queued[1].ts = dispTime /\ dispTime <= clock + EARLY
    BY <1>1 DEF OscServerInv, AtTheQueue
  <1>3. /\ Len(queued) \in Nat /\ Len(queued) > 0 /\ e = queued[1] /\ 1 \in DOMAIN queued /\ e \in Elements
        /\ Tail(queued) \in Seq(Elements) /\ DOMAIN queued = 1 .. Len(queued) /\ DOMAIN queued' = 1 .. Len(queued) - 1
        /\ Len(queued') = Len(queued) - 1
        /\ \A n \in DOMAIN queued' : queued'[n] = queued[n + 1] /\ n + 1 \in DOMAIN queued /\ n + 1 > 1
    <2>1. queued \in Seq(Elements) /\ Len(queued) \in Nat /\ DOMAIN queued = 1 .. Len(queued)
      BY MembersType DEF OscServerInv, OscServerTypeOK
    <2>2. /\ Head(queued) \in Elements /\ Tail(queued) \in Seq(Elements) /\ Len(Tail(queued)) = Len(queued) - 1
          /\ \A n \in 1 .. Len(Tail(queued)) : Tail(queued)[n] = queued[n + 1]
      BY <1>2, <2>1, HeadTailProperties
    <2>3. Len(queued) > 0
      BY <1>2, <2>1, EmptySeq
    <2> QED BY <1>1, <2>1, <2>2, <2>3, LenProperties
  <1> HIDE DEF e
  <1>4. /\ dispatched' \in Seq(Calls) /\ DOMAIN dispatched' = 1 .. new
        /\ \A n \in DOMAIN dispatched : dispatched'[n] = dispatched[n]
        /\ \A n \in DOMAIN dispatched' : n \in DOMAIN dispatched \/ n = new
        /\ dispatched'[new].e = e /\ dispatched'[new].at = clock
    BY <1>1, <1>3, CallAppends
  <1>5. DOMAIN dispatched = 1 .. Len(dispatched) /\ Len(dispatched) \in Nat
    BY MembersType DEF OscServerInv
  <1> HIDE DEF new
  <1>6. OscServerTypeOK'
    BY <1>1, <1>3, <1>4 DEF OscServerInv, OscServerTypeOK
  <1>7. Numbered'
    <2>1. ASSUME NEW x \in Elements, IsRead(x)' PROVE IsRead(x)
      BY <1>1, <1>3, <1>4, <2>1 DEF IsRead
    <2> QED BY <1>1, <2>1 DEF OscServerInv, Numbered
  <1>8. HandInOrder'
    <2>1. ASSUME NEW n \in DOMAIN inHand, NEW m \in DOMAIN dispatched', dispatched'[m].e.of = inHand[n].of
          PROVE  dispatched'[m].e.k < inHand[n].k
      <3>1. CASE m \in DOMAIN dispatched
        BY <1>4, <2>1, <3>1 DEF OscServerInv, HandInOrder
      <3>2. CASE m = new
        BY <1>3, <1>4, <2>1, <3>2 DEF OscServerInv, HandInOrder
      <3> QED BY <1>4, <3>1, <3>2
    <2>2. \A n \in DOMAIN inHand : \A m \in DOMAIN queued' : queued'[m].of # inHand[n].of
      BY <1>3 DEF OscServerInv, HandInOrder
    <2> QED BY <1>1, <2>1, <2>2 DEF OscServerInv, HandInOrder
  \* Those that stay come after the one that goes.
  <1>9. \A n \in DOMAIN queued' : /\ e.ts <= queued'[n].ts
                                  /\ e.ts = queued'[n].ts => e.of <= queued'[n].of
                                  /\ e.of = queued'[n].of => e.k < queued'[n].k
    BY <1>3 DEF OscServerInv, QueueInOrder, Sorted
  <1>10. QueueInOrder'
    <2>1. Sorted(queued')
      <3>1. \A n, m \in DOMAIN queued' : n < m => n + 1 < m + 1
        BY <1>3
      <3> QED BY <1>3, <3>1 DEF OscServerInv, QueueInOrder, Sorted
    <2>2. ASSUME NEW m \in DOMAIN dispatched', NEW n \in DOMAIN queued'
          PROVE  /\ dispatched'[m].e.of = queued'[n].of => dispatched'[m].e.k < queued'[n].k
                 /\ dispatched'[m].waited => MayPrecede(dispatched'[m].e, queued'[n])
      <3>1. CASE m \in DOMAIN dispatched
        BY <1>3, <1>4, <3>1 DEF OscServerInv, QueueInOrder
      <3>2. CASE m = new
        <4>1. queued'[n] \in Elements
          BY <1>3, MembersType DEF OscServerInv
        <4>2. /\ e.ts \in Nat /\ queued'[n].ts \in Nat /\ e.of \in Nat /\ queued'[n].of \in Nat
              /\ e.ts <= queued'[n].ts /\ (e.ts = queued'[n].ts => e.of <= queued'[n].of)
          <5>1. /\ \A x \in Elements : x.ts \in Nat /\ x.of \in Nat
            BY DEF Elements
          <5> QED BY <1>3, <1>9, <4>1, <5>1
        <4>3. MayPrecede(e, queued'[n])
          BY <4>2 DEF MayPrecede
        <4> QED BY <1>4, <1>9, <3>2, <4>3
      <3> QED BY <1>4, <3>1, <3>2
    <2> QED BY <2>1, <2>2 DEF QueueInOrder, MayPrecede
  <1>11. AtTheQueue'
    <2>1. Len(queued) > 1 => queued' # <<>> /\ queued'[1] = queued[2]
      <3>1. Len(queued) > 1 => 1 \in DOMAIN queued' /\ 1 + 1 = 2
        BY <1>3
      <3> QED BY <1>3, <3>1
    <2> QED BY <1>1, <1>2, <2>1 DEF AtTheQueue
  <1>12. NoneEarly'
    BY <1>1, <1>2, <1>3, <1>4 DEF OscServerInv, OscServerTypeOK, NoneEarly
  <1>13. CallsInOrder'
    <2> SUFFICES ASSUME NEW n \in DOMAIN dispatched', NEW m \in DOMAIN dispatched', n < m
                 PROVE  /\ dispatched'[n].e.of = dispatched'[m].e.of => dispatched'[n].e.k < dispatched'[m].e.k
                        /\ dispatched'[n].waited /\ dispatched'[m].waited
                              => MayPrecede(dispatched'[n].e, dispatched'[m].e)
      BY DEF CallsInOrder, MayPrecede
    <2>1. n \in DOMAIN dispatched
      BY <1>4, <1>5 DEF new
    <2>2. CASE m \in DOMAIN dispatched
      BY <1>4, <2>1, <2>2 DEF OscServerInv, CallsInOrder
    <2>3. CASE m = new
      BY <1>3, <1>4, <2>1, <2>3 DEF OscServerInv, QueueInOrder
    <2> QED BY <1>4, <2>2, <2>3
  <1> QED BY <1>6, <1>7, <1>8, <1>10, <1>11, <1>12, <1>13 DEF OscServerInv

(* However bundles are timed and whenever their datagrams are read: each   *)
(* handler is called in time, those of one bundle in order, those that     *)
(* waited in the order of their times.                                     *)
THEOREM HandlersInOrder == OscServerSpec => []DispatchedInOrder
  <1>1. OscServerInv /\ [OscServerNext]_oscServerVars => OscServerInv'
    <2> SUFFICES ASSUME OscServerInv, [OscServerNext]_oscServerVars PROVE OscServerInv'
      OBVIOUS
    <2> QED BY IdleKeeps, TickKeeps, ArriveKeeps, ReadKeeps, ElementKeeps, QueuedKeeps DEF OscServerNext, ThreadFunc
  <1>2. OscServerInv => DispatchedInOrder
    BY DEF OscServerInv, NoneEarly, CallsInOrder, MayPrecede, DispatchedInOrder, Before
  <1> QED BY InitServer, <1>1, <1>2, PTL DEF OscServerSpec
==============================================================================
