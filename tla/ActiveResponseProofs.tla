------------------------ MODULE ActiveResponseProofs ------------------------
(***************************************************************************)
(* Proofs about ActiveResponse, for any targets, platform and bounds.      *)
(***************************************************************************)
EXTENDS ActiveResponse, TLAPS

(* BlockedWhileDue with the types is inductive. *)
IInv == TypeOK /\ BlockedWhileDue

(* Adding one to and taking one from a counter of a target. *)
LEMMA CounterFacts ==
  ASSUME NEW f \in [Targets -> Nat], NEW t \in Targets
  PROVE  /\ plus(f, t) \in [Targets -> Nat]
         /\ plus(f, t)[t] = f[t] + 1
         /\ \A u \in Targets \ {t} : plus(f, t)[u] = f[u]
         /\ f[t] > 0 => /\ minus(f, t) \in [Targets -> Nat]
                        /\ minus(f, t)[t] = f[t] - 1
                        /\ \A u \in Targets \ {t} : minus(f, t)[u] = f[u]
BY DEF plus, minus

(* A block adds a rule, unless the platform keeps one at most. *)
LEMMA BlockFacts ==
  ASSUME TypeOK, NEW t \in Targets, platform_block(t)
  PROVE  /\ applied' \in [Targets -> Nat]
         /\ t \in Counted => applied'[t] = applied[t] + 1
         /\ applied'[t] <= applied[t] + 1
         /\ \A u \in Targets \ {t} : applied'[u] = applied[u]
BY CounterFacts DEF TypeOK, platform_block

(* An undo removes a rule where they are counted, and all of them elsewhere. *)
LEMMA UnblockFacts ==
  ASSUME TypeOK, NEW t \in Targets, platform_unblock(t)
  PROVE  /\ applied' \in [Targets -> Nat]
         /\ t \in Counted => applied'[t] >= applied[t] - 1
         /\ applied'[t] = 0 \/ applied'[t] <= applied[t] - 1
         /\ \A u \in Targets \ {t} : applied'[u] = applied[u]
BY CounterFacts DEF TypeOK, platform_unblock

(* The target of the command is one, and the counts are numbers. *)
LEMMA CommandFacts ==
  ASSUME TypeOK
  PROVE  /\ cmd.target \in Targets /\ cmd.timeout \in 0..1 /\ cmd.undo \in BOOLEAN
         /\ Counted \subseteq Targets
         /\ \A t \in Targets : applied[t] \in Nat /\ timers[t] \in Nat /\ permanent[t] \in Nat /\ undone[t] \in Nat
         /\ \A t : pending(t) \in 0..1
         /\ pc # "report" => \A t : pending(t) = 0
BY ActiveResponseAssumption DEF TypeOK, Commands, pending

(* They hold at the start. *)
LEMMA TypesInit == Init => TypeOK
<1>1. {0} \subseteq 0..1 /\ {FALSE} \subseteq BOOLEAN
  OBVIOUS
<1>2. Init => cmd \in Commands
  BY <1>1, Zenon DEF Init, Commands
<1>3. QED  BY <1>2, ActiveResponseAssumption DEF Init, TypeOK

(* The types are kept. *)
LEMMA TypeCorrect == TypeOK /\ [Next]_vars => TypeOK'
<1> SUFFICES ASSUME TypeOK, [Next]_vars PROVE TypeOK'
  OBVIOUS
<1> USE CommandFacts, ActiveResponseAssumption
<1>1. CASE Handle
  BY <1>1 DEF Handle, TypeOK
<1>2. CASE Execute
  BY <1>2, BlockFacts, CounterFacts DEF Execute, TypeOK
<1>3. CASE ExecuteFails
  BY <1>3, BlockFacts DEF ExecuteFails, fault, TypeOK
<1>4. CASE Undo
  BY <1>4, UnblockFacts, CounterFacts DEF Undo, TypeOK
<1>5. CASE UndoFails
  BY <1>5, UnblockFacts, CounterFacts DEF UndoFails, fault, TypeOK
<1>6. CASE Report
  BY <1>6, CounterFacts DEF Report, schedule_undo, TypeOK
<1>7. CASE Restart
  BY <1>7 DEF Restart, TypeOK
<1>8. ASSUME NEW t \in Targets, TimerFires(t) PROVE TypeOK'
  BY <1>8, UnblockFacts, CounterFacts DEF TimerFires, TypeOK
<1>9. ASSUME NEW t \in Targets, TimerFails(t) PROVE TypeOK'
  BY <1>9, UnblockFacts, CounterFacts DEF TimerFails, fault, TypeOK
<1>10. ASSUME NEW t \in Targets, block_ip(t) PROVE TypeOK'
  BY <1>10, BlockFacts, CounterFacts DEF block_ip, TypeOK
<1>11. ASSUME NEW t \in Targets, block_ipFails(t) PROVE TypeOK'
  BY <1>11, BlockFacts DEF block_ipFails, fault, TypeOK
<1>12. CASE UNCHANGED vars
  BY <1>12 DEF vars, TypeOK
<1>13. QED
  BY <1>1, <1>2, <1>3, <1>4, <1>5, <1>6, <1>7, <1>8, <1>9, <1>10, <1>11, <1>12 DEF Next, run, Timer

(* A step changes the rules against one target at most, and what is wanted of them by as
   much, or else it is a command of the server or a failure. *)
LEMMA DueIsKept == IInv /\ [Next]_vars => BlockedWhileDue'
<1> SUFFICES ASSUME IInv, [Next]_vars PROVE BlockedWhileDue'
  OBVIOUS
<1> USE CommandFacts
<1>0. TypeOK /\ TypeOK'
  BY TypeCorrect DEF IInv
<1>1. CASE Handle
  BY <1>0, <1>1 DEF Handle, IInv, BlockedWhileDue, wanted, pending
<1>2. CASE Execute
  <2>1. \A t \in Targets : wanted(t)' = IF t = cmd.target THEN wanted(t) + 1 ELSE wanted(t)
    BY <1>0, <1>2, CounterFacts DEF Execute, wanted, pending, TypeOK
  <2>2. QED  BY <1>0, <1>2, <2>1, BlockFacts DEF Execute, IInv, BlockedWhileDue, wanted, TypeOK
<1>3. CASE ExecuteFails
  <2>1. \A t \in Targets : wanted(t)' = wanted(t)
    BY <1>0, <1>3 DEF ExecuteFails, wanted, pending
  <2>2. \A t \in Counted : applied'[t] >= applied[t]
    BY <1>0, <1>3, BlockFacts DEF ExecuteFails
  <2>3. QED  BY <1>0, <1>3, <2>1, <2>2 DEF ExecuteFails, fault, IInv, BlockedWhileDue, wanted, TypeOK
<1>4. CASE Undo
  <2>1. \A t \in Targets : wanted(t)' = wanted(t)
    BY <1>0, <1>4 DEF Undo, wanted, pending
  <2>2. \A t \in Counted : applied'[t] + undone'[t] >= applied[t] + undone[t]
    <3>1. /\ undone'[cmd.target] = undone[cmd.target] + 1
          /\ \A t \in Targets \ {cmd.target} : undone'[t] = undone[t]
      BY <1>0, <1>4, CounterFacts DEF Undo, TypeOK
    <3>2. QED  BY <1>0, <1>4, <3>1, UnblockFacts DEF Undo, TypeOK
  <2>3. \A t \in Targets : applied'[t] <= applied[t] /\ wanted(t) \in Nat
    BY <1>0, <1>4, UnblockFacts DEF Undo, wanted, TypeOK
  <2>4. QED  BY <1>0, <1>4, <2>1, <2>2, <2>3 DEF Undo, IInv, BlockedWhileDue, TypeOK
<1>5. CASE UndoFails
  <2>1. \A t \in Targets : wanted(t)' = wanted(t)
    BY <1>0, <1>5 DEF UndoFails, wanted, pending
  <2>2. \A t \in Counted : applied'[t] + undone'[t] >= applied[t] + undone[t]
    <3>1. CASE UNCHANGED <<applied, undone>>
      BY <1>0, <3>1
    <3>2. CASE platform_unblock(cmd.target) /\ undone' = plus(undone, cmd.target)
      <4>1. /\ undone'[cmd.target] = undone[cmd.target] + 1
            /\ \A t \in Targets \ {cmd.target} : undone'[t] = undone[t]
        BY <1>0, <3>2, CounterFacts DEF TypeOK
      <4>2. QED  BY <1>0, <3>2, <4>1, UnblockFacts DEF TypeOK
    <3>3. QED  BY <1>5, <3>1, <3>2 DEF UndoFails
  <2>3. \A t \in Targets : wanted(t) \in Nat
    BY <1>0 DEF wanted, TypeOK
  <2>4. QED  BY <1>0, <1>5, <2>1, <2>2, <2>3 DEF UndoFails, fault, IInv, BlockedWhileDue, TypeOK
<1>6. CASE Report
  <2>1. \A t \in Targets : wanted(t)' = wanted(t)
    BY <1>0, <1>6, CounterFacts DEF Report, schedule_undo, wanted, pending, TypeOK
  <2>2. QED  BY <1>0, <1>6, <2>1 DEF Report, IInv, BlockedWhileDue
<1>7. CASE Restart
  BY <1>0, <1>7 DEF Restart, IInv, BlockedWhileDue, wanted, pending, TypeOK
<1>8. ASSUME NEW t \in Targets, TimerFires(t) PROVE BlockedWhileDue'
  <2>1. \A u \in Targets : wanted(u)' = IF u = t THEN wanted(u) - 1 ELSE wanted(u)
    BY <1>0, <1>8, CounterFacts DEF TimerFires, wanted, pending, TypeOK
  <2>2. wanted(t) > 0
    BY <1>0, <1>8 DEF TimerFires, wanted
  <2>3. QED  BY <1>0, <1>8, <2>1, <2>2, UnblockFacts DEF TimerFires, IInv, BlockedWhileDue, wanted, TypeOK
<1>9. ASSUME NEW t \in Targets, TimerFails(t) PROVE BlockedWhileDue'
  <2>1. /\ wanted(t)' = wanted(t) - 1
        /\ \A u \in Targets \ {t} : wanted(u)' = wanted(u)
    <3>1. /\ timers'[t] = timers[t] - 1
          /\ \A u \in Targets \ {t} : timers'[u] = timers[u]
          /\ permanent' = permanent /\ \A u : pending(u)' = pending(u)
      BY <1>0, <1>9, CounterFacts DEF TimerFails, pending, TypeOK
    <3>2. QED  BY <1>0, <3>1 DEF wanted
  <2>2. \A u \in Counted : wanted(u) \in Nat /\ wanted(u)' \in Nat
    BY <1>0 DEF wanted, pending, TypeOK
  <2>3. \A u \in Counted : applied'[u] >= (IF u = t THEN applied[u] - 1 ELSE applied[u])
    BY <1>0, <1>9, UnblockFacts DEF TimerFails, TypeOK
  <2>4. QED  BY <1>0, <1>9, <2>1, <2>2, <2>3 DEF TimerFails, fault, IInv, BlockedWhileDue, TypeOK
<1>10. ASSUME NEW t \in Targets, block_ip(t) PROVE BlockedWhileDue'
  <2>1. \A u \in Targets : wanted(u)' = IF u = t THEN wanted(u) + 1 ELSE wanted(u)
    <3>1. /\ permanent'[t] = permanent[t] + 1
          /\ \A u \in Targets \ {t} : permanent'[u] = permanent[u]
          /\ timers' = timers /\ \A u : pending(u)' = pending(u)
      BY <1>0, <1>10, CounterFacts DEF block_ip, pending, TypeOK
    <3>2. QED  BY <1>0, <3>1 DEF wanted
  <2>2. QED  BY <1>0, <1>10, <2>1, BlockFacts DEF block_ip, IInv, BlockedWhileDue, wanted, TypeOK
<1>11. ASSUME NEW t \in Targets, block_ipFails(t) PROVE BlockedWhileDue'
  <2>1. \A u \in Targets : wanted(u)' = wanted(u)
    BY <1>0, <1>11 DEF block_ipFails, wanted, pending
  <2>2. \A u \in Counted : applied'[u] >= applied[u]
    BY <1>0, <1>11, BlockFacts DEF block_ipFails
  <2>3. QED  BY <1>0, <1>11, <2>1, <2>2 DEF block_ipFails, fault, IInv, BlockedWhileDue, wanted, TypeOK
<1>12. CASE UNCHANGED vars
  BY <1>12 DEF vars, IInv, BlockedWhileDue, wanted, pending
<1>13. QED
  BY <1>1, <1>2, <1>3, <1>4, <1>5, <1>6, <1>7, <1>8, <1>9, <1>10, <1>11, <1>12 DEF Next, run, Timer

(* The variables keep their types. *)
THEOREM TypesHold == Spec => []TypeOK
<1>1. QED  BY TypesInit, TypeCorrect, PTL DEF Spec

(* On any platform and for any interleaving of the loop, the timers, the Local Detection
   Engine, failures and restarts: no block is undone before its time unless the server
   asks for it, and none stays without a reason unless something failed. *)
THEOREM BlocksHold == Spec => []BlockedWhileDue
<1>1. Init => IInv
  <2>1. Init => BlockedWhileDue
    BY ActiveResponseAssumption DEF Init, BlockedWhileDue, wanted, pending
  <2>2. QED  BY <2>1, TypesInit DEF IInv
<1>2. IInv /\ [Next]_vars => IInv'
  BY TypeCorrect, DueIsKept DEF IInv
<1>3. IInv => BlockedWhileDue
  BY DEF IInv
<1>4. QED  BY <1>1, <1>2, <1>3, PTL DEF Spec
=============================================================================
