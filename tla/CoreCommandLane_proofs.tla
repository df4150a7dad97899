----------------------- MODULE CoreCommandLane_proofs -----------------------
(***************************************************************************)
(* Safety of the core command lane for any number of targets, writes and   *)
(* crashes, provided the wall clock is not set back.                       *)
(***************************************************************************)
EXTENDS CoreCommandLane, TLAPS

(* The three parts of the invariant speak of one target only, so a step    *)
(* that leaves everything about a target alone preserves them.             *)
Same(t) == /\ file'[t] = file[t] /\ batch'[t] = batch[t] /\ retry'[t] = retry[t]
           /\ accepted'[t] = accepted[t] /\ delivered'[t] = delivered[t]
           /\ handled'[t] = handled[t]
           /\ (retiring' = t) = (retiring = t)
           /\ issued' >= issued /\ now' >= now

LEMMA SameKeeps ==
    ASSUME TypeOK, TypeOK', NEW t \in Targets, Same(t),
           Latest(t), Inherited(t), Once(t)
    PROVE  Latest(t)' /\ Inherited(t)' /\ Once(t)'
<1>. USE DEF Same
<1>1. Latest(t)'
  <2>1. now \in Int /\ now' \in Int /\ issued \in Int /\ issued' \in Int
        /\ accepted[t] \in Int
    BY MailboxAssumption, LaneAssumption DEF TypeOK
  <2>2. file[t] # NoCommand => file[t].at \in Int
    BY MailboxAssumption DEF TypeOK, Command
  <2>. QED
    BY <2>1, <2>2 DEF Latest
<1>2. Inherited(t)'
  BY DEF Inherited
<1>3. Once(t)'
  BY DEF Once, Marked
<1>. QED
  BY <1>1, <1>2, <1>3

(* A write replaces whatever is pending for its target. *)
LEMMA EnqueueWins ==
    ASSUME NEW current \in Command \cup {NoCommand}, NEW payload \in Command,
           current # NoCommand => current.at <= payload.at
    PROVE  /\ AfterEnqueue(current, payload) \in Command
           /\ AfterEnqueue(current, payload).rev = payload.rev
           /\ AfterEnqueue(current, payload).at <= payload.at
  BY MailboxAssumption, LaneAssumption, NoCommandAssumption
     DEF AfterEnqueue, ShouldReplace, Coalesced, Command

LEMMA InitInv == Init => IInv
<1>. SUFFICES ASSUME Init PROVE IInv
  OBVIOUS
<1>1. TypeOK
  BY LaneAssumption DEF Init, TypeOK, NoCommands
<1>2. ASSUME NEW t \in Targets PROVE Latest(t) /\ Inherited(t) /\ Once(t)
  BY LaneAssumption DEF Init, NoCommands, Latest, Inherited, Once
<1>. QED
  BY <1>1, <1>2 DEF IInv
(***************************************************************************)
(* One step at a time.  In every case the other targets are left alone.    *)
(***************************************************************************)
LEMMA NextInv ==
    ASSUME IInv, [Next]_vars, ClockMaySet = FALSE
    PROVE  IInv'
<1>. USE DEF IInv
<1>t. /\ now \in Int /\ issued \in Int
      /\ \A t \in Targets : /\ accepted[t] \in Nat /\ delivered[t] \in Nat
                            /\ file[t] \in Command \cup {NoCommand}
                            /\ batch[t] \in Command \cup {NoCommand}
                            /\ retry[t] \in Retry \cup {NoRetry}
                            /\ handled[t] \in [Revisions -> Nat]
  BY MailboxAssumption, LaneAssumption DEF TypeOK
<1>c. ASSUME NEW c \in Command
      PROVE  c.rev \in Revisions /\ c.rev \in Nat /\ c.at \in Int
  <2>1. c.rev \in Revisions /\ c.at \in Times
    BY DEF Command
  <2>2. Revisions \subseteq Nat
    BY LaneAssumption
  <2>3. Times \subseteq Int
    BY MailboxAssumption
  <2>. QED
    BY <2>1, <2>2, <2>3
<1>1. ASSUME NEW t \in Targets, NEW v \in Values, NEW rank \in Ranks,
             GuiWrite(t, v, rank)
      PROVE  IInv'
  <2>. DEFINE payload == [rev |-> issued + 1, val |-> v, rank |-> rank, at |-> now]
  <2>1. payload \in Command /\ payload.rev = issued + 1 /\ payload.at = now
    BY <1>1, LaneAssumption DEF GuiWrite, Command, TypeOK
  <2>2. file[t] # NoCommand => file[t].at <= payload.at
    BY <2>1 DEF Latest
  <2>3. file'[t] = AfterEnqueue(file[t], payload)
    BY <1>1 DEF GuiWrite, TypeOK
  <2>. HIDE DEF payload
  <2>4. /\ file'[t] \in Command
        /\ file'[t].rev = issued + 1
        /\ file'[t].at <= now
    <3>1. file[t] \in Command \cup {NoCommand}
      BY <1>t
    <3>2. /\ AfterEnqueue(file[t], payload) \in Command
          /\ AfterEnqueue(file[t], payload).rev = payload.rev
          /\ AfterEnqueue(file[t], payload).at <= payload.at
      BY <3>1, <2>1, <2>2, EnqueueWins
    <3>. QED
      BY <3>2, <2>1, <2>3
  <2>5. TypeOK'
    BY <1>1, <2>4, LaneAssumption DEF GuiWrite, TypeOK
  <2>6. ASSUME NEW u \in Targets, u # t
        PROVE  Latest(u)' /\ Inherited(u)' /\ Once(u)'
    <3>1. Same(u)
      BY <1>1, <1>t, <2>6 DEF GuiWrite, Same, TypeOK
    <3>. QED
      BY <3>1, <2>5, SameKeeps
  <2>7. /\ accepted'[t] = issued + 1 /\ issued' = issued + 1
        /\ delivered' = delivered /\ batch' = batch /\ retiring' = retiring
        /\ retry' = retry /\ handled' = handled /\ now' = now
    BY <1>1 DEF GuiWrite, TypeOK
  <2>8. Latest(t)'
    BY <1>t, <2>4, <2>7, NoCommandAssumption DEF Latest
  <2>9. Inherited(t)'
    BY <1>t, <1>c, <2>4, <2>7, NoCommandAssumption DEF Latest, Inherited
  <2>10. Once(t)'
    <3>1. handled[t][issued + 1] = 0
      BY <1>1, <1>t, <2>1, <1>c DEF Once, Latest, GuiWrite
    <3>. QED
      BY <2>4, <2>7, <3>1 DEF Once, Marked
  <2>. QED
    BY <2>5, <2>6, <2>8, <2>9, <2>10
<1>2. ASSUME NEW c \in Times, SetClock(c)
      PROVE  IInv'
  <2>1. TypeOK'
    BY <1>2 DEF SetClock, TypeOK, core
  <2>2. \A u \in Targets : Same(u)
    BY <1>2, <1>t, MailboxAssumption DEF SetClock, Same, core
  <2>. QED
    BY <2>1, <2>2, SameKeeps
<1>3. CASE Poll
  <2>. USE <1>3 DEF Poll, gateway
  <2>1. TypeOK'
    <3>1. retry' \in [Targets -> Retry \cup {NoRetry}]
      BY DEF TypeOK
    <3>2. retiring = NoTarget
      BY DEF TypeOK, Loaded
    <3>. QED
      BY <3>1, <3>2, LaneAssumption DEF TypeOK
  <2>2. ASSUME NEW t \in Targets PROVE Latest(t)' /\ Inherited(t)' /\ Once(t)'
    <3>1. /\ batch'[t] = file[t]
          /\ retry'[t] = IF file[t] = NoCommand THEN NoRetry ELSE retry[t]
          /\ batch[t] = NoCommand
      BY DEF Loaded
    <3>2. retiring # t
      BY <3>1 DEF Inherited
    <3>3. Latest(t)'
      BY DEF Latest
    <3>4. Inherited(t)'
      BY <1>t, <1>c, <3>1, <3>2 DEF Latest, Inherited
    <3>5. Once(t)'
      BY <3>1, <3>2 DEF Once, Marked
    <3>. QED
      BY <3>3, <3>4, <3>5
  <2>. QED
    BY <2>1, <2>2
<1>4. ASSUME NEW t \in Targets, SkipWaiting(t)
      PROVE  IInv'
  <2>. USE <1>4 DEF SkipWaiting, Done, gateway, IsNext
  <2>1. TypeOK'
    BY LaneAssumption DEF TypeOK
  <2>2. ASSUME NEW u \in Targets, u # t
        PROVE  Latest(u)' /\ Inherited(u)' /\ Once(u)'
    <3>1. Same(u)
      BY <1>t, <2>2 DEF Same, TypeOK
    <3>. QED
      BY <3>1, <2>1, SameKeeps
  <2>3. batch'[t] = NoCommand
    BY DEF TypeOK
  <2>4. Latest(t)' /\ Inherited(t)' /\ Once(t)'
    BY <2>3, LaneAssumption DEF Latest, Inherited, Once, Marked
  <2>. QED
    BY <2>1, <2>2, <2>4
<1>5. ASSUME NEW t \in Targets, RetireOnly(t)
      PROVE  IInv'
  <2>. USE <1>5 DEF RetireOnly, gateway, IsNext
  <2>1. TypeOK'
    BY DEF TypeOK, Loaded
  <2>2. ASSUME NEW u \in Targets, u # t
        PROVE  Latest(u)' /\ Inherited(u)' /\ Once(u)'
    <3>1. Same(u)
      BY <1>t, <2>2, LaneAssumption DEF Same, TypeOK
    <3>. QED
      BY <3>1, <2>1, SameKeeps
  <2>3. delivered[t] = batch[t].rev /\ batch[t] # NoCommand
    BY <1>t, <1>c DEF Inherited, Matching, Loaded
  <2>4. Latest(t)' /\ Inherited(t)'
    BY <2>3 DEF Latest, Inherited
  <2>5. Once(t)'
    BY DEF Once, Marked
  <2>. QED
    BY <2>1, <2>2, <2>4, <2>5
<1>6. ASSUME NEW t \in Targets, Dispatch(t)
      PROVE  IInv'
  <2>. USE <1>6 DEF Dispatch, MayDispatch, gateway, IsNext
  <2>1. /\ batch[t] \in Command /\ batch[t] # NoCommand /\ retiring = NoTarget
        /\ batch[t].rev \in Revisions /\ batch[t].rev \in 0 .. MaxWrites
    BY <1>t, LaneAssumption DEF Loaded, Command
  <2>2. TypeOK'
    BY <2>1 DEF TypeOK, ForgetOther
  <2>3. ASSUME NEW u \in Targets, u # t
        PROVE  Latest(u)' /\ Inherited(u)' /\ Once(u)'
    <3>1. Same(u)
      BY <1>t, <2>1, <2>3, LaneAssumption DEF Same, TypeOK, ForgetOther
    <3>. QED
      BY <3>1, <2>2, SameKeeps
  <2>4. /\ delivered'[t] = batch[t].rev
        /\ retry'[t] = IF Matching(t) THEN retry[t] ELSE NoRetry
        /\ handled'[t] = [handled[t] EXCEPT ![batch[t].rev] = @ + 1]
    BY DEF TypeOK, ForgetOther
  <2>5. handled[t][batch[t].rev] = 0
    BY <2>1, LaneAssumption DEF Once, Marked, Matching
  <2>6. Latest(t)'
    BY <1>t, <1>c, <2>1, <2>4 DEF Latest, Inherited
  <2>7. Inherited(t)'
    BY <1>t, <1>c, <2>1, <2>4 DEF Inherited, Matching
  <2>8. Once(t)'
    <3>1. \A r \in Revisions : /\ handled'[t][r] <= 1
                               /\ handled'[t][r] # 0 => r <= delivered'[t]
      BY <1>t, <1>c, <2>1, <2>4, <2>5, LaneAssumption DEF Once, Inherited
    <3>2. file[t] # NoCommand /\ handled'[t][file[t].rev] # 0 => batch[t] = file[t]
      <4>. HIDE DEF IInv, Dispatch, MayDispatch, IsNext
      <4>. SUFFICES ASSUME file[t] # NoCommand, handled'[t][file[t].rev] # 0
                    PROVE  batch[t] = file[t]
        OBVIOUS
      <4>1. file[t].rev = accepted[t] /\ file[t].rev \in Revisions /\ file[t].rev \in Nat
        BY <1>t, <1>c DEF IInv, Latest
      <4>2. file[t].rev <= batch[t].rev
        BY <4>1, <3>1, <2>4
      <4>3. /\ batch[t].rev \in Nat /\ batch[t].rev <= accepted[t]
            /\ batch[t].rev = accepted[t] => batch[t] = file[t]
        BY <1>c, <2>1 DEF IInv, Inherited
      <4>. QED
        BY <4>1, <4>2, <4>3
    <3>. QED
      BY <3>1, <3>2 DEF Once
  <2>. QED
    BY <2>2, <2>3, <2>6, <2>7, <2>8
<1>7. ASSUME NEW t \in Targets, DispatchFails(t)
      PROVE  IInv'
  <2>. USE <1>7 DEF DispatchFails, MayDispatch, Done, Defer, gateway, IsNext
  <2>1. batch[t] \in Command /\ batch[t] # NoCommand /\ retiring = NoTarget
    BY <1>t DEF Loaded
  <2>2. [expected |-> batch[t], retireOnly |-> FALSE, due |-> FALSE] \in Retry
    BY <2>1 DEF Retry
  <2>3. TypeOK'
    BY <2>1, <2>2, LaneAssumption DEF TypeOK
  <2>4. ASSUME NEW u \in Targets, u # t
        PROVE  Latest(u)' /\ Inherited(u)' /\ Once(u)'
    <3>1. Same(u)
      BY <1>t, <2>4 DEF Same, TypeOK
    <3>. QED
      BY <3>1, <2>3, SameKeeps
  <2>5. /\ batch'[t] = NoCommand
        /\ retry'[t] = [expected |-> batch[t], retireOnly |-> FALSE, due |-> FALSE]
    BY DEF TypeOK
  <2>6. Latest(t)'
    BY DEF Latest
  <2>7. Inherited(t)'
    BY <2>1, <2>5, LaneAssumption DEF Inherited
  <2>8. file[t] # NoCommand => handled[t][file[t].rev] = 0
    <3>1. CASE batch[t] = file[t]
      BY <2>1, <3>1, LaneAssumption DEF Once, Marked, Matching
    <3>2. CASE batch[t] # file[t]
      <4>1. file[t] # NoCommand => /\ file[t].rev \in Revisions
                                   /\ file[t].rev > delivered[t]
        BY <1>t, <1>c, <2>1, <3>2 DEF Latest, Inherited
      <4>. QED
        BY <1>t, <1>c, <4>1 DEF Once
    <3>. QED
      BY <3>1, <3>2
  <2>9. Once(t)'
    BY <2>5, <2>8 DEF Once
  <2>. QED
    BY <2>3, <2>4, <2>6, <2>7, <2>9
<1>8. ASSUME NEW t \in Targets, Retire(t)
      PROVE  IInv'
  <2>. USE <1>8 DEF Retire, Done, gateway
  <2>1. /\ batch[t] \in Command /\ batch[t] # NoCommand
        /\ delivered[t] = batch[t].rev /\ file[t] # NoCommand
    BY <1>t, LaneAssumption DEF Inherited
  <2>2. /\ batch'[t] = NoCommand /\ retry'[t] = NoRetry
        /\ file'[t] = AfterRemoveIfCurrent(file[t], batch[t])
    BY DEF TypeOK
  <2>3. file'[t] = NoCommand \/ file'[t] = file[t]
    BY <2>2 DEF AfterRemoveIfCurrent
  <2>4. TypeOK'
    BY <1>t, <2>3, LaneAssumption DEF TypeOK
  <2>5. ASSUME NEW u \in Targets, u # t
        PROVE  Latest(u)' /\ Inherited(u)' /\ Once(u)'
    <3>1. Same(u)
      BY <1>t, <2>5, LaneAssumption DEF Same, TypeOK
    <3>. QED
      BY <3>1, <2>4, SameKeeps
  <2>6. file'[t] = NoCommand => delivered[t] = accepted[t]
    BY <2>1, <2>2 DEF AfterRemoveIfCurrent, IsCurrent, Latest
  <2>7. Latest(t)'
    BY <2>3, <2>6 DEF Latest
  <2>8. Inherited(t)'
    BY <2>2, LaneAssumption DEF Inherited
  <2>9. file'[t] # NoCommand => file'[t] = file[t] /\ handled[t][file[t].rev] = 0
    <3>1. file'[t] # NoCommand => file'[t] = file[t] /\ file[t] # batch[t]
      BY <2>1, <2>2, <2>3 DEF AfterRemoveIfCurrent, IsCurrent
    <3>2. ASSUME file[t] # batch[t] PROVE handled[t][file[t].rev] = 0
      <4>1. /\ file[t].rev \in Revisions /\ file[t].rev \in Nat
            /\ batch[t].rev \in Nat /\ delivered[t] = batch[t].rev
        BY <1>t, <1>c, <2>1
      <4>2. file[t].rev = accepted[t] /\ batch[t].rev # accepted[t]
            /\ batch[t].rev <= accepted[t]
        BY <2>1, <3>2 DEF Latest, Inherited
      <4>3. ~(file[t].rev <= delivered[t])
        BY <4>1, <4>2
      <4>. QED
        BY <4>1, <4>3 DEF Once
    <3>. QED
      BY <3>1, <3>2
  <2>10. Once(t)'
    BY <2>2, <2>9 DEF Once
  <2>. QED
    BY <2>4, <2>5, <2>7, <2>8, <2>10
<1>9. ASSUME NEW t \in Targets, RetireFails(t)
      PROVE  IInv'
  <2>. USE <1>9 DEF RetireFails, Defer, Done, gateway
  <2>1. /\ batch[t] \in Command /\ batch[t] # NoCommand
        /\ delivered[t] = batch[t].rev /\ file[t] # NoCommand
    BY <1>t, LaneAssumption DEF Inherited
  <2>2. /\ batch'[t] = NoCommand
        /\ retry'[t] = [expected |-> batch[t], retireOnly |-> TRUE, due |-> FALSE]
    BY DEF TypeOK
  <2>3. [expected |-> batch[t], retireOnly |-> TRUE, due |-> FALSE] \in Retry
    BY <2>1 DEF Retry
  <2>4. TypeOK'
    BY <2>3, LaneAssumption DEF TypeOK
  <2>5. ASSUME NEW u \in Targets, u # t
        PROVE  Latest(u)' /\ Inherited(u)' /\ Once(u)'
    <3>1. Same(u)
      BY <1>t, <2>5, LaneAssumption DEF Same, TypeOK
    <3>. QED
      BY <3>1, <2>4, SameKeeps
  <2>6. Latest(t)'
    BY DEF Latest
  <2>7. Inherited(t)'
    BY <1>t, <2>1, <2>2, LaneAssumption DEF Inherited
  <2>8. batch[t] = file[t] \/ handled[t][file[t].rev] = 0
    BY <1>t, <1>c, <2>1 DEF Latest, Inherited, Once
  <2>9. retry'[t] # NoRetry
    BY <2>2, <2>3, NoRetryAssumption
  <2>10. Once(t)'
    BY <2>2, <2>8, <2>9 DEF Once, Marked
  <2>. QED
    BY <2>4, <2>5, <2>6, <2>7, <2>10
<1>10. ASSUME NEW t \in Targets, RetryDelayElapses(t)
       PROVE  IInv'
  <2>. USE <1>10 DEF RetryDelayElapses, gateway
  <2>1. retry[t] \in Retry /\ retry'[t] = [retry[t] EXCEPT !.due = TRUE]
    BY <1>t DEF TypeOK
  <2>2. /\ retry'[t] \in Retry
        /\ retry'[t].expected = retry[t].expected
        /\ retry'[t].retireOnly = retry[t].retireOnly
    BY <2>1 DEF Retry
  <2>3. TypeOK'
    BY <2>2 DEF TypeOK
  <2>4. ASSUME NEW u \in Targets, u # t
        PROVE  Latest(u)' /\ Inherited(u)' /\ Once(u)'
    <3>1. Same(u)
      BY <1>t, <2>4 DEF Same, TypeOK
    <3>. QED
      BY <3>1, <2>3, SameKeeps
  <2>5. retry'[t] # NoRetry
    BY <2>2, NoRetryAssumption
  <2>6. Latest(t)' /\ Inherited(t)'
    BY <2>2 DEF Latest, Inherited
  <2>7. Once(t)'
    BY <2>2, <2>5 DEF Once, Marked
  <2>. QED
    BY <2>3, <2>4, <2>6, <2>7
<1>11. CASE Crash
  <2>. USE <1>11 DEF Crash, gateway
  <2>1. TypeOK'
    BY LaneAssumption DEF TypeOK, NoCommands
  <2>2. ASSUME NEW t \in Targets PROVE Latest(t)' /\ Inherited(t)' /\ Once(t)'
    <3>1. batch'[t] = NoCommand /\ retry'[t] = NoRetry /\ retiring' # t
          /\ handled'[t] = [r \in Revisions |-> 0]
      BY LaneAssumption DEF NoCommands
    <3>2. file[t] # NoCommand => file[t].rev \in Revisions
      BY <1>t, <1>c
    <3>3. Latest(t)' /\ Inherited(t)'
      BY <3>1 DEF Latest, Inherited
    <3>4. Once(t)'
      BY <3>1, <3>2 DEF Once
    <3>. QED
      BY <3>3, <3>4
  <2>. QED
    BY <2>1, <2>2
<1>12. CASE UNCHANGED vars
  <2>1. TypeOK'
    BY <1>12 DEF vars, TypeOK
  <2>2. \A u \in Targets : Same(u)
    BY <1>12, <1>t DEF vars, Same
  <2>. QED
    BY <2>1, <2>2, SameKeeps
<1>. QED
  BY <1>1, <1>2, <1>3, <1>4, <1>5, <1>6, <1>7, <1>8, <1>9, <1>10, <1>11,
     <1>12 DEF Next, Executor

(***************************************************************************)
(* The safety theorems.  They assume that the wall clock is not set back:  *)
(* the run core_command_clock shows a write lost when it is.               *)
(***************************************************************************)
THEOREM LaneInvariance ==
    ASSUME ClockMaySet = FALSE
    PROVE  Spec => []IInv
<1>1. IInv /\ [Next]_vars => IInv'
  BY NextInv
<1>. QED
  BY <1>1, InitInv, PTL DEF Spec

(* In one life of the core no write is handed to its handler again after   *)
(* the handler returned.                                                   *)
THEOREM NoRepeatTheorem ==
    ASSUME ClockMaySet = FALSE
    PROVE  Spec => []NoRepeatedDispatch
<1>1. IInv => NoRepeatedDispatch
  BY DEF IInv, Once, NoRepeatedDispatch
<1>. QED
  BY <1>1, LaneInvariance, PTL

(* The latest accepted write of every target is pending or was handled. *)
THEOREM LatestWriteTheorem ==
    ASSUME ClockMaySet = FALSE
    PROVE  Spec => []LatestWriteKept
<1>1. IInv => LatestWriteKept
  BY DEF IInv, Latest, LatestWriteKept
<1>. QED
  BY <1>1, LaneInvariance, PTL

(***************************************************************************)
(* The lane implements latest-wins delivery: no delivery goes back to an   *)
(* older write, repeats one within a life of the core or carries out one   *)
(* that was not made, across retries and crashes.                          *)
(***************************************************************************)
THEOREM DeliveryTheorem ==
    ASSUME ClockMaySet = FALSE
    PROVE  Spec => DeliverySpec
<1>1. Init => Delivery!Init
  BY DEF Init, Delivery!Init, Delivery!Fresh
<1>2. ASSUME IInv, [Next]_vars
      PROVE  [Delivery!Next]_(Delivery!vars)
  <2>1. ASSUME NEW t \in Targets, NEW v \in Values, NEW rank \in Ranks,
               GuiWrite(t, v, rank)
        PROVE  Delivery!Request(t)
    <3>1. /\ accepted' = [accepted EXCEPT ![t] = issued + 1]
          /\ delivered' = delivered /\ handled' = handled
      BY <2>1 DEF GuiWrite
    <3>2. accepted'[t] = issued + 1 /\ issued \in Nat /\ accepted[t] \in Nat
          /\ accepted[t] <= issued
      BY <1>2, <3>1, LaneAssumption DEF IInv, TypeOK, Latest
    <3>3. issued + 1 \in Revisions
      BY <2>1, <3>2, LaneAssumption DEF GuiWrite
    <3>4. accepted'[t] \in Revisions /\ accepted'[t] > accepted[t]
      BY <3>2, <3>3
    <3>5. accepted' = [accepted EXCEPT ![t] = accepted'[t]]
      BY <3>1, <3>2
    <3>. QED
      BY <3>1, <3>4, <3>5 DEF Delivery!Request
  <2>2. ASSUME NEW t \in Targets, Dispatch(t)
        PROVE  Delivery!Deliver(t)
    <3>1. /\ batch[t] \in Command /\ batch[t] # NoCommand
          /\ delivered' = [delivered EXCEPT ![t] = batch[t].rev]
          /\ handled' = [handled EXCEPT ![t][batch[t].rev] = @ + 1]
          /\ accepted' = accepted
      BY <1>2, <2>2 DEF Dispatch, MayDispatch, IsNext, Loaded, IInv, TypeOK, gateway
    <3>2. batch[t].rev \in Revisions
      BY <3>1 DEF Command
    <3>3. delivered[t] <= batch[t].rev /\ batch[t].rev <= accepted[t]
      BY <1>2, <3>1 DEF IInv, Inherited
    <3>4. handled[t][batch[t].rev] = 0
      <4>1. retiring = NoTarget /\ retiring # t
        BY <2>2, LaneAssumption DEF Dispatch, MayDispatch, IsNext
      <4>2. ~Marked(t, batch[t])
        BY <2>2 DEF Dispatch, MayDispatch, Matching, Marked
      <4>. QED
        BY <1>2, <3>1, <4>1, <4>2 DEF IInv, Once
    <3>5. handled' = [handled EXCEPT ![t][batch[t].rev] = 1]
      BY <3>1, <3>2, <3>4, <1>2 DEF IInv, TypeOK
    <3>. QED
      BY <3>1, <3>2, <3>3, <3>4, <3>5 DEF Delivery!Deliver
  <2>3. ASSUME Crash PROVE Delivery!Restart
    BY <2>3 DEF Crash, gateway, Delivery!Restart, Delivery!Fresh
  <2>4. CASE UNCHANGED <<accepted, delivered, handled>>
    BY <2>4 DEF Delivery!vars
  <2>. QED
    BY <1>2, <2>1, <2>2, <2>3, <2>4
       DEF Next, vars, Executor, SetClock, Poll, SkipWaiting, RetireOnly,
           DispatchFails, Retire, RetireFails, RetryDelayElapses,
           gateway, Delivery!Next
<1>. QED
  BY <1>1, <1>2, LaneInvariance, PTL DEF Spec, DeliverySpec, Delivery!Spec
=============================================================================
