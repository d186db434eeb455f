-------------------------- MODULE WebhookIntake_proofs --------------------------
(***************************************************************************)
(* Proofs about WebhookIntake, for any number of events, overlapping       *)
(* posts, repetitions, errors and crashes.                                 *)
(***************************************************************************)
EXTENDS WebhookIntake, TLAPS

PostState == [pc : {"idle", "lookup", "record", "dispatch", "run"},
              e  : StripeEvent \cup {NoEvent}]

Holding == {"dispatch", "run"}

\* A post being served has an event; one that holds it for its handler has recorded
\* it itself, and nobody has handled it; until "run" it was not even called.
PostOK(x) == /\ x.pc # "idle" => x.e \in StripeEvent
             /\ x.pc \in Holding => x.e \in processed /\ x.e \notin handled
             /\ x.pc = "dispatch" => calls[x.e] = 0
             /\ x.pc = "run" => calls[x.e] > 0

PostsOK == \A d \in Post : PostOK(post[d])

\* The unique index: of all the posts of an event one gets as far as the handler.
OneHolder == \A c, d \in Post :
    post[c].pc \in Holding /\ post[d].pc \in Holding /\ post[c].e = post[d].e => c = d

\* What was called, handled or acknowledged was recorded first.
RecordedFirst == /\ \A e \in StripeEvent : calls[e] > 0 => e \in processed
                 /\ handled \cup acked \subseteq processed
                 /\ \A e \in handled : calls[e] > 0

IInv == TypeOK /\ PostsOK /\ OneHolder /\ RecordedFirst /\ HandlerAtMostOnce

-----------------------------------------------------------------------------
LEMMA IdleOK == Idle \in PostState /\ Idle.pc = "idle" /\ Idle.pc \notin Holding
  BY DEF Idle, PostState, Holding

\* One post moves to where it holds no event, perhaps having handled the one it held.
LEMMA OnePost ==
    ASSUME IInv, NEW d \in Post, NEW x \in PostState, x.pc \notin Holding,
           x.pc # "idle" => x.e \in StripeEvent,
           post' = [post EXCEPT ![d] = x],
           \/ UNCHANGED handled
           \/ post[d].pc = "run" /\ calls[post[d].e] > 0 /\ handled' = handled \cup {post[d].e},
           processed = processed', acked' \subseteq processed, UNCHANGED calls
    PROVE  /\ post' \in [Post -> PostState] /\ PostsOK' /\ OneHolder'
           /\ RecordedFirst' /\ HandlerAtMostOnce'
  <1>1. post \in [Post -> PostState]
    BY DEF IInv, TypeOK, PostState
  <1>2. /\ post' \in [Post -> PostState] /\ post'[d] = x
        /\ \A c \in Post \ {d} : post'[c] = post[c]
    BY <1>1
  <1>3. PostsOK'
    <2>1. ASSUME NEW c \in Post PROVE PostOK(post[c])'
      <3>1. CASE c = d
        BY <1>2, <3>1 DEF PostOK, Holding
      <3>2. CASE c # d
        <4>1. post[c].pc \in Holding => post[c].e \notin handled'
          BY <3>2 DEF IInv, PostsOK, PostOK, OneHolder, Holding
        <4> QED
          BY <1>2, <3>2, <4>1 DEF IInv, PostsOK, PostOK
      <3> QED
        BY <3>1, <3>2
    <2> QED
      BY <2>1 DEF PostsOK
  <1>4. OneHolder'
    BY <1>2 DEF IInv, OneHolder
  <1>5. RecordedFirst' /\ HandlerAtMostOnce'
    <2>1. handled' \subseteq processed' /\ \A e \in handled' : calls'[e] > 0
      BY DEF IInv, RecordedFirst, PostsOK, PostOK, Holding
    <2> QED
      BY <2>1 DEF IInv, RecordedFirst, HandlerAtMostOnce
  <1> QED
    BY <1>2, <1>3, <1>4, <1>5

LEMMA IInvInit == Init => IInv
  BY IntakeAssumption
     DEF Init, Idle, IInv, TypeOK, PostsOK, PostOK, OneHolder, RecordedFirst,
         HandlerAtMostOnce, Holding

LEMMA IInvNext == IInv /\ [Next]_vars => IInv'
  <1> SUFFICES ASSUME IInv, [Next]_vars
               PROVE  IInv'
    OBVIOUS
  <1>0. post \in [Post -> PostState] /\ handled \cup acked \subseteq processed
    BY DEF IInv, TypeOK, PostState, RecordedFirst
  <1>1. ASSUME NEW d \in Post, NEW e \in StripeEvent, Deliver(d, e)
        PROVE  IInv'
    <2> DEFINE x == [pc |-> "lookup", e |-> e]
    <2>1. x \in PostState /\ x.pc \notin Holding /\ x.e = e
      BY DEF PostState, Holding
    <2>2. /\ post' = [post EXCEPT ![d] = x]
          /\ UNCHANGED <<processed, acked, calls, handled, faults>>
      BY <1>1 DEF Deliver
    <2>3. repeats' \in 0 .. MaxRepeat
      BY <1>1, IntakeAssumption DEF Deliver, IInv, TypeOK
    <2> HIDE DEF x
    <2>4. /\ post' \in [Post -> PostState] /\ PostsOK' /\ OneHolder'
          /\ RecordedFirst' /\ HandlerAtMostOnce'
      BY <1>0, <2>1, <2>2, OnePost
    <2> QED
      BY <2>2, <2>3, <2>4 DEF IInv, TypeOK, PostState
  <1>2. ASSUME NEW d \in Post, Lookup(d)
        PROVE  IInv'
    <2>1. post[d].e \in StripeEvent /\ post[d].pc = "lookup"
      BY <1>2 DEF Lookup, IInv, PostsOK, PostOK
    <2>2. CASE Answer(d) /\ acked' = acked \cup {post[d].e}
      <3>1. post[d].e \in processed
        BY <1>0, <1>2, <2>1, <2>2, IdleOK DEF Lookup, Answer, Goto
      <3> QED
        BY <1>0, <1>2, <2>1, <2>2, <3>1, IdleOK, OnePost
           DEF Lookup, Answer, IInv, TypeOK, PostState
    <2>3. CASE Goto(d, "record") /\ UNCHANGED acked
      <3> DEFINE x == [post[d] EXCEPT !.pc = "record"]
      <3>1. x \in PostState /\ x.pc \notin Holding /\ x.e = post[d].e
        BY <1>0 DEF PostState, Holding
      <3>2. post' = [post EXCEPT ![d] = x]
        BY <2>3 DEF Goto
      <3> HIDE DEF x
      <3> QED
        BY <1>0, <1>2, <2>1, <2>3, <3>1, <3>2, OnePost DEF Lookup, IInv, TypeOK, PostState
    <2> QED
      BY <1>2, <2>2, <2>3 DEF Lookup
  <1>3. ASSUME NEW d \in Post, Record(d)
        PROVE  IInv'
    <2> DEFINE e == post[d].e
    <2>1. e \in StripeEvent
      BY <1>3 DEF Record, IInv, PostsOK, PostOK
    <2>2. CASE e \in processed
      BY <1>0, <1>3, <2>1, <2>2, IdleOK, OnePost DEF Record, Answer, IInv, TypeOK, PostState
    <2>3. CASE e \notin processed
      <3> DEFINE x == [post[d] EXCEPT !.pc = "dispatch"]
      <3>1. x \in PostState /\ x.pc = "dispatch" /\ x.e = e
        BY <1>0 DEF PostState
      <3>2. post' = [post EXCEPT ![d] = x]
        BY <1>3, <2>3 DEF Record, Goto
      <3>3. /\ processed' = processed \cup {e}
            /\ UNCHANGED <<acked, calls, handled, repeats, faults>>
        BY <1>3, <2>3 DEF Record
      <3> HIDE DEF x
      <3>4. calls[e] = 0 /\ e \notin handled
        BY <1>0, <2>1, <2>3 DEF IInv, TypeOK, RecordedFirst
      <3>5. ASSUME NEW c \in Post, c # d
            PROVE  post'[c] = post[c] /\ (post[c].pc \in Holding => post[c].e # e)
        BY <1>0, <2>3, <3>2, <3>5 DEF IInv, PostsOK, PostOK
      <3>6. post'[d] = x /\ post' \in [Post -> PostState]
        BY <1>0, <3>1, <3>2
      <3>7. PostsOK'
        BY <2>1, <3>1, <3>3, <3>4, <3>5, <3>6 DEF IInv, PostsOK, PostOK, Holding
      <3>8. OneHolder'
        BY <3>1, <3>5, <3>6 DEF IInv, OneHolder, Holding
      <3>9. RecordedFirst' /\ HandlerAtMostOnce' /\ TypeOK'
        BY <1>0, <2>1, <3>3, <3>6
           DEF IInv, TypeOK, PostState, RecordedFirst, HandlerAtMostOnce
      <3> QED
        BY <3>7, <3>8, <3>9 DEF IInv
    <2> QED
      BY <2>2, <2>3
  <1>4. ASSUME NEW d \in Post, Dispatch(d)
        PROVE  IInv'
    <2> DEFINE e == post[d].e
    <2> DEFINE x == [post[d] EXCEPT !.pc = "run"]
    <2>1. /\ e \in StripeEvent /\ e \in processed /\ e \notin handled /\ calls[e] = 0
          /\ post[d].pc = "dispatch"
      BY <1>4 DEF Dispatch, IInv, PostsOK, PostOK, Holding
    <2>2. x \in PostState /\ x.pc = "run" /\ x.e = e
      BY <1>0 DEF PostState
    <2>3. /\ post' = [post EXCEPT ![d] = x]
          /\ calls' = [calls EXCEPT ![e] = @ + 1]
          /\ UNCHANGED <<processed, acked, handled, repeats, faults>>
      BY <1>4 DEF Dispatch, Goto
    <2> HIDE DEF x
    <2>4. calls \in [StripeEvent -> Nat]
      BY DEF IInv, TypeOK
    <2>5. /\ calls' \in [StripeEvent -> Nat] /\ calls'[e] = 1
          /\ \A f \in StripeEvent \ {e} : calls'[f] = calls[f]
      BY <2>1, <2>3, <2>4
    <2>6. /\ post' \in [Post -> PostState] /\ post'[d] = x
          /\ \A c \in Post \ {d} : post'[c] = post[c]
      BY <1>0, <2>2, <2>3
    <2>7. \A c \in Post \ {d} : post[c].pc \in Holding => post[c].e # e
      BY <2>1 DEF IInv, OneHolder, Holding
    <2>8. PostsOK'
      <3>1. ASSUME NEW c \in Post PROVE PostOK(post[c])'
        <4>1. CASE c = d
          BY <2>1, <2>2, <2>3, <2>5, <2>6, <4>1 DEF PostOK, Holding
        <4>2. CASE c # d
          BY <2>3, <2>5, <2>6, <2>7, <4>2 DEF IInv, PostsOK, PostOK, Holding
        <4> QED
          BY <4>1, <4>2
      <3> QED
        BY <3>1 DEF PostsOK
    <2>9. OneHolder'
      BY <2>1, <2>2, <2>6, <2>7 DEF IInv, OneHolder
    <2>10. RecordedFirst' /\ HandlerAtMostOnce'
      BY <1>0, <2>1, <2>3, <2>5 DEF IInv, RecordedFirst, HandlerAtMostOnce
    <2> QED
      BY <2>3, <2>5, <2>6, <2>8, <2>9, <2>10 DEF IInv, TypeOK, PostState
  <1>5. ASSUME NEW d \in Post, HandlerReturns(d)
        PROVE  IInv'
    <2>1. post[d].e \in StripeEvent /\ post[d].e \in processed /\ post[d].pc = "run"
      BY <1>5 DEF HandlerReturns, IInv, PostsOK, PostOK, Holding
    <2>2. calls[post[d].e] > 0
      BY <2>1 DEF IInv, PostsOK, PostOK
    <2>3. /\ post' = [post EXCEPT ![d] = Idle] /\ handled' = handled \cup {post[d].e}
          /\ acked' = acked \cup {post[d].e}
          /\ UNCHANGED <<processed, calls, repeats, faults>>
      BY <1>5 DEF HandlerReturns, Answer
    <2>4. /\ post' \in [Post -> PostState] /\ PostsOK' /\ OneHolder'
          /\ RecordedFirst' /\ HandlerAtMostOnce'
      BY <1>0, <2>1, <2>2, <2>3, IdleOK, OnePost
    <2> QED
      BY <2>1, <2>3, <2>4 DEF IInv, TypeOK, PostState
  <1>6. ASSUME NEW d \in Post, Throws(d)
        PROVE  IInv'
    <2>1. faults' \in 0 .. MaxFault
      BY <1>6, IntakeAssumption DEF Throws, Fault, IInv, TypeOK
    <2> QED
      BY <1>0, <1>6, <2>1, IdleOK, OnePost DEF Throws, Answer, IInv, TypeOK, PostState
  <1>7. CASE Crash
    <2>1. faults' \in 0 .. MaxFault
      BY <1>7, IntakeAssumption DEF Crash, Fault, IInv, TypeOK
    <2>2. /\ post' \in [Post -> PostState]
          /\ \A d \in Post : post'[d].pc = "idle" /\ post'[d].pc \notin Holding
      BY <1>7, IdleOK DEF Crash
    <2> QED
      BY <1>7, <2>1, <2>2
         DEF Crash, IInv, TypeOK, PostState, PostsOK, PostOK, OneHolder,
             RecordedFirst, HandlerAtMostOnce
  <1>8. CASE UNCHANGED vars
    BY <1>8 DEF vars, IInv, TypeOK, PostsOK, PostOK, OneHolder, RecordedFirst,
                HandlerAtMostOnce
  <1> QED
    BY <1>1, <1>2, <1>3, <1>4, <1>5, <1>6, <1>7, <1>8 DEF Next, Serve

THEOREM Invariance == Spec => []IInv
  BY IInvInit, IInvNext, PTL DEF Spec

-----------------------------------------------------------------------------
\* However posts of an event overlap, repeat, fail or are cut off by a crash of
\* the process, its handler is called at most once.
THEOREM AtMostOnce == Spec => []HandlerAtMostOnce
  <1>1. IInv => HandlerAtMostOnce
    BY DEF IInv
  <1> QED
    BY <1>1, Invariance, PTL

\* The types of WebhookIntake hold in every reachable state.
THEOREM TypeCorrect == Spec => []TypeOK
  <1>1. IInv => TypeOK
    BY DEF IInv
  <1> QED
    BY <1>1, Invariance, PTL

-----------------------------------------------------------------------------
(* Without faults nothing is lost.                                         *)

InHand(e) == \/ e \in handled
             \/ \E d \in Post : post[d].e = e /\ post[d].pc \in {"dispatch", "run"}

\* What is recorded, hence what may be acknowledged as a duplicate, is in hand.
KeptInv == faults = 0 => \A e \in processed \cup acked : InHand(e)

\* A post moves on: what was in hand stays, unless it was in the hands of this post.
LEMMA HandsOn ==
    ASSUME IInv, NEW d \in Post, NEW x \in PostState, post' = [post EXCEPT ![d] = x],
           handled \subseteq handled', NEW e, InHand(e),
           \/ post[d].pc \notin {"dispatch", "run"}
           \/ post[d].e \in handled'
           \/ x.e = post[d].e /\ x.pc \in {"dispatch", "run"}
    PROVE  InHand(e)'
  <1>1. post \in [Post -> PostState]
    BY DEF IInv, TypeOK, PostState
  <1>2. post'[d] = x /\ \A c \in Post \ {d} : post'[c] = post[c]
    BY <1>1
  <1> QED
    BY <1>2 DEF InHand

LEMMA KeptNext == ASSUME IInv, KeptInv, [Next]_vars PROVE KeptInv'
  <1> SUFFICES ASSUME faults' = 0
               PROVE  \A e \in processed' \cup acked' : InHand(e)'
    BY DEF KeptInv
  <1>0. faults = 0 /\ ~Crash /\ \A d \in Post : ~Throws(d)
    BY DEF Next, Serve, Lookup, Record, Dispatch, HandlerReturns, Throws, Crash, Fault,
           Deliver, vars, IInv, TypeOK
  <1>1. \A e \in processed \cup acked : InHand(e)
    BY <1>0 DEF KeptInv
  <1>2. post \in [Post -> PostState]
    BY DEF IInv, TypeOK, PostState
  <1>3. ASSUME NEW d \in Post, NEW e \in StripeEvent, Deliver(d, e)
        PROVE  \A f \in processed' \cup acked' : InHand(f)'
    <2>1. [pc |-> "lookup", e |-> e] \in PostState
      BY DEF PostState
    <2> QED
      BY <1>1, <1>3, <2>1, HandsOn DEF Deliver
  <1>4. ASSUME NEW d \in Post, Lookup(d)
        PROVE  \A f \in processed' \cup acked' : InHand(f)'
    <2>1. [post[d] EXCEPT !.pc = "record"] \in PostState
      BY <1>2 DEF PostState
    <2> QED
      BY <1>1, <1>4, <2>1, IdleOK, HandsOn DEF Lookup, Goto, Answer
  <1>5. ASSUME NEW d \in Post, Record(d)
        PROVE  \A f \in processed' \cup acked' : InHand(f)'
    <2>1. CASE post[d].e \in processed
      BY <1>1, <1>5, <2>1, IdleOK, HandsOn DEF Record, Answer
    <2>2. CASE post[d].e \notin processed
      <3> DEFINE x == [post[d] EXCEPT !.pc = "dispatch"]
      <3>1. x \in PostState /\ x.pc = "dispatch" /\ x.e = post[d].e
        BY <1>2 DEF PostState
      <3>2. post' = [post EXCEPT ![d] = x]
        BY <1>5, <2>2 DEF Record, Goto
      <3> HIDE DEF x
      <3>3. \A f \in processed \cup acked : InHand(f)'
        BY <1>1, <1>5, <3>1, <3>2, HandsOn DEF Record
      <3>4. PICK e : e = post[d].e
        OBVIOUS
      <3>5. InHand(e)'
        BY <1>2, <3>1, <3>2, <3>4 DEF InHand
      <3> QED
        BY <1>5, <2>2, <3>3, <3>4, <3>5 DEF Record
    <2> QED
      BY <2>1, <2>2
  <1>6. ASSUME NEW d \in Post, Dispatch(d)
        PROVE  \A f \in processed' \cup acked' : InHand(f)'
    <2> DEFINE x == [post[d] EXCEPT !.pc = "run"]
    <2>1. x \in PostState /\ x.pc = "run" /\ x.e = post[d].e
      BY <1>2 DEF PostState
    <2>2. post' = [post EXCEPT ![d] = x]
      BY <1>6 DEF Dispatch, Goto
    <2> HIDE DEF x
    <2> QED
      BY <1>1, <1>6, <2>1, <2>2, HandsOn DEF Dispatch
  <1>7. ASSUME NEW d \in Post, HandlerReturns(d)
        PROVE  \A f \in processed' \cup acked' : InHand(f)'
    <2>1. \A f \in processed \cup acked : InHand(f)'
      BY <1>1, <1>7, IdleOK, HandsOn DEF HandlerReturns, Answer
    <2>2. PICK e : e = post[d].e
      OBVIOUS
    <2>3. InHand(e)'
      BY <1>7, <2>2 DEF HandlerReturns, InHand
    <2> QED
      BY <1>7, <2>1, <2>2, <2>3 DEF HandlerReturns
  <1>8. CASE UNCHANGED vars
    BY <1>1, <1>8 DEF vars, InHand
  <1> QED
    BY <1>0, <1>3, <1>4, <1>5, <1>6, <1>7, <1>8 DEF Next, Serve

\* As long as nothing fails, an event that Stripe was told is done has been handled or
\* is being handled, however its posts overlap and repeat.
THEOREM NothingLost == Spec => []LostOnlyByFault
  <1>1. Init => KeptInv
    BY DEF Init, KeptInv
  <1>2. KeptInv => LostOnlyByFault
    BY DEF KeptInv, LostOnlyByFault, InHand
  <1> QED
    BY <1>1, <1>2, KeptNext, Invariance, PTL DEF Spec

-----------------------------------------------------------------------------
(* The intake implements WebhookDispatch.                                  *)

\* An event's stage read off the post that holds it, or off the tables when none does.
StageByHolder == \A e \in StripeEvent :
    /\ \A d \in Post : post[d].e = e /\ post[d].pc = "dispatch" => Stage[e] = "accepted"
    /\ \A d \in Post : post[d].e = e /\ post[d].pc = "run" => Stage[e] = "running"
    /\ (\A d \in Post : post[d].pc \in Holding => post[d].e # e)
       => Stage[e] = IF e \notin processed THEN "new"
                     ELSE IF e \in handled THEN "done" ELSE "lost"

LEMMA StageNow == IInv => StageByHolder
  <1> SUFFICES ASSUME IInv, NEW e \in StripeEvent
               PROVE  StageByHolder!(e)
    BY DEF StageByHolder
  <1>1. \A d \in Post : post[d].e = e /\ post[d].pc = "dispatch" => Stage[e] = "accepted"
    BY DEF IInv, PostsOK, PostOK, Holding, Stage, InHandsAt
  <1>2. \A d \in Post : post[d].e = e /\ post[d].pc = "run" => Stage[e] = "running"
    BY DEF IInv, PostsOK, PostOK, OneHolder, Holding, Stage, InHandsAt
  <1> QED
    BY <1>1, <1>2 DEF Holding, Stage, InHandsAt

LEMMA StageThen == IInv' => StageByHolder'
  BY StageNow, PTL

\* A step of one post leaves alone what it neither held, nor holds, nor records, nor handles.
LEMMA OthersStay ==
    ASSUME IInv, NEW d \in Post, NEW x \in PostState, post' = [post EXCEPT ![d] = x],
           NEW e \in StripeEvent,
           post[d].pc \notin Holding \/ post[d].e # e, x.pc \notin Holding \/ x.e # e,
           e \in processed' <=> e \in processed, e \in handled' <=> e \in handled
    PROVE  Stage'[e] = Stage[e]
  <1>1. post'[d] = x /\ \A c \in Post \ {d} : post'[c] = post[c]
    BY DEF IInv, TypeOK
  <1>2. ASSUME NEW pc \in Holding PROVE InHandsAt(e, pc)' <=> InHandsAt(e, pc)
    BY <1>1 DEF InHandsAt
  <1> QED
    BY <1>2 DEF Stage, Holding

\* Every behaviour of the intake is one of the dispatcher: the handlers may be modelled
\* (as in Payments) without the intake in front of them, each event run at most once, and
\* what Stripe is told follows the records.
THEOREM Refinement == Spec => Implements
  <1>1. Init => Dispatcher!Init
    BY DEF Init, Dispatcher!Init, Stage
  <1>2. IInv /\ IInv' /\ [Next]_vars => [Dispatcher!Next]_<<Stage, acked>>
    <2> SUFFICES ASSUME IInv, IInv', [Next]_vars
                 PROVE  Dispatcher!Next \/ UNCHANGED <<Stage, acked>>
      OBVIOUS
    <2>0. /\ post \in [Post -> PostState] /\ StageByHolder /\ StageByHolder'
          /\ Stage = [e \in StripeEvent |-> Stage[e]] /\ Stage' = [e \in StripeEvent |-> Stage'[e]]
      BY StageNow, StageThen DEF IInv, TypeOK, PostState, Stage
    <2> DEFINE Still == \A e \in StripeEvent : Stage'[e] = Stage[e]
               Moved(e, from, to) == /\ e \in StripeEvent /\ Stage[e] = from /\ Stage'[e] = to
                                     /\ \A f \in StripeEvent \ {e} : Stage'[f] = Stage[f]
    <2>a. Still => UNCHANGED Stage
      BY <2>0, Zenon
    <2>b. ASSUME NEW e, NEW from, NEW to, Moved(e, from, to)
          PROVE  e \in StripeEvent /\ Dispatcher!Moves(e, from, to)
      <3>1. Stage' = [Stage EXCEPT ![e] = to]
        BY <2>0, <2>b
      <3> QED
        BY <2>b, <3>1 DEF Dispatcher!Moves
    <2>1. ASSUME NEW d \in Post, NEW e \in StripeEvent, Deliver(d, e)
          PROVE  UNCHANGED <<Stage, acked>>
      <3> DEFINE x == [pc |-> "lookup", e |-> e]
      <3>1. x \in PostState /\ x.pc \notin Holding /\ post[d].pc \notin Holding
        BY <2>1 DEF PostState, Holding, Deliver
      <3>2. post' = [post EXCEPT ![d] = x] /\ UNCHANGED <<processed, handled, acked>>
        BY <2>1 DEF Deliver
      <3> HIDE DEF x
      <3> QED
        BY <3>1, <3>2, <2>a, OthersStay
    <2>2. ASSUME NEW d \in Post, Lookup(d)
          PROVE  Dispatcher!Next \/ UNCHANGED <<Stage, acked>>
      <3>0. post[d].pc \notin Holding /\ post[d].e \in StripeEvent /\ UNCHANGED <<processed, handled>>
        BY <2>2 DEF Lookup, Holding, IInv, PostsOK, PostOK
      <3>1. CASE post[d].e \in processed
        <4>1. Still
          BY <2>2, <3>0, <3>1, IdleOK, OthersStay DEF Lookup, Answer, Holding
        <4>2. Stage[post[d].e] # "new"
          BY <3>0, <3>1 DEF Stage
        <4>3. Dispatcher!Acknowledge(post[d].e)
          BY <2>2, <2>a, <3>1, <4>1, <4>2 DEF Lookup, Dispatcher!Acknowledge
        <4> QED
          BY <3>0, <4>3 DEF Dispatcher!Next
      <3>2. CASE post[d].e \notin processed
        <4> DEFINE x == [post[d] EXCEPT !.pc = "record"]
        <4>1. x \in PostState /\ x.pc \notin Holding
          BY <2>0 DEF PostState, Holding
        <4>2. post' = [post EXCEPT ![d] = x] /\ UNCHANGED acked
          BY <2>2, <3>2 DEF Lookup, Goto
        <4> HIDE DEF x
        <4> QED
          BY <2>a, <3>0, <4>1, <4>2, OthersStay
      <3> QED
        BY <3>1, <3>2
    <2>3. ASSUME NEW d \in Post, Record(d)
          PROVE  Dispatcher!Next \/ UNCHANGED <<Stage, acked>>
      <3>0. /\ post[d].pc = "record" /\ post[d].pc \notin Holding
            /\ post[d].e \in StripeEvent /\ UNCHANGED <<acked, handled>>
        BY <2>3 DEF Record, Holding, IInv, PostsOK, PostOK
      <3>1. CASE post[d].e \in processed
        BY <2>3, <2>a, <3>0, <3>1, IdleOK, OthersStay DEF Record, Answer, Holding
      <3>2. CASE post[d].e \notin processed
        <4> DEFINE x == [post[d] EXCEPT !.pc = "dispatch"]
        <4>1. x \in PostState /\ x.pc = "dispatch" /\ x.e = post[d].e
          BY <2>0 DEF PostState
        <4>2. /\ post' = [post EXCEPT ![d] = x] /\ post'[d] = x
              /\ processed' = processed \cup {post[d].e}
          BY <2>0, <2>3, <3>2 DEF Record, Goto
        <4> HIDE DEF x
        <4>3. Stage[post[d].e] = "new"
          BY <3>0, <3>2 DEF Stage
        <4>4. Stage'[post[d].e] = "accepted"
          BY <2>0, <3>0, <4>1, <4>2 DEF StageByHolder
        <4>5. \A f \in StripeEvent \ {post[d].e} : Stage'[f] = Stage[f]
          BY <3>0, <4>1, <4>2, OthersStay
        <4>6. Dispatcher!Accept(post[d].e)
          BY <2>b, <3>0, <4>3, <4>4, <4>5 DEF Dispatcher!Accept
        <4> QED
          BY <3>0, <4>6 DEF Dispatcher!Next
      <3> QED
        BY <3>1, <3>2
    <2>4. ASSUME NEW d \in Post, Dispatch(d)
          PROVE  Dispatcher!Next
      <3> DEFINE x == [post[d] EXCEPT !.pc = "run"]
      <3>0. /\ post[d].pc = "dispatch" /\ post[d].e \in StripeEvent
            /\ UNCHANGED <<acked, processed, handled>>
        BY <2>4 DEF Dispatch, IInv, PostsOK, PostOK
      <3>1. x \in PostState /\ x.pc = "run" /\ x.e = post[d].e
        BY <2>0 DEF PostState
      <3>2. post' = [post EXCEPT ![d] = x] /\ post'[d] = x
        BY <2>0, <2>4 DEF Dispatch, Goto
      <3> HIDE DEF x
      <3>3. Stage[post[d].e] = "accepted" /\ Stage'[post[d].e] = "running"
        BY <2>0, <3>0, <3>1, <3>2 DEF StageByHolder
      <3>4. \A f \in StripeEvent \ {post[d].e} : Stage'[f] = Stage[f]
        BY <3>0, <3>1, <3>2, OthersStay
      <3>5. Dispatcher!Run(post[d].e)
        BY <2>b, <3>0, <3>3, <3>4 DEF Dispatcher!Run
      <3> QED
        BY <3>0, <3>5 DEF Dispatcher!Next
    <2>5. ASSUME NEW d \in Post, HandlerReturns(d)
          PROVE  Dispatcher!Next
      <3>0. /\ post[d].pc = "run" /\ post[d].e \in StripeEvent
            /\ acked' = acked \cup {post[d].e} /\ handled' = handled \cup {post[d].e}
            /\ processed' = processed /\ post[d].e \in processed
            /\ post' = [post EXCEPT ![d] = Idle]
        BY <2>5 DEF HandlerReturns, Answer, IInv, PostsOK, PostOK, Holding
      <3>1. Stage[post[d].e] = "running"
        BY <2>0, <3>0 DEF StageByHolder
      <3>2. Stage'[post[d].e] = "done"
        BY <3>0 DEF Stage
      <3>3. \A f \in StripeEvent \ {post[d].e} : Stage'[f] = Stage[f]
        BY <3>0, IdleOK, OthersStay DEF Holding
      <3>4. Dispatcher!Finish(post[d].e)
        BY <2>b, <3>0, <3>1, <3>2, <3>3 DEF Dispatcher!Finish
      <3> QED
        BY <3>0, <3>4 DEF Dispatcher!Next
    <2>6. ASSUME NEW d \in Post, Throws(d)
          PROVE  Dispatcher!Next \/ UNCHANGED <<Stage, acked>>
      <3>0. /\ post[d].e \in StripeEvent /\ post' = [post EXCEPT ![d] = Idle]
            /\ UNCHANGED <<acked, processed, handled>>
        BY <2>6 DEF Throws, Answer, IInv, PostsOK, PostOK
      <3>1. CASE post[d].pc \notin Holding
        BY <2>a, <3>0, <3>1, IdleOK, OthersStay DEF Holding
      <3>2. CASE post[d].pc \in Holding
        <4>1. post'[d] = Idle /\ \A c \in Post \ {d} : post'[c] = post[c]
          BY <2>0, <3>0
        <4>2. Stage[post[d].e] \in {"accepted", "running"}
          BY <2>0, <3>0, <3>2 DEF StageByHolder, Holding
        <4>3. Stage'[post[d].e] = "lost"
          <5>1. \A c \in Post : post'[c].pc \in Holding => post'[c].e # post[d].e
            BY <3>2, <4>1, IdleOK DEF IInv, OneHolder, Holding
          <5>2. post[d].e \in processed /\ post[d].e \notin handled
            BY <3>2 DEF IInv, PostsOK, PostOK
          <5> QED
            BY <2>0, <3>0, <5>1, <5>2 DEF StageByHolder
        <4>4. \A f \in StripeEvent \ {post[d].e} : Stage'[f] = Stage[f]
          BY <3>0, IdleOK, OthersStay DEF Holding
        <4>5. Stage' = [e \in StripeEvent |-> IF e \in {post[d].e} THEN "lost" ELSE Stage[e]]
          BY <2>0, <4>3, <4>4
        <4>6. Dispatcher!Lose({post[d].e})
          BY <3>0, <4>2, <4>5 DEF Dispatcher!Lose
        <4> QED
          BY <3>0, <4>6 DEF Dispatcher!Next
      <3> QED
        BY <3>1, <3>2
    <2>7. ASSUME Crash
          PROVE  Dispatcher!Next
      <3> DEFINE Held == {e \in StripeEvent : \E d \in Post : post[d].e = e /\ post[d].pc \in Holding}
      <3>1. UNCHANGED <<acked, processed, handled>> /\ \A d \in Post : post'[d].pc \notin Holding
        BY <2>7, IdleOK DEF Crash, Holding
      <3>2. \A e \in Held : /\ Stage[e] \in {"accepted", "running"}
                            /\ e \in processed /\ e \notin handled
        BY <2>0 DEF StageByHolder, Holding, IInv, PostsOK, PostOK
      <3>3. \A e \in StripeEvent : Stage'[e] = IF e \in Held THEN "lost" ELSE Stage[e]
        BY <2>0, <3>1, <3>2 DEF StageByHolder
      <3> HIDE DEF Held
      <3>4. Stage' = [e \in StripeEvent |-> IF e \in Held THEN "lost" ELSE Stage[e]]
        BY <2>0, <3>3
      <3>5. Dispatcher!Lose(Held)
        BY <3>1, <3>2, <3>4 DEF Dispatcher!Lose
      <3>6. Held \in SUBSET StripeEvent
        BY DEF Held
      <3> QED
        BY <3>5, <3>6 DEF Dispatcher!Next
    <2>8. CASE UNCHANGED vars
      BY <2>8 DEF vars, Stage, InHandsAt
    <2> QED
      BY <2>1, <2>2, <2>3, <2>4, <2>5, <2>6, <2>7, <2>8 DEF Next, Serve
  <1> QED
    BY <1>1, <1>2, Invariance, PTL DEF Spec, Implements, Dispatcher!Spec, Dispatcher!vars
=============================================================================
