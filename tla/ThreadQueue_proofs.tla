-------------------------- MODULE ThreadQueue_proofs --------------------------
(***************************************************************************)
(* Proofs about ThreadQueue: no call is left with nobody to take it, and   *)
(* what happens is what happens in two queues.                             *)
(***************************************************************************)
EXTENDS ThreadQueue, FiniteSetTheorems, SequenceTheorems, TLAPS

-----------------------------------------------------------------------------
(* What a step of a worker does to the set of workers on their way.        *)
LEMMA AwakeFacts ==
  ASSUME NEW t \in Thread, NEW w \in {"waiting", "awake", "running"},
         pc \in [Thread -> {"waiting", "awake", "running"}], pc' = [pc EXCEPT ![t] = w]
  PROVE  /\ Cardinality(Awake) \in Nat /\ Cardinality(Awake') \in Nat
         /\ w = "awake" /\ pc[t] # "awake" => Cardinality(Awake') = Cardinality(Awake) + 1
         /\ w # "awake" /\ pc[t] = "awake" => Cardinality(Awake') = Cardinality(Awake) - 1
<1>1. IsFiniteSet(Awake) /\ IsFiniteSet(Awake')
  BY ThreadAssumption, FS_Subset DEF Awake
<1>2. Cardinality(Awake) \in Nat /\ Cardinality(Awake') \in Nat
  BY <1>1, FS_CardinalityType
<1>3. ASSUME w = "awake", pc[t] # "awake"
      PROVE  Cardinality(Awake') = Cardinality(Awake) + 1
  <2>1. Awake' = Awake \cup {t} /\ t \notin Awake
    BY <1>3 DEF Awake
  <2> QED
    BY <1>1, <2>1, FS_AddElement
<1>4. ASSUME w # "awake", pc[t] = "awake"
      PROVE  Cardinality(Awake') = Cardinality(Awake) - 1
  <2>1. Awake' = Awake \ {t} /\ t \in Awake
    BY <1>4 DEF Awake
  <2> QED
    BY <1>1, <2>1, FS_RemoveElement
<1> QED
  BY <1>2, <1>3, <1>4

(* Taking the first of the calls.                                          *)
LEMMA TailFacts ==
  ASSUME NEW s \in Seq(Nat), s # <<>>
  PROVE  /\ Head(s) \in Nat /\ Head(s) = s[1]
         /\ Tail(s) \in Seq(Nat)
         /\ Len(s) \in Nat \ {0} /\ Len(Tail(s)) = Len(s) - 1
         /\ \A k \in 1 .. Len(Tail(s)) : Tail(s)[k] = s[k + 1]
  OBVIOUS

LEMMA AppendFacts ==
  ASSUME NEW s \in Seq(Nat), NEW e \in Nat
  PROVE  /\ Append(s, e) \in Seq(Nat)
         /\ Len(s) \in Nat /\ Len(Append(s, e)) = Len(s) + 1
         /\ \A k \in 1 .. Len(s) : Append(s, e)[k] = s[k]
         /\ Append(s, e)[Len(s) + 1] = e
  OBVIOUS

(* What is left of a list after the first k elements, when one is added    *)
(* and when one more is left out.                                          *)
LEMMA RestFacts ==
  ASSUME NEW s \in Seq(Nat), NEW k \in 0 .. Len(s)
  PROVE  /\ \A e \in Nat : SubSeq(Append(s, e), k + 1, Len(Append(s, e)))
                             = Append(SubSeq(s, k + 1, Len(s)), e)
         /\ k < Len(s) => /\ SubSeq(s, k + 1, Len(s)) # <<>>
                          /\ Tail(SubSeq(s, k + 1, Len(s))) = SubSeq(s, k + 2, Len(s))
<1> DEFINE rest == SubSeq(s, k + 1, Len(s))
<1>0. Len(s) \in Nat /\ k \in Nat
  OBVIOUS
<1>1. rest \in Seq(Nat) /\ (k < Len(s) => Len(rest) = Len(s) - k)
  BY <1>0, SubSeqProperties, ElementOfSeq
<1>2. ASSUME NEW e \in Nat
      PROVE  SubSeq(Append(s, e), k + 1, Len(Append(s, e))) = Append(rest, e)
  <2> DEFINE a == Append(s, e)
  <2>1. /\ a \in Seq(Nat) /\ Len(a) = Len(s) + 1 /\ a[Len(s) + 1] = e /\ a = s \o <<e>>
    BY AppendFacts, AppendIsConcat
  <2> HIDE DEF a
  <2>2. SubSeq(a, k + 1, Len(a)) = SubSeq(a, k + 1, Len(a) - 1) \o <<a[Len(a)]>>
    <3>1. k + 1 \in 1 .. Len(a) /\ Len(a) \in (k + 1) .. Len(a)
      BY <1>0, <2>1
    <3> QED
      BY <2>1, <3>1, SubSeqRecursiveSecond
  <2>3. SubSeq(a, k + 1, Len(s)) = rest
    <3>1. CASE k < Len(s)
      <4>1. k + 1 \in 1 .. Len(s) /\ Len(s) \in 1 .. Len(s) /\ <<e>> \in Seq(Nat)
        BY <1>0, <3>1
      <4> QED
        BY <2>1, <4>1, SubSeqOfConcat1
    <3>2. CASE k = Len(s)
      BY <1>0, <3>2, SubSeqEmpty
    <3> QED
      BY <1>0, <3>1, <3>2
  <2>4. SubSeq(a, k + 1, Len(a)) = rest \o <<e>>
    <3>1. Len(a) - 1 = Len(s) /\ a[Len(a)] = e
      BY <1>0, <2>1
    <3> HIDE DEF rest
    <3> QED
      BY <2>2, <2>3, <3>1
  <2> HIDE DEF rest
  <2>5. Append(rest, e) = rest \o <<e>>
    BY <1>1, AppendIsConcat
  <2> QED
    BY <2>4, <2>5 DEF a
<1>3. ASSUME k < Len(s)
      PROVE  rest # <<>> /\ Tail(rest) = SubSeq(s, k + 2, Len(s))
  <2>1. k + 1 \in 1 .. Len(s) /\ Len(s) \in k + 1 .. Len(s) /\ (k + 1) + 1 = k + 2
    BY <1>0, <1>3
  <2>2. Tail(rest) = SubSeq(s, k + 2, Len(s))
    BY <2>1, HeadTailOfSubSeq
  <2>3. Len(rest) # 0
    BY <1>0, <1>1, <1>3
  <2> HIDE DEF rest
  <2>4. rest # <<>>
    BY <2>3
  <2> QED
    BY <2>2, <2>4
<1> QED
  BY <1>2, <1>3

-----------------------------------------------------------------------------
(* The state before the first call.                                        *)
LEMMA IInvInit == Init => IInv
<1> SUFFICES ASSUME Init PROVE IInv
  OBVIOUS
<1> USE BoundsAssumption
<1>1. TypeOK
  <2>1. mThreadCalls \in Seq(Nat) /\ mResponseCalls \in Seq(Nat)
    BY DEF Init
  <2>2. Len(mResponseCalls) = 0
    BY DEF Init
  <2>3. pc \in [Thread -> {"waiting", "awake", "running"}] /\ call \in [Thread -> Nat]
    BY DEF Init
  <2>4. /\ i \in 0 .. Len(mResponseCalls) /\ mSemaphore \in Nat
        /\ posted \in 0 .. MaxCalls /\ responded \in 0 .. MaxResponses
    BY <2>2 DEF Init
  <2>5. main \in {"idle", "loop", "clear"} /\ owes \in BOOLEAN
    BY DEF Init
  <2> QED
    BY <2>1, <2>3, <2>4, <2>5 DEF TypeOK
<1>2. Len(mThreadCalls) = 0 /\ mSemaphore = 0 /\ Count(owes) = 0 /\ posted = 0
  BY DEF Init, Count
<1>3. Running = {} /\ Awake = {} /\ Cardinality(Awake) = 0
  BY FS_EmptySet DEF Init, Running, Awake
<1>4. ClearedAreDispatched
  BY DEF Init, ClearedAreDispatched
<1>5. NoLostWakeup /\ CountsArePosts /\ CallsInOrder
  BY <1>2, <1>3 DEF NoLostWakeup, CountsArePosts, CallsInOrder
<1> QED
  BY <1>1, <1>4, <1>5 DEF IInv

(* The main thread posts a call and then increments: the call is owed its  *)
(* count in between, and the count cannot be at its maximum.               *)
LEMMA PostKeepsIInv ==
  ASSUME IInv, PostCall \/ Increment
  PROVE  IInv'
<1> USE BoundsAssumption, MaximumCountAssumption
<1>0. /\ Len(mThreadCalls) \in Nat /\ mSemaphore \in Nat /\ posted \in 0 .. MaxCalls
      /\ Cardinality(Awake) \in Nat /\ owes \in BOOLEAN
  <2>1. IsFiniteSet(Awake)
    BY ThreadAssumption, FS_Subset DEF Awake
  <2> QED
    BY <2>1, FS_CardinalityType DEF IInv, TypeOK
<1>1. Awake' = Awake /\ Running' = Running /\ call' = call /\ pc' = pc
  BY DEF PostCall, Increment, Awake, Running
<1>4. ClearedAreDispatched'
  BY DEF IInv, ClearedAreDispatched, PostCall, Increment
<1>2. CASE PostCall
  <2>1. /\ posted' = posted + 1 /\ posted' \in 0 .. MaxCalls
        /\ mThreadCalls' = Append(mThreadCalls, posted')
        /\ owes = FALSE /\ owes' = TRUE /\ mSemaphore' = mSemaphore
    BY <1>0, <1>2 DEF PostCall
  <2>2. /\ mThreadCalls' \in Seq(Nat) /\ Len(mThreadCalls') = Len(mThreadCalls) + 1
        /\ \A k \in 1 .. Len(mThreadCalls) : mThreadCalls'[k] = mThreadCalls[k]
        /\ mThreadCalls'[Len(mThreadCalls) + 1] = posted'
    BY <1>0, <2>1, AppendFacts DEF IInv, TypeOK
  <2>3. Count(owes) = 0 /\ Count(owes') = 1
    BY <2>1 DEF Count
  <2>4. TypeOK'
    BY <1>1, <1>2, <2>1, <2>2 DEF IInv, TypeOK, PostCall
  <2>5. NoLostWakeup' /\ CountsArePosts'
    BY <1>0, <1>1, <2>1, <2>2, <2>3 DEF IInv, NoLostWakeup, CountsArePosts
  <2>6. posted' - Len(mThreadCalls') = posted - Len(mThreadCalls)
    BY <1>0, <2>1, <2>2
  <2>7. \A k \in 1 .. Len(mThreadCalls') :
          mThreadCalls'[k] = posted - Len(mThreadCalls) + k
    <3>1. \A k \in 1 .. Len(mThreadCalls) :
            mThreadCalls'[k] = posted - Len(mThreadCalls) + k
      BY <2>2 DEF IInv, CallsInOrder
    <3>2. mThreadCalls'[Len(mThreadCalls) + 1]
            = posted - Len(mThreadCalls) + (Len(mThreadCalls) + 1)
      BY <1>0, <2>1, <2>2
    <3>3. \A k \in 1 .. Len(mThreadCalls') :
            k \in 1 .. Len(mThreadCalls) \/ k = Len(mThreadCalls) + 1
      BY <1>0, <2>2
    <3> QED
      BY <3>1, <3>2, <3>3
  <2>8. CallsInOrder'
    BY <1>1, <2>6, <2>7 DEF IInv, CallsInOrder
  <2> QED
    BY <1>4, <2>4, <2>5, <2>8 DEF IInv
<1>3. CASE Increment
  <2>1. /\ owes = TRUE /\ owes' = FALSE /\ mSemaphore' = Incremented(mSemaphore)
        /\ posted' = posted /\ mThreadCalls' = mThreadCalls
    BY <1>3 DEF Increment, counts, IInv, TypeOK
  <2>2. Count(owes) = 1 /\ Count(owes') = 0
    BY <2>1 DEF Count
  <2>3. mSemaphore' = mSemaphore + 1
    BY <1>0, <2>1, <2>2 DEF IInv, CountsArePosts, Incremented
  <2>4. TypeOK'
    <3>1. /\ mResponseCalls' = mResponseCalls /\ main' = main /\ i' = i
          /\ responded' = responded
      BY <1>3 DEF Increment, counts
    <3>2. owes' \in BOOLEAN
      BY <2>1, <3>1 DEF IInv, TypeOK
    <3> QED
      BY <1>0, <1>1, <2>1, <2>3, <3>1, <3>2 DEF IInv, TypeOK
  <2>5. NoLostWakeup' /\ CountsArePosts'
    BY <1>0, <1>1, <2>1, <2>2, <2>3 DEF IInv, NoLostWakeup, CountsArePosts
  <2>6. CallsInOrder'
    BY <1>1, <2>1 DEF IInv, CallsInOrder
  <2> QED
    BY <1>4, <2>4, <2>5, <2>6 DEF IInv
<1> QED
  BY <1>2, <1>3

(* A worker passes on what it was woken for: a count becomes a worker on   *)
(* its way, and that takes a call or finds none.                           *)
LEMMA WorkerKeepsIInv ==
  ASSUME IInv, NEW t \in Thread,
         Wait(t) \/ Interrupted(t) \/ TakeCall(t) \/ Respond(t) \/ Finish(t)
  PROVE  IInv'
<1> USE BoundsAssumption
<1> DEFINE States == {"waiting", "awake", "running"}
<1>0. /\ Len(mThreadCalls) \in Nat /\ mSemaphore \in Nat /\ posted \in 0 .. MaxCalls
      /\ owes \in BOOLEAN /\ pc \in [Thread -> States] /\ call \in [Thread -> Nat]
      /\ mThreadCalls \in Seq(Nat) /\ Count(owes) \in {0, 1}
  BY DEF IInv, TypeOK, Count
<1>1. ClearedAreDispatched'
  BY DEF IInv, ClearedAreDispatched, Wait, Interrupted, TakeCall, Respond, Finish,
         WorkerMayLock
<1>2. CASE Wait(t) \/ Interrupted(t)
  <2>1. /\ pc[t] = "waiting" /\ pc' = [pc EXCEPT ![t] = "awake"]
        /\ mThreadCalls' = mThreadCalls /\ posted' = posted /\ owes' = owes /\ call' = call
    BY <1>2 DEF Wait, Interrupted, counts
  <2>2. Cardinality(Awake') = Cardinality(Awake) + 1 /\ Cardinality(Awake) \in Nat
    BY <1>0, <2>1, AwakeFacts
  <2>3. mSemaphore' \in {mSemaphore, mSemaphore - 1} /\ mSemaphore' \in Nat
    BY <1>0, <1>2 DEF Wait, Interrupted
  <2>4. TypeOK'
    BY <1>0, <1>2, <2>1, <2>3 DEF IInv, TypeOK, Wait, Interrupted, counts
  <2>5. NoLostWakeup' /\ CountsArePosts'
    BY <1>0, <2>1, <2>2, <2>3 DEF IInv, NoLostWakeup, CountsArePosts
  <2>6. Running' = Running
    BY <1>0, <2>1 DEF Running
  <2>7. CallsInOrder'
    BY <2>1, <2>6 DEF IInv, CallsInOrder
  <2> QED
    BY <1>1, <2>4, <2>5, <2>7 DEF IInv
<1>3. CASE TakeCall(t)
  <2>0. /\ pc[t] = "awake" /\ mSemaphore' = mSemaphore /\ owes' = owes /\ posted' = posted
        /\ mResponseCalls' = mResponseCalls /\ main' = main /\ i' = i
        /\ responded' = responded
    BY <1>3 DEF TakeCall, counts
  <2>1. CASE mThreadCalls = <<>>
    <3>1. /\ pc' = [pc EXCEPT ![t] = "waiting"] /\ mThreadCalls' = mThreadCalls
          /\ call' = call
      BY <1>3, <2>1 DEF TakeCall
    <3>2. Running' = Running
      BY <1>0, <2>0, <3>1 DEF Running
    <3>3. NoLostWakeup'
      <4>1. Cardinality(Awake') \in Nat
        BY <1>0, <3>1, AwakeFacts
      <4>2. Len(mThreadCalls') = 0
        BY <2>1, <3>1
      <4> QED
        BY <1>0, <2>0, <4>1, <4>2 DEF NoLostWakeup
    <3>4. TypeOK' /\ CountsArePosts' /\ CallsInOrder'
      BY <1>0, <2>0, <3>1, <3>2 DEF IInv, TypeOK, CountsArePosts, CallsInOrder
    <3> QED
      BY <1>1, <3>3, <3>4 DEF IInv
  <2>2. CASE mThreadCalls # <<>>
    <3>1. /\ pc' = [pc EXCEPT ![t] = "running"]
          /\ call' = [call EXCEPT ![t] = Head(mThreadCalls)]
          /\ mThreadCalls' = Tail(mThreadCalls)
      BY <1>3, <2>2 DEF TakeCall
    <3>2. /\ Head(mThreadCalls) \in Nat /\ Head(mThreadCalls) = mThreadCalls[1]
          /\ mThreadCalls' \in Seq(Nat)
          /\ Len(mThreadCalls) \in Nat \ {0} /\ Len(mThreadCalls') = Len(mThreadCalls) - 1
          /\ \A k \in 1 .. Len(mThreadCalls') : mThreadCalls'[k] = mThreadCalls[k + 1]
      BY <1>0, <2>2, <3>1, TailFacts
    <3>3. Cardinality(Awake') = Cardinality(Awake) - 1 /\ Cardinality(Awake) \in Nat
      BY <1>0, <2>0, <3>1, AwakeFacts
    <3>4. TypeOK'
      BY <1>0, <2>0, <3>1, <3>2 DEF IInv, TypeOK
    <3>5. NoLostWakeup' /\ CountsArePosts'
      BY <1>0, <2>0, <3>2, <3>3 DEF IInv, NoLostWakeup, CountsArePosts
    <3>6. CallsInOrder'
      <4> DEFINE taken == posted - Len(mThreadCalls)
      <4>1. /\ taken \in Nat
            /\ \A k \in 1 .. Len(mThreadCalls) : mThreadCalls[k] = taken + k
            /\ \A u \in Running : call[u] <= taken
            /\ \A u, v \in Running : call[u] = call[v] => u = v
        BY <1>0 DEF IInv, CallsInOrder
      <4>2. (posted - Len(mThreadCalls))' = taken + 1
        BY <1>0, <2>0, <3>2
      <4>3. Head(mThreadCalls) = taken + 1
        BY <3>2, <4>1
      <4>4. Running' = Running \cup {t} /\ t \notin Running
        BY <1>0, <2>0, <3>1 DEF Running
      <4>5. /\ call'[t] = taken + 1
            /\ \A u \in Running : call'[u] = call[u] /\ call[u] \in Nat
        BY <1>0, <3>1, <4>3, <4>4 DEF Running
      <4>6. \A k \in 1 .. Len(mThreadCalls') : mThreadCalls'[k] = taken + 1 + k
        BY <1>0, <3>2, <4>1
      <4>7. \A u \in Running' : call'[u] <= taken + 1
        BY <4>1, <4>4, <4>5
      <4>8. \A u, v \in Running' : call'[u] = call'[v] => u = v
        BY <4>1, <4>4, <4>5
      <4> HIDE DEF taken
      <4> QED
        BY <4>1, <4>2, <4>6, <4>7, <4>8 DEF CallsInOrder
    <3> QED
      BY <1>1, <3>4, <3>5, <3>6 DEF IInv
  <2> QED
    BY <2>1, <2>2
<1>4. CASE Respond(t)
  <2>1. /\ pc' = pc /\ call' = call /\ mThreadCalls' = mThreadCalls
        /\ mSemaphore' = mSemaphore /\ owes' = owes /\ posted' = posted
        /\ Awake' = Awake /\ Running' = Running
    BY <1>4 DEF Respond, Awake, Running
  <2>2. /\ mResponseCalls' \in Seq(Nat) /\ Len(mResponseCalls') = Len(mResponseCalls) + 1
        /\ Len(mResponseCalls) \in Nat /\ responded' \in 0 .. MaxResponses
        /\ main' = main /\ i' = i
    BY <1>4, AppendFacts DEF Respond, IInv, TypeOK
  <2>3. TypeOK'
    BY <2>1, <2>2 DEF IInv, TypeOK
  <2>4. NoLostWakeup' /\ CountsArePosts' /\ CallsInOrder'
    BY <2>1 DEF IInv, NoLostWakeup, CountsArePosts, CallsInOrder
  <2> QED
    BY <1>1, <2>3, <2>4 DEF IInv
<1>5. CASE Finish(t)
  <2>1. /\ pc[t] = "running" /\ pc' = [pc EXCEPT ![t] = "waiting"]
        /\ call' = [call EXCEPT ![t] = 0]
        /\ mThreadCalls' = mThreadCalls /\ posted' = posted /\ owes' = owes
        /\ mSemaphore' = mSemaphore /\ mResponseCalls' = mResponseCalls
        /\ main' = main /\ i' = i /\ responded' = responded
    BY <1>5 DEF Finish, counts
  <2>2. Awake' = Awake
    BY <1>0, <2>1 DEF Awake
  <2>3. Running' \subseteq Running /\ \A u \in Running' : call'[u] = call[u]
    BY <1>0, <2>1 DEF Running
  <2>4. TypeOK'
    BY <1>0, <2>1 DEF IInv, TypeOK
  <2>5. NoLostWakeup' /\ CountsArePosts'
    BY <2>1, <2>2 DEF IInv, NoLostWakeup, CountsArePosts
  <2>6. CallsInOrder'
    BY <2>1, <2>3 DEF IInv, CallsInOrder
  <2> QED
    BY <1>1, <2>4, <2>5, <2>6 DEF IInv
<1> QED
  BY <1>2, <1>3, <1>4, <1>5

(* dispatchResponseCalls keeps to the responses.                           *)
LEMMA MainKeepsIInv ==
  ASSUME IInv, StartResponses \/ DispatchResponse \/ EndLoop \/ ClearResponses
  PROVE  IInv'
<1>1. /\ mThreadCalls' = mThreadCalls /\ mSemaphore' = mSemaphore /\ owes' = owes
      /\ posted' = posted /\ responded' = responded /\ pc' = pc /\ call' = call
      /\ Awake' = Awake /\ Running' = Running
  BY DEF StartResponses, DispatchResponse, EndLoop, ClearResponses, counts, Awake,
         Running
<1>2. /\ mResponseCalls' \in Seq(Nat) /\ i' \in 0 .. Len(mResponseCalls')
      /\ ClearedAreDispatched'
  <2>1. mResponseCalls \in Seq(Nat) /\ Len(mResponseCalls) \in Nat
        /\ i \in 0 .. Len(mResponseCalls)
    BY DEF IInv, TypeOK
  <2>2. CASE StartResponses
    BY <2>1, <2>2 DEF StartResponses, ClearedAreDispatched
  <2>3. CASE DispatchResponse
    BY <2>1, <2>3 DEF DispatchResponse, ClearedAreDispatched
  <2>4. CASE EndLoop
    BY <2>1, <2>4 DEF EndLoop, ClearedAreDispatched
  <2>5. CASE ClearResponses
    <3>1. <<>> \in Seq(Nat) /\ Len(<<>>) = 0
      OBVIOUS
    <3> QED
      BY <2>5, <3>1 DEF ClearResponses, ClearedAreDispatched
  <2> QED
    BY <2>2, <2>3, <2>4, <2>5
<1>3. main' \in {"idle", "loop", "clear"}
  BY DEF IInv, TypeOK, StartResponses, DispatchResponse, EndLoop, ClearResponses
<1>4. TypeOK'
  BY <1>1, <1>2, <1>3 DEF IInv, TypeOK
<1>5. NoLostWakeup' /\ CountsArePosts' /\ CallsInOrder'
  BY <1>1 DEF IInv, NoLostWakeup, CountsArePosts, CallsInOrder
<1> QED
  BY <1>2, <1>4, <1>5 DEF IInv

LEMMA NextKeepsIInv == IInv /\ [Next]_vars => IInv'
<1> SUFFICES ASSUME IInv, [Next]_vars PROVE IInv'
  OBVIOUS
<1>1. CASE PostCall \/ Increment
  BY <1>1, PostKeepsIInv
<1>2. CASE \E t \in Thread :
             Wait(t) \/ Interrupted(t) \/ TakeCall(t) \/ Respond(t) \/ Finish(t)
  BY <1>2, WorkerKeepsIInv
<1>3. CASE StartResponses \/ DispatchResponse \/ EndLoop \/ ClearResponses
  BY <1>3, MainKeepsIInv
<1>4. CASE UNCHANGED vars
  BY <1>4 DEF vars, counts, IInv, TypeOK, NoLostWakeup, CountsArePosts,
              CallsInOrder, ClearedAreDispatched, Awake, Running
<1> QED
  BY <1>1, <1>2, <1>3, <1>4 DEF Next

(* The inductive invariant.                                                *)
THEOREM Invariant == Spec => []IInv
<1> QED
  BY IInvInit, NextKeepsIInv, PTL DEF Spec

(* For any number of workers and calls there is somebody on the way for    *)
(* every call in the list.                                                 *)
THEOREM EveryCallIsAwaited == Spec => []NoLostWakeup
<1>1. IInv => NoLostWakeup
  BY DEF IInv
<1> QED
  BY <1>1, Invariant, PTL

-----------------------------------------------------------------------------
(* A step of the workers or of the main thread is a step of the queues.    *)
LEMMA QueuesInit == Init => Queues!Init
<1> SUFFICES ASSUME Init PROVE Queues!Init
  OBVIOUS
<1>1. Running = {}
  BY DEF Init, Running
<1>2. Responses = <<>>
  BY SubSeqEmpty DEF Init, Responses
<1> QED
  BY <1>1, <1>2 DEF Init, Queues!Init

(* Steps that touch neither the lists nor the set of running calls.        *)
LEMMA QuietSteps ==
  ASSUME IInv, NEW t, Increment \/ Wait(t) \/ Interrupted(t) \/ StartResponses
  PROVE  UNCHANGED Queues!vars
<1>1. Running' = Running /\ call' = call
  BY DEF IInv, TypeOK, Running, Increment, Wait, Interrupted, StartResponses
<1>2. /\ mThreadCalls' = mThreadCalls /\ mResponseCalls' = mResponseCalls /\ i' = i
      /\ posted' = posted /\ responded' = responded
  BY DEF IInv, ClearedAreDispatched, Increment, Wait, Interrupted, StartResponses, counts
<1> QED
  BY <1>1, <1>2 DEF Queues!vars, Responses

LEMMA QueueSteps ==
  ASSUME IInv, NEW t,
         PostCall \/ (t \in Thread /\ (TakeCall(t) \/ Finish(t)))
  PROVE  [Queues!Next]_(Queues!vars)
<1>1. Responses' = Responses /\ mResponseCalls' = mResponseCalls /\ responded' = responded
  BY DEF PostCall, TakeCall, Finish, Responses, counts
<1>2. pc \in [Thread -> {"waiting", "awake", "running"}] /\ call \in [Thread -> Nat]
  BY DEF IInv, TypeOK
<1>3. CASE PostCall
  <2>1. Running' = Running /\ call' = call
    BY <1>3 DEF PostCall, Running
  <2>2. Queues!Post
    BY <1>1, <1>3, <2>1 DEF PostCall, Queues!Post
  <2> QED
    BY <2>2 DEF Queues!Next
<1>4. CASE t \in Thread /\ TakeCall(t) /\ mThreadCalls = <<>>
  <2>1. /\ pc[t] = "awake" /\ pc' = [pc EXCEPT ![t] = "waiting"] /\ call' = call
        /\ mThreadCalls' = mThreadCalls /\ posted' = posted
    BY <1>4 DEF TakeCall, counts
  <2>2. Running' = Running
    BY <1>2, <1>4, <2>1 DEF Running
  <2> QED
    BY <1>1, <2>1, <2>2 DEF Queues!vars
<1>5. CASE t \in Thread /\ TakeCall(t) /\ mThreadCalls # <<>>
  <2>1. /\ pc[t] = "awake" /\ pc' = [pc EXCEPT ![t] = "running"]
        /\ call' = [call EXCEPT ![t] = Head(mThreadCalls)]
        /\ mThreadCalls' = Tail(mThreadCalls) /\ posted' = posted
    BY <1>5 DEF TakeCall, counts
  <2>2. Running' = Running \cup {t} /\ t \notin Running
    BY <1>2, <1>5, <2>1 DEF Running
  <2>3. \A u \in Running : call'[u] = call[u]
    BY <1>2, <1>5, <2>1, <2>2 DEF Running
  <2>4. call'[t] = Head(mThreadCalls)
    BY <1>2, <1>5, <2>1
  <2>5. {call'[u] : u \in Running'} = {call[u] : u \in Running} \cup {Head(mThreadCalls)}
    BY <2>2, <2>3, <2>4
  <2>6. Queues!Take
    BY <1>1, <1>5, <2>1, <2>5 DEF Queues!Take
  <2> QED
    BY <2>6 DEF Queues!Next
<1>6. CASE t \in Thread /\ Finish(t)
  <2>1. /\ pc[t] = "running" /\ pc' = [pc EXCEPT ![t] = "waiting"]
        /\ call' = [call EXCEPT ![t] = 0]
        /\ mThreadCalls' = mThreadCalls /\ posted' = posted
    BY <1>6 DEF Finish, counts
  <2>2. Running' = Running \ {t} /\ t \in Running
    BY <1>2, <1>6, <2>1 DEF Running
  <2>3. \A u \in Running' : call'[u] = call[u]
    BY <1>2, <1>6, <2>1, <2>2 DEF Running
  <2>4. \A u \in Running : call[u] = call[t] => u = t
    BY <2>2 DEF IInv, CallsInOrder
  <2>5. {call'[u] : u \in Running'} = {call[u] : u \in Running} \ {call[t]}
    BY <2>2, <2>3, <2>4
  <2>6. call[t] \in {call[u] : u \in Running}
    BY <2>2
  <2>7. Queues!Finish
    BY <1>1, <2>1, <2>5, <2>6 DEF Queues!Finish
  <2> QED
    BY <2>7 DEF Queues!Next
<1> QED
  BY <1>3, <1>4, <1>5, <1>6

LEMMA ResponseSteps ==
  ASSUME IInv, NEW t,
         (t \in Thread /\ Respond(t)) \/ DispatchResponse \/ EndLoop \/ ClearResponses
  PROVE  [Queues!Next]_(Queues!vars)
<1>1. /\ mThreadCalls' = mThreadCalls /\ posted' = posted
      /\ Running' = Running /\ call' = call
  BY DEF Respond, DispatchResponse, EndLoop, ClearResponses, Running, counts
<1>2. /\ mResponseCalls \in Seq(Nat) /\ Len(mResponseCalls) \in Nat
      /\ i \in 0 .. Len(mResponseCalls) /\ responded \in Nat
  BY BoundsAssumption DEF IInv, TypeOK
<1>3. CASE t \in Thread /\ Respond(t)
  <2>1. /\ responded < MaxResponses /\ responded' = responded + 1 /\ i' = i
        /\ mResponseCalls' = Append(mResponseCalls, responded')
    BY <1>3 DEF Respond
  <2>2. Responses' = Append(Responses, responded')
    <3>1. /\ Responses = SubSeq(mResponseCalls, i + 1, Len(mResponseCalls))
          /\ Responses' = SubSeq(mResponseCalls', i + 1, Len(mResponseCalls'))
      BY <2>1 DEF Responses
    <3>2. responded' \in Nat
      BY <1>2, <2>1
    <3> QED
      BY <1>2, <2>1, <3>1, <3>2, RestFacts
  <2>3. {call[u] : u \in Running} # {}
    BY <1>3 DEF Respond, Running
  <2>4. Queues!Respond
    BY <1>1, <2>1, <2>2, <2>3 DEF Queues!Respond
  <2> QED
    BY <2>4 DEF Queues!Next
<1>4. CASE DispatchResponse
  <2>1. /\ i < Len(mResponseCalls) /\ i' = i + 1
        /\ mResponseCalls' = mResponseCalls /\ responded' = responded
    BY <1>4 DEF DispatchResponse, counts
  <2>2. Responses' = Tail(Responses) /\ Responses # <<>>
    <3>1. /\ Responses = SubSeq(mResponseCalls, i + 1, Len(mResponseCalls))
          /\ Responses' = SubSeq(mResponseCalls, i + 2, Len(mResponseCalls))
      BY <1>2, <2>1 DEF Responses
    <3> QED
      BY <1>2, <2>1, <3>1, RestFacts
  <2>3. Queues!Dispatch
    BY <1>1, <2>1, <2>2 DEF Queues!Dispatch
  <2> QED
    BY <2>3 DEF Queues!Next
<1>5. CASE EndLoop
  <2>1. Responses' = Responses /\ responded' = responded
    BY <1>5 DEF EndLoop, Responses, counts
  <2> QED
    BY <1>1, <2>1 DEF Queues!vars
<1>6. CASE ClearResponses
  <2>1. /\ i = Len(mResponseCalls) /\ mResponseCalls' = <<>> /\ i' = 0
        /\ responded' = responded
    BY <1>6 DEF ClearResponses, IInv, ClearedAreDispatched, counts
  <2>2. Responses = <<>>
    BY <1>2, <2>1, SubSeqEmpty DEF Responses
  <2>3. Responses' = <<>>
    BY <2>1, SubSeqEmpty DEF Responses
  <2> QED
    BY <1>1, <2>1, <2>2, <2>3 DEF Queues!vars
<1> QED
  BY <1>3, <1>4, <1>5, <1>6

LEMMA QueuesNext == IInv /\ [Next]_vars => [Queues!Next]_(Queues!vars)
<1> SUFFICES ASSUME IInv, [Next]_vars PROVE [Queues!Next]_(Queues!vars)
  OBVIOUS
<1>1. CASE \/ PostCall \/ Increment
           \/ StartResponses \/ DispatchResponse \/ EndLoop \/ ClearResponses
  BY <1>1, QuietSteps, QueueSteps, ResponseSteps
<1>2. CASE \E t \in Thread :
             Wait(t) \/ Interrupted(t) \/ TakeCall(t) \/ Respond(t) \/ Finish(t)
  BY <1>2, QuietSteps, QueueSteps, ResponseSteps
<1>3. CASE UNCHANGED vars
  BY <1>3 DEF vars, counts, Queues!vars, Responses, Running
<1> QED
  BY <1>1, <1>2, <1>3 DEF Next

(* Whatever workers, semaphore, lock and main thread do is what two queues *)
(* that lose nothing and keep their order do.                              *)
THEOREM QueuesAreRefined == Spec => Queues!Spec
<1> QED
  BY Invariant, QueuesInit, QueuesNext, PTL DEF Spec, Queues!Spec
=============================================================================
