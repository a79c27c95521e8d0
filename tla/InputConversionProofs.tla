------------------------- MODULE InputConversionProofs -------------------------
(***************************************************************************)
(* For every heap: the path of the conversion is that of the collections   *)
(* in progress, each holds the values of the members it has passed, and    *)
(* what the conversion ends with is the meaning of the payload.            *)
(***************************************************************************)
EXTENDS ConversionMeaning, SequenceLemmas

IsSeq(s) == s \in Seq(ToSet(s))
Sequences == IsSeq(frames) /\ IsSeq(path) /\ \A i \in 1..Len(frames) : IsSeq(frames[i].parts)
OneOf == error = None \/ focus = None

IInv == TypeOK /\ PathMirrorsStack /\ PartsAreMembers /\ Sequences /\ OneOf

LEMMA EmptyIsSeq ==
  ASSUME NEW s, s = <<>>
  PROVE  IsSeq(s) /\ Len(s) = 0
BY DEF ToSet, IsSeq

LEMMA InitIInv == Init => IInv
<1> SUFFICES ASSUME Init PROVE IInv  OBVIOUS
<1>1. /\ payload \in Payloads /\ mode \in Modes
      /\ focus = {} /\ error = {} /\ outcome = {} /\ frames = <<>> /\ path = <<>>
  BY DEF Init, None
<1>2. Sequences /\ Len(frames) = 0 /\ Len(path) = 0
  BY <1>1, EmptyIsSeq DEF Sequences
<1> QED  BY <1>1, <1>2, HeapAssumption
         DEF IInv, TypeOK, PathMirrorsStack, PartsAreMembers, Waiting, OneOf, None

\* Once it has an outcome, the conversion is over: what holds of the paths and
\* parts before is no longer claimed.
LEMMA EndKeeps == ASSUME IInv, NEW o, End(o) PROVE IInv'
<1>1. outcome' # None /\ UNCHANGED <<payload, mode, focus, frames, path, error>>
  BY DEF End, Some, None
<1> QED  BY <1>1 DEF IInv, TypeOK, PathMirrorsStack, PartsAreMembers, Sequences, OneOf

\* A collection that waits for its member.
Waits(f) == IsFrame(f) /\ IsSeq(f.parts) /\ Len(f.parts) = f.taken - 1

\* A value is given to the innermost of the collections that wait.
LEMMA ReturnKeeps ==
  ASSUME IInv, outcome = None, error = None, NEW value, NEW below, Return(value, below),
         IsSeq(below), Len(below) <= NativeDepth, Len(path) = Len(below),
         \A i \in 1..Len(below) : Waits(below[i]) /\ path[i] = SegmentOf(below[i])
  PROVE  IInv'
<1>1. focus' = {} /\ error' = {} /\ payload' = payload /\ mode' = mode
  BY DEF Return, None
<1>2. CASE below = <<>>
  <2>1. frames' = <<>> /\ path' = path /\ outcome' # None
    BY <1>2 DEF Return, None, Some
  <2>2. IsSeq(frames') /\ Len(frames') = 0 /\ NativeDepth \in Nat
    BY <2>1, EmptyIsSeq, HeapAssumption
  <2>3. TypeOK'
    BY <1>1, <2>1, <2>2 DEF IInv, TypeOK
  <2> QED  BY <1>1, <2>1, <2>2, <2>3
           DEF IInv, PathMirrorsStack, PartsAreMembers, Sequences, OneOf, None
<1>3. CASE below # <<>>
  <2> DEFINE n == Len(below)
             f == below[n]
             g == [f EXCEPT !.parts = Append(@, value)]
             s == [below EXCEPT ![n] = g]
  <2>1. frames' = s /\ path' = Front(path) /\ outcome' = None
    BY <1>3 DEF Return
  <2>2. /\ n \in Nat \ {0} /\ IsSeq(s) /\ s # <<>> /\ Len(s) = n
        /\ s[n] = g /\ Last(s) = g
        /\ \A i \in 1..(n - 1) : s[i] = below[i]
    <3> HIDE DEF g
    <3>1. below \in Seq(ToSet(below)) /\ below # <<>>
      BY <1>3 DEF IsSeq
    <3>2. ReplacesLast(s, below, g)
      BY <3>1, ReplacedLast
    <3> HIDE DEF s
    <3> QED  BY <3>2 DEF ReplacesLast, IsSeq
  <2>3. Waits(f) /\ path # <<>>
    BY <2>2, EmptyIsSeq
  <2>4. /\ g.object = f.object /\ g.taken = f.taken /\ DOMAIN g = DOMAIN f
        /\ IsSeq(g.parts) /\ Len(g.parts) = g.taken
    <3>1. /\ g.object = f.object /\ g.taken = f.taken /\ DOMAIN g = DOMAIN f
          /\ g.parts = Append(f.parts, value) /\ f.taken \in Nat
      BY <2>3, LenProperties DEF Waits, IsFrame
    <3>2. IsSeq(Append(f.parts, value)) /\ Len(Append(f.parts, value)) = Len(f.parts) + 1
      BY <2>3, Pushed DEF Waits, IsSeq
    <3> QED  BY <2>3, <3>1, <3>2 DEF Waits
  <2>5. IsFrame(g)
    BY <2>3, <2>4 DEF Waits, IsFrame
  <2>6. /\ IsSeq(path') /\ Len(path') = n - 1
        /\ \A i \in 1..(n - 1) : path'[i] = path[i]
    BY <2>1, <2>2, <2>3, Popped DEF IInv, Sequences, IsSeq
  <2> HIDE DEF g, f, s, n
  <2>7. \A i \in 1..n : IsFrame(s[i]) /\ IsSeq(s[i].parts)
    <3> TAKE i \in 1..n
    <3>1. CASE i = n
      BY <2>2, <2>4, <2>5, <3>1
    <3>2. CASE i # n
      <4>1. i \in 1..(n - 1) /\ i \in 1..Len(below)
        BY <2>2, <3>2 DEF n
      <4> QED  BY <2>2, <4>1 DEF Waits
    <3> QED  BY <3>1, <3>2
  <2>8. \A i \in 1..(n - 1) : Waits(s[i]) /\ path'[i] = SegmentOf(s[i])
    <3> TAKE i \in 1..(n - 1)
    <3>1. i \in 1..Len(below)
      BY <2>2 DEF n
    <3> QED  BY <2>2, <2>6, <3>1
  <2>9. Waiting' = n - 1
    BY <1>1, <2>1, <2>2 DEF Waiting, None
  <2>10. TypeOK'
    BY <1>1, <2>1, <2>2, <2>7 DEF IInv, TypeOK, n
  <2>11. PathMirrorsStack'
    BY <2>1, <2>2, <2>6, <2>8, <2>9 DEF PathMirrorsStack
  <2>12. PartsAreMembers'
    <3> SUFFICES ASSUME NEW i \in 1..n
                 PROVE  Len(s[i].parts) = s[i].taken - (IF i <= n - 1 THEN 1 ELSE 0)
      BY <2>1, <2>2, <2>9 DEF PartsAreMembers
    <3>1. CASE i = n
      <4>1. g.taken \in Nat
        BY <2>5, LenProperties DEF IsFrame
      <4> QED  BY <2>2, <2>4, <3>1, <4>1
    <3>2. CASE i # n
      BY <2>2, <2>8, <3>2 DEF Waits
    <3> QED  BY <3>1, <3>2
  <2> QED  BY <1>1, <2>1, <2>2, <2>6, <2>7, <2>10, <2>11, <2>12 DEF IInv, Sequences, OneOf, None
<1> QED  BY <1>2, <1>3

-----------------------------------------------------------------------------
\* What is known while an object is converted...
LEMMA OnObject ==
  ASSUME IInv, outcome = None, focus # None
  PROVE  /\ error = None /\ IsSeq(frames) /\ Len(frames) \in Nat
         /\ Len(frames) <= NativeDepth /\ Len(path) = Len(frames)
         /\ \A i \in 1..Len(frames) : Waits(frames[i]) /\ path[i] = SegmentOf(frames[i])
<1>1. error = None /\ Waiting = Len(frames) /\ IsSeq(frames)
  BY DEF IInv, OneOf, Waiting, Sequences
<1>2. Len(frames) \in Nat
  BY <1>1, LenProperties DEF IsSeq
<1>3. Len(path) = Len(frames) /\ \A i \in 1..Len(frames) : path[i] = SegmentOf(frames[i])
  BY <1>1 DEF IInv, PathMirrorsStack
<1>4. \A i \in 1..Len(frames) : Len(frames[i].parts) = frames[i].taken - 1
  BY <1>1, <1>2 DEF IInv, PartsAreMembers
<1>5. \A i \in 1..Len(frames) : Waits(frames[i])
  BY <1>4 DEF IInv, TypeOK, Sequences, Waits
<1> QED  BY <1>1, <1>2, <1>3, <1>5 DEF IInv, TypeOK

\* ...and in the loop over the members of a collection.
LEMMA InLoop ==
  ASSUME IInv, NEW kind, InCollection(kind)
  PROVE  /\ outcome = None /\ error = None /\ focus = None /\ frames # <<>>
         /\ Len(frames) \in Nat \ {0} /\ Len(frames) <= NativeDepth
         /\ Top = frames[Len(frames)] /\ IsFrame(Top) /\ IsSeq(Top.parts)
         /\ Object.kind = kind /\ Len(Top.parts) = Top.taken
         /\ Len(path) = Len(frames) - 1
         /\ \A i \in 1..(Len(frames) - 1) : Waits(frames[i]) /\ path[i] = SegmentOf(frames[i])
         /\ IsSeq(Front(frames)) /\ Len(Front(frames)) = Len(frames) - 1
         /\ \A i \in 1..(Len(frames) - 1) : Front(frames)[i] = frames[i]
<1>1. outcome = None /\ error = None /\ focus = None /\ frames # <<>> /\ Object.kind = kind
  BY DEF InCollection
<1>2. /\ Len(frames) \in Nat \ {0} /\ Top = frames[Len(frames)]
      /\ IsSeq(Front(frames)) /\ Len(Front(frames)) = Len(frames) - 1
      /\ \A i \in 1..(Len(frames) - 1) : Front(frames)[i] = frames[i]
  BY <1>1, Popped DEF IInv, Sequences, IsSeq, Top
<1>3. Waiting = Len(frames) - 1
  BY <1>1 DEF Waiting
<1>4. Len(path) = Len(frames) - 1 /\ \A i \in 1..(Len(frames) - 1) : path[i] = SegmentOf(frames[i])
  BY <1>1, <1>3 DEF IInv, PathMirrorsStack
<1>5. IsFrame(Top) /\ IsSeq(Top.parts)
  BY <1>2 DEF IInv, TypeOK, Sequences
<1>6. Len(Top.parts) = Top.taken
  <2>1. Len(Top.parts) = Top.taken - 0
    BY <1>1, <1>2, <1>3 DEF IInv, PartsAreMembers
  <2> QED  BY <1>5, <2>1, LenProperties DEF IsFrame
<1>7. \A i \in 1..(Len(frames) - 1) : Waits(frames[i])
  <2> TAKE i \in 1..(Len(frames) - 1)
  <2>1. i \in 1..Len(frames) /\ i <= Waiting
    BY <1>2, <1>3
  <2>2. Len(frames[i].parts) = frames[i].taken - 1
    BY <1>1, <2>1 DEF IInv, PartsAreMembers
  <2> QED  BY <2>1, <2>2 DEF IInv, TypeOK, Sequences, Waits
<1> QED  BY <1>1, <1>2, <1>4, <1>5, <1>6, <1>7 DEF IInv, TypeOK

LEMMA ConvertScalarKeeps == ASSUME IInv, ConvertScalar PROVE IInv'
<1>1. PICK x \in focus : outcome = None /\ Return(ScalarOf(Heap[x]), frames)
  BY DEF ConvertScalar
<1>2. focus # None
  BY DEF ConvertScalar, None
<1> QED  BY <1>1, <1>2, OnObject, ReturnKeeps

LEMMA OpenCollectionKeeps == ASSUME IInv, OpenCollection PROVE IInv'
<1>1. PICK x \in focus :
        /\ outcome = None /\ Heap[x].kind \in Collections /\ Len(frames) < NativeDepth
        /\ frames' = Append(frames, Frame(x)) /\ focus' = None
        /\ UNCHANGED <<payload, mode, path, error, outcome>>
  BY DEF OpenCollection
<1> DEFINE n == Len(frames)  f == Frame(x)
<1>2. /\ error = None /\ n \in Nat /\ Len(path) = n
      /\ \A i \in 1..n : Waits(frames[i]) /\ path[i] = SegmentOf(frames[i])
  BY <1>1, OnObject DEF None
<1>3. /\ IsFrame(f) /\ Len(f.parts) = f.taken /\ IsSeq(f.parts)
  <2>1. /\ f.object = x /\ f.taken = 0 /\ f.parts = <<>>
        /\ DOMAIN f = {"object", "taken", "parts"}
    BY DEF Frame
  <2>2. Heap[x].kind \in {"array", "hash"} /\ x \in DOMAIN Heap
    BY <1>1 DEF Collections, IInv, TypeOK
  <2>3. Len(Heap[x].members) \in Nat
    BY <2>2, HeapAssumption, LenProperties DEF IsObject
  <2> HIDE DEF f
  <2> QED  BY <2>1, <2>2, <2>3, EmptyIsSeq DEF IsFrame, Collections
<1> HIDE DEF f
<1>4. /\ IsSeq(frames') /\ Len(frames') = n + 1 /\ frames' # <<>> /\ frames'[n + 1] = f
      /\ \A i \in 1..n : frames'[i] = frames[i]
  BY <1>1, Pushed DEF IInv, Sequences, IsSeq, f
<1> HIDE DEF n
<1>5. \A i \in 1..(n + 1) : IsFrame(frames'[i]) /\ IsSeq(frames'[i].parts)
  <2> TAKE i \in 1..(n + 1)
  <2>1. i = n + 1 \/ i \in 1..n
    BY <1>2
  <2> QED  BY <1>2, <1>3, <1>4, <2>1 DEF Waits
<1>6. Waiting' = n
  BY <1>1, <1>2, <1>4 DEF Waiting
<1>7. TypeOK'
  <2>1. n + 1 <= NativeDepth
    BY <1>1, <1>2, HeapAssumption DEF n
  <2> QED  BY <1>1, <1>4, <1>5, <2>1 DEF IInv, TypeOK, None
<1>8. PathMirrorsStack'
  BY <1>1, <1>2, <1>4, <1>6 DEF PathMirrorsStack
<1>9. PartsAreMembers'
  <2> SUFFICES ASSUME NEW i \in 1..(n + 1)
               PROVE  Len(frames'[i].parts) = frames'[i].taken - (IF i <= n THEN 1 ELSE 0)
    BY <1>4, <1>6 DEF PartsAreMembers
  <2>1. CASE i = n + 1
    BY <1>2, <1>3, <1>4, <2>1 DEF IsFrame
  <2>2. CASE i # n + 1
    <3>1. i \in 1..n
      BY <1>2, <2>2
    <3> QED  BY <1>2, <1>4, <3>1 DEF Waits
  <2> QED  BY <2>1, <2>2
<1> QED  BY <1>1, <1>4, <1>5, <1>7, <1>8, <1>9 DEF IInv, Sequences, OneOf

\* The next member is taken in hand, and the path goes down to it.
LEMMA DescendKeeps ==
  ASSUME IInv, NEW kind \in Collections, InCollection(kind), Pending, NEW segment, NEW x \in DOMAIN Heap,
         Descend(segment, x),
         segment = SegmentOf([Top EXCEPT !.taken = @ + 1])
  PROVE  IInv'
<1> DEFINE n == Len(frames)
           f == [Top EXCEPT !.taken = @ + 1]
           s == [frames EXCEPT ![n] = f]
<1>1. /\ outcome = None /\ error = None /\ frames # <<>>
      /\ n \in Nat \ {0} /\ n <= NativeDepth
      /\ Top = frames[n] /\ IsFrame(Top) /\ IsSeq(Top.parts) /\ Len(Top.parts) = Top.taken
      /\ Len(path) = n - 1
      /\ \A i \in 1..(n - 1) : Waits(frames[i]) /\ path[i] = SegmentOf(frames[i])
  BY InLoop
<1>2. n \in DOMAIN frames
  BY <1>1, LenProperties DEF IInv, Sequences, IsSeq
<1>3. /\ frames' = s /\ path' = Append(path, segment) /\ focus' = Some(x)
      /\ UNCHANGED <<payload, mode, error, outcome>>
  BY <1>1, <1>2 DEF Descend
<1>4. /\ IsSeq(s) /\ s # <<>> /\ Len(s) = n /\ s[n] = f
      /\ \A i \in 1..(n - 1) : s[i] = frames[i]
  <2>1. frames \in Seq(ToSet(frames)) /\ frames # <<>>
    BY <1>1 DEF IInv, Sequences, IsSeq
  <2> HIDE DEF f
  <2>2. LET t == [frames EXCEPT ![Len(frames)] = f] IN
        /\ t \in Seq(ToSet(t)) /\ t # <<>> /\ Len(t) = Len(frames)
        /\ \A i \in 1..(Len(frames) - 1) : t[i] = frames[i]
        /\ t[Len(frames)] = f
    BY <2>1, Replaced
  <2> QED  BY <2>2 DEF IsSeq
<1>5. /\ f.object = Top.object /\ f.taken = Top.taken + 1 /\ f.parts = Top.parts
      /\ DOMAIN f = DOMAIN Top
  BY <1>1 DEF IsFrame
<1> HIDE DEF f
<1>6. Waits(f)
  <2>1. Top.taken < Len(Heap[Top.object].members) /\ Top.taken \in 0..Len(Heap[Top.object].members)
    BY <1>1 DEF Pending, Object, IsFrame
  <2>2. Len(Heap[Top.object].members) \in Nat
    <3>1. IsObject(Heap[Top.object]) /\ Heap[Top.object].kind \in {"array", "hash"}
      BY <1>1, HeapAssumption DEF IsFrame, Collections
    <3> QED  BY <3>1, LenProperties DEF IsObject
  <2> QED  BY <1>1, <1>5, <2>1, <2>2 DEF Waits, IsFrame
<1>7. /\ IsSeq(path') /\ Len(path') = n /\ path'[n] = segment
      /\ \A i \in 1..(n - 1) : path'[i] = path[i]
  <2>1. /\ IsSeq(path') /\ Len(path') = Len(path) + 1 /\ path'[Len(path) + 1] = segment
        /\ \A i \in 1..Len(path) : path'[i] = path[i]
    BY <1>3, Pushed DEF IInv, Sequences, IsSeq
  <2>2. Len(path) + 1 = n
    BY <1>1
  <2> QED  BY <1>1, <2>1, <2>2
<1> HIDE DEF s, n
<1>8. \A i \in 1..n : Waits(s[i]) /\ path'[i] = SegmentOf(s[i])
  <2> TAKE i \in 1..n
  <2>1. i = n \/ i \in 1..(n - 1)
    BY <1>1
  <2> QED  BY <1>1, <1>4, <1>6, <1>7, <2>1 DEF f
<1>9. Waiting' = n
  BY <1>3, <1>4 DEF Waiting, Some, None
<1>10. TypeOK'
  BY <1>1, <1>3, <1>4, <1>8 DEF IInv, TypeOK, Some, Waits
<1>11. PathMirrorsStack'
  BY <1>1, <1>3, <1>7, <1>8, <1>9 DEF PathMirrorsStack
<1>12. PartsAreMembers'
  BY <1>3, <1>4, <1>8, <1>9 DEF PartsAreMembers, Waits
<1> QED  BY <1>1, <1>3, <1>4, <1>7, <1>8, <1>10, <1>11, <1>12 DEF IInv, Sequences, OneOf, Waits

LEMMA ConvertElementKeeps == ASSUME IInv, ConvertElement PROVE IInv'
<1>1. InCollection("array") /\ Pending /\ Descend(IndexSegment(Top.taken + 1), Member)
  BY DEF ConvertElement
<1>2. /\ IsFrame(Top) /\ Object.kind = "array" /\ Object = Heap[Top.object]
  BY <1>1, InLoop DEF Object
<1>3. Object.members \in Seq(DOMAIN Heap) /\ Top.taken + 1 \in 1..Len(Object.members)
  <2>1. Object.members \in Seq(DOMAIN Heap)
    BY <1>2, HeapAssumption DEF IsFrame, IsObject
  <2> QED  BY <1>1, <1>2, <2>1, LenProperties DEF IsFrame, Pending
<1>4. Member \in DOMAIN Heap
  BY <1>3, ElementOfSeq DEF Member
<1>5. IndexSegment(Top.taken + 1) = SegmentOf([Top EXCEPT !.taken = @ + 1])
  BY <1>2 DEF SegmentOf, IsFrame
<1> QED  BY <1>1, <1>4, <1>5, DescendKeeps DEF Collections

LEMMA ConvertPairKeeps == ASSUME IInv, ConvertPair PROVE IInv'
<1>1. PICK key \in KeyText(Member.key) :
        InCollection("hash") /\ Pending /\ Descend(KeySegment(key), Member.value)
  BY DEF ConvertPair
<1>2. /\ IsFrame(Top) /\ Object.kind = "hash" /\ Object = Heap[Top.object]
  BY <1>1, InLoop DEF Object
<1> DEFINE P == [key : DOMAIN Heap, value : DOMAIN Heap]
<1>3. Object.members \in Seq(P) /\ Top.taken + 1 \in 1..Len(Object.members)
  <2>1. Object.members \in Seq(P)
    BY <1>2, HeapAssumption DEF IsFrame, IsObject
  <2> HIDE DEF P
  <2> QED  BY <1>1, <1>2, <2>1, LenProperties DEF IsFrame, Pending
<1>4. Member \in P
  <2> HIDE DEF P
  <2> QED  BY <1>3, ElementOfSeq DEF Member
<1>5. KeySegment(key) = SegmentOf([Top EXCEPT !.taken = @ + 1])
  <2> DEFINE f == [Top EXCEPT !.taken = @ + 1]
  <2>1. f.object = Top.object /\ f.taken = Top.taken + 1
    BY <1>2 DEF IsFrame
  <2>2. KeyText(Member.key) = {key}
    BY <1>1 DEF KeyText, Some, None
  <2>3. Heap[f.object].members[f.taken].key = Member.key /\ Heap[f.object].kind = "hash"
    BY <1>2, <2>1 DEF Member
  <2> HIDE DEF f
  <2>4. (CHOOSE t \in {key} : TRUE) = key
    OBVIOUS
  <2>5. SegmentOf(f) = KeySegment(CHOOSE t \in {key} : TRUE)
    BY <2>2, <2>3 DEF SegmentOf
  <2> QED  BY <2>4, <2>5 DEF f
<1> QED  BY <1>1, <1>4, <1>5, DescendKeeps DEF Collections

LEMMA CloseCollectionKeeps == ASSUME IInv, CloseCollection PROVE IInv'
<1> DEFINE value == IF Object.kind = "array" THEN ListValue(Top.parts) ELSE DictValue(EntriesOf(Top))
           below == Front(frames)
<1>1. PICK kind \in Collections : InCollection(kind)
  BY DEF CloseCollection
<1>2. Return(value, below)
  BY DEF CloseCollection
<1> HIDE DEF value
<1>3. /\ outcome = None /\ error = None /\ Len(frames) \in Nat \ {0} /\ Len(frames) <= NativeDepth
      /\ Len(path) = Len(frames) - 1
      /\ IsSeq(below) /\ Len(below) = Len(frames) - 1
      /\ \A i \in 1..(Len(frames) - 1) : Waits(frames[i]) /\ path[i] = SegmentOf(frames[i])
      /\ \A i \in 1..(Len(frames) - 1) : below[i] = frames[i]
  BY <1>1, InLoop
<1> HIDE DEF below
<1>4. Len(below) <= NativeDepth
  BY <1>3, HeapAssumption
<1> QED  BY <1>2, <1>3, <1>4, ReturnKeeps

-----------------------------------------------------------------------------
LEMMA RefuseObjectKeeps == ASSUME IInv, RefuseObject PROVE IInv'
<1>1. /\ outcome = None /\ focus # None /\ focus' = {} /\ error' # None
      /\ UNCHANGED <<payload, mode, frames, path, outcome>>
  BY DEF RefuseObject, Some, None
<1>2. /\ Len(frames) \in Nat /\ Len(path) = Len(frames)
      /\ \A i \in 1..Len(frames) : path[i] = SegmentOf(frames[i])
  BY <1>1, OnObject
<1>3. Waiting' = Len(frames)
  BY <1>1 DEF Waiting
<1>4. PathMirrorsStack' /\ PartsAreMembers'
  BY <1>1, <1>2, <1>3 DEF PathMirrorsStack, PartsAreMembers
<1> QED  BY <1>1, <1>4 DEF IInv, TypeOK, Sequences, OneOf, None

LEMMA RefuseKeyKeeps == ASSUME IInv, RefuseKey PROVE IInv'
<1> DEFINE s == Front(frames)
<1>1. /\ InCollection("hash") /\ error' # None /\ frames' = s
      /\ UNCHANGED <<payload, mode, focus, path, outcome>>
  BY DEF RefuseKey, Some, None
<1>2. /\ focus = None /\ Len(frames) \in Nat \ {0} /\ Len(frames) <= NativeDepth
      /\ Len(path) = Len(frames) - 1
      /\ IsSeq(s) /\ Len(s) = Len(frames) - 1
      /\ \A i \in 1..(Len(frames) - 1) : Waits(frames[i]) /\ path[i] = SegmentOf(frames[i])
      /\ \A i \in 1..(Len(frames) - 1) : s[i] = frames[i]
  BY <1>1, InLoop
<1> HIDE DEF s
<1>3. Len(s) \in Nat /\ Len(s) <= NativeDepth /\ \A i \in 1..Len(s) : IsFrame(s[i]) /\ IsSeq(s[i].parts)
  BY <1>2, HeapAssumption DEF Waits
<1>4. Waiting' = Len(s)
  BY <1>1 DEF Waiting
<1>5. PathMirrorsStack' /\ PartsAreMembers'
  BY <1>1, <1>2, <1>3, <1>4 DEF PathMirrorsStack, PartsAreMembers
<1> QED  BY <1>1, <1>2, <1>3, <1>5 DEF IInv, TypeOK, Sequences, OneOf

LEMMA UnwindKeeps == ASSUME IInv, Unwind PROVE IInv'
<1> DEFINE s == Front(frames)
<1>1. /\ outcome = None /\ error # None /\ frames # <<>> /\ frames' = s
      /\ path' = path \/ path' = Front(path)
      /\ UNCHANGED <<payload, mode, focus, error, outcome>>
  BY DEF Unwind
<1>2. /\ Len(frames) \in Nat \ {0} /\ IsSeq(s) /\ Len(s) = Len(frames) - 1
      /\ \A i \in 1..(Len(frames) - 1) : s[i] = frames[i]
  BY <1>1, Popped DEF IInv, Sequences, IsSeq
<1>3. Waiting = Len(frames) /\ Waiting' = Len(s) /\ focus = None
  BY <1>1 DEF Waiting, IInv, OneOf
<1> HIDE DEF s
<1>4. Len(frames) <= Len(path) /\ \A i \in 1..Len(frames) : path[i] = SegmentOf(frames[i])
  BY <1>1, <1>3 DEF IInv, PathMirrorsStack
<1>5. path # <<>> /\ Len(path) \in Nat
  <2>1. Len(path) \in Nat
    BY LenProperties DEF IInv, Sequences, IsSeq
  <2>2. path = <<>> => Len(path) = 0
    BY EmptyIsSeq
  <2> QED  BY <1>2, <1>4, <2>1, <2>2
<1>6. /\ IsSeq(path') /\ Len(path') \in Nat /\ Len(s) <= Len(path')
      /\ \A i \in 1..Len(s) : path'[i] = path[i]
  <2>1. CASE path' = path
    BY <1>2, <1>4, <1>5, <2>1 DEF IInv, Sequences
  <2>2. CASE path' = Front(path)
    <3>1. /\ IsSeq(Front(path)) /\ Len(Front(path)) = Len(path) - 1 /\ Len(path) \in Nat \ {0}
          /\ \A i \in 1..(Len(path) - 1) : Front(path)[i] = path[i]
      BY <1>5, Popped DEF IInv, Sequences, IsSeq
    <3> QED  BY <1>2, <1>4, <2>2, <3>1
  <2> QED  BY <1>1, <2>1, <2>2
<1>7. /\ Len(s) \in Nat /\ Len(s) <= NativeDepth
      /\ \A i \in 1..Len(s) : IsFrame(s[i]) /\ IsSeq(s[i].parts) /\ path'[i] = SegmentOf(s[i])
  BY <1>2, <1>4, <1>6, HeapAssumption DEF IInv, TypeOK, Sequences
<1>8. PathMirrorsStack' /\ PartsAreMembers'
  BY <1>1, <1>3, <1>6, <1>7 DEF PathMirrorsStack, PartsAreMembers
<1> QED  BY <1>1, <1>2, <1>3, <1>6, <1>7, <1>8 DEF IInv, TypeOK, Sequences, OneOf

LEMMA ConvertOwnedKeeps == ASSUME IInv, ConvertOwned PROVE IInv'
<1>1. /\ outcome = None /\ error = None /\ focus = None /\ frames = <<>>
      /\ focus' = {payload} /\ UNCHANGED <<payload, mode, frames, path, error, outcome>>
  BY DEF ConvertOwned, Unstarted, Some
<1>2. Len(frames) = 0 /\ Waiting = 0 /\ Waiting' = 0
  BY <1>1, EmptyIsSeq DEF Waiting
<1>3. PathMirrorsStack' /\ PartsAreMembers'
  BY <1>1, <1>2 DEF IInv, PathMirrorsStack, PartsAreMembers
<1>4. payload \in DOMAIN Heap
  BY HeapAssumption DEF IInv, TypeOK
<1> QED  BY <1>1, <1>3, <1>4 DEF IInv, TypeOK, Sequences, OneOf

LEMMA StepIInv == IInv /\ [Next]_vars => IInv'
<1> SUFFICES ASSUME IInv, [Next]_vars PROVE IInv'  OBVIOUS
<1>1. CASE TakeSource \/ RaiseNul \/ RefuseSource \/ RaiseWide \/ OverflowStack \/ Refuse
  <2>1. PICK o : End(o)
    BY <1>1 DEF TakeSource, RaiseNul, RefuseSource, RaiseWide, OverflowStack, Refuse
  <2> QED  BY <2>1, EndKeeps
<1>2. CASE UNCHANGED vars
  BY <1>2 DEF vars, IInv, TypeOK, PathMirrorsStack, PartsAreMembers, Sequences, OneOf, Waiting
<1> QED  BY <1>1, <1>2, ConvertOwnedKeeps, ConvertScalarKeeps, RefuseObjectKeeps, OpenCollectionKeeps,
            ConvertElementKeeps, ConvertPairKeeps, RefuseKeyKeeps, CloseCollectionKeeps, UnwindKeeps
         DEF Next

LEMMA Inductive == Spec => []IInv
BY InitIInv, StepIInv, PTL DEF Spec

\* The frames are collections of the heap at members they have, and no more
\* than the native stack takes, whatever the graph.
THEOREM TypeCorrect == Spec => []TypeOK
BY Inductive, PTL DEF IInv

\* convert_array and hash_foreach_convert push and pop in step: the path is at
\* every moment that of the member in hand, and an error on its way up pops no
\* segment of a hash that still waits.
THEOREM PathIsBalanced == Spec => []PathMirrorsStack
BY Inductive, PTL DEF IInv

\* Every collection in progress holds one value for each member it has passed.
THEOREM NoMemberIsLost == Spec => []PartsAreMembers
BY Inductive, PTL DEF IInv

-----------------------------------------------------------------------------
(***************************************************************************)
(* What a conversion ends with is the meaning of the payload.  What is     *)
(* kept on the way: every part is the meaning of its member, and when what *)
(* is in hand means no value, the payload means the same fault.            *)
(***************************************************************************)
\* With room for so many collections, meanings refer to those with less room.
AllMeanings(room, meanings) ==
  [x \in DOMAIN Heap |-> [at \in Seq(Segments) |-> MeaningOf(Heap[x], at, room, meanings)]]

LEMMA MeaningsExist == \E g : g = [room \in 0..NativeDepth |-> AllMeanings(room, g)]
<1> DEFINE L(g, room) == AllMeanings(room, g)
           S == {n \in Nat : \E g : g = [room \in 0..n |-> L(g, room)]}
<1>1. ASSUME NEW g, NEW h, NEW n \in Nat, n = 0 \/ g[n - 1] = h[n - 1]
      PROVE  L(g, n) = L(h, n)
  BY <1>1 DEF AllMeanings, MeaningOf
<1> HIDE DEF L
<1>2. 0 \in S
  <2> DEFINE g == [room \in 0..0 |-> L(<<>>, 0)]
  <2>1. \A room \in 0..0 : L(g, room) = L(<<>>, 0)
    <3> HIDE DEF g
    <3>1. L(g, 0) = L(<<>>, 0)
      BY <1>1
    <3> QED  BY <3>1
  <2>2. g = [room \in 0..0 |-> L(g, room)]
    BY <2>1
  <2> HIDE DEF g
  <2> QED  BY <2>2
<1>3. ASSUME NEW n \in Nat, n \in S PROVE n + 1 \in S
  <2>1. PICK g : g = [room \in 0..n |-> L(g, room)]
    BY <1>3
  <2> DEFINE h == [room \in 0..(n + 1) |-> IF room <= n THEN g[room] ELSE L(g, room)]
  <2>2. ASSUME NEW room \in 0..(n + 1) PROVE h[room] = L(h, room)
    <3>1. room = 0 \/ g[room - 1] = h[room - 1]
      OBVIOUS
    <3> HIDE DEF h
    <3>2. L(g, room) = L(h, room)
      BY <3>1, <1>1
    <3> QED  BY <2>1, <3>2 DEF h
  <2>3. h = [room \in 0..(n + 1) |-> h[room]]
    OBVIOUS
  <2> HIDE DEF h
  <2>4. h = [room \in 0..(n + 1) |-> L(h, room)]
    BY <2>2, <2>3
  <2> QED  BY <2>4
<1>4. NativeDepth \in S
  <2> HIDE DEF S
  <2> QED  BY <1>2, <1>3, SetInduction, HeapAssumption
<1> QED  BY <1>4 DEF L

LEMMA MeaningsUnfold ==
  ASSUME NEW room \in 0..NativeDepth, NEW x \in DOMAIN Heap, NEW at \in Seq(Segments)
  PROVE  Meanings[room][x][at] = MeaningOf(Heap[x], at, room, Meanings)
<1>1. Meanings = [k \in 0..NativeDepth |-> AllMeanings(k, Meanings)]
  BY MeaningsExist DEF Meanings, AllMeanings
<1>2. Meanings[room] = AllMeanings(room, Meanings)
  BY <1>1
<1> QED  BY <1>2 DEF AllMeanings

\* The first of the outcomes that is no value is that of the whole.
LEMMA FaultIsFirst ==
  ASSUME NEW o, NEW at, NEW below, NEW k, Len(o.members) \in Nat, DOMAIN o.members = 1..Len(o.members),
         k \in 1..Len(o.members),
         \A j \in 1..(k - 1) : MeaningOfMember(o, j, at, below).kind = "owned",
         MeaningOfMember(o, k, at, below).kind # "owned"
  PROVE  MeaningOfCollection(o, at, below) = MeaningOfMember(o, k, at, below)
<1> DEFINE outcomes == [i \in DOMAIN o.members |-> MeaningOfMember(o, i, at, below)]
<1>1. /\ DOMAIN outcomes = 1..Len(o.members)
      /\ \A i \in 1..Len(o.members) : outcomes[i] = MeaningOfMember(o, i, at, below)
  OBVIOUS
<1> HIDE DEF outcomes
<1>2. {j \in DOMAIN outcomes : outcomes[j].kind # "owned" /\ \A h \in 1..(j - 1) : outcomes[h].kind = "owned"}
      = {k}
  <2>1. k \in DOMAIN outcomes /\ outcomes[k].kind # "owned" /\ \A h \in 1..(k - 1) : outcomes[h].kind = "owned"
    BY <1>1
  <2>2. ASSUME NEW j \in DOMAIN outcomes, outcomes[j].kind # "owned",
               \A h \in 1..(j - 1) : outcomes[h].kind = "owned"
        PROVE  j = k
    <3>1. ~(j < k)
      BY <1>1, <2>1, <2>2
    <3>2. ~(k < j)
      BY <1>1, <2>1, <2>2
    <3> QED  BY <1>1, <3>1, <3>2
  <2> QED  BY <2>1, <2>2
<1>3. FirstFault(outcomes) = {outcomes[k]}
  BY <1>2 DEF FirstFault
<1>4. (CHOOSE f \in FirstFault(outcomes) : TRUE) = outcomes[k]
  BY <1>3
<1> QED  BY <1>1, <1>3, <1>4 DEF MeaningOfCollection, outcomes

EntriesWith(o, parts) ==
  [i \in 1..Len(o.members) |-> Entry(CHOOSE t \in KeyText(o.members[i].key) : TRUE, parts[i])]

\* A collection all of whose members mean values means the value of them.
LEMMA ValueOfMembers ==
  ASSUME NEW o, NEW at, NEW below, NEW parts, o.kind \in Collections,
         DOMAIN o.members = 1..Len(o.members), IsSeq(parts), Len(parts) = Len(o.members),
         \A j \in 1..Len(o.members) : MeaningOfMember(o, j, at, below) = Owned(parts[j])
  PROVE  MeaningOfCollection(o, at, below) =
           Owned(IF o.kind = "array" THEN ListValue(parts) ELSE DictValue(EntriesWith(o, parts)))
<1> DEFINE outcomes == [i \in DOMAIN o.members |-> MeaningOfMember(o, i, at, below)]
           values == [i \in DOMAIN o.members |-> outcomes[i].value]
<1>1. ASSUME NEW i \in 1..Len(o.members) PROVE outcomes[i].kind = "owned" /\ outcomes[i].value = parts[i]
  <2>1. outcomes[i] = Owned(parts[i])
    OBVIOUS
  <2> HIDE DEF outcomes
  <2> QED  BY <2>1 DEF Owned
<1>2. FirstFault(outcomes) = {}
  BY <1>1 DEF FirstFault
<1>3. values = [i \in 1..Len(o.members) |-> parts[i]]
  BY <1>1
<1>4. values = parts
  <2>1. parts = [i \in 1..Len(parts) |-> parts[i]]
    BY LenProperties DEF IsSeq
  <2> QED  BY <1>3, <2>1
<1>5. MeaningOfCollection(o, at, below) =
        IF FirstFault(outcomes) # {} THEN CHOOSE f \in FirstFault(outcomes) : TRUE
        ELSE IF o.kind = "array" THEN Owned(ListValue(values))
        ELSE Owned(DictValue([i \in DOMAIN o.members |->
             Entry(CHOOSE k \in KeyText(o.members[i].key) : TRUE, values[i])]))
  BY DEF MeaningOfCollection
<1> HIDE DEF outcomes, values
<1> QED  BY <1>2, <1>4, <1>5 DEF EntriesWith

-----------------------------------------------------------------------------
\* The path to what stands at a depth; what an object means there, and what a
\* member of it does.
UpTo(p, i) == [h \in 1..(i - 1) |-> p[h]]
Meant(p, i, x) == Meanings[NativeDepth - (i - 1)][x][UpTo(p, i)]
MemberMeant(p, i, x, j) == MeaningOfMember(Heap[x], j, UpTo(p, i), Meanings[NativeDepth - i])
Whole(pay) == Meanings[NativeDepth][pay][<<>>]

\* An object that means no value decides what the payload means.
Decides(p, i, x, pay) == Meant(p, i, x).kind = "owned" \/ Meant(p, i, x) = Whole(pay)

\* The collections in progress: each below a member of the one before, with the
\* values its members mean.
Sound(fs, p, pay) ==
  \A i \in 1..Len(fs) :
    /\ Decides(p, i, fs[i].object, pay)
    /\ \A j \in 1..Len(fs[i].parts) : MemberMeant(p, i, fs[i].object, j) = Owned(fs[i].parts[j])
    /\ i < Len(fs) => MemberMeant(p, i, fs[i].object, fs[i].taken) = Meant(p, i + 1, fs[i + 1].object)
    /\ i = 1 => fs[1].object = pay

\* The object in hand: the member the innermost collection is at, or the payload.
InHand(fs, p, pay, x) ==
  /\ Decides(p, Len(fs) + 1, x, pay)
  /\ IF fs = <<>> THEN x = pay
     ELSE MemberMeant(p, Len(fs), fs[Len(fs)].object, fs[Len(fs)].taken) = Meant(p, Len(fs) + 1, x)

MeaningInv ==
  /\ path \in Seq(Segments)
  /\ focus # None \/ error # None \/ frames # <<>> => ~ReadsString
  /\ outcome = None /\ error = None =>
       Sound(frames, path, payload) /\ \A x \in focus : InHand(frames, path, payload, x)
  /\ \A e \in error : Refused(e) = Whole(payload)
  /\ OutcomeIsMeaning

LEMMA PathsAgree ==
  ASSUME NEW p, NEW q, NEW i \in Nat, \A h \in 1..(i - 1) : q[h] = p[h]
  PROVE  UpTo(q, i) = UpTo(p, i)
BY DEF UpTo

LEMMA PathUpTo ==
  ASSUME NEW p \in Seq(Segments)
  PROVE  /\ UpTo(p, 1) = <<>>
         /\ UpTo(p, Len(p) + 1) = p
<1>1. Len(p) \in Nat /\ p = [h \in 1..Len(p) |-> p[h]]
  BY LenProperties
<1>2. UpTo(p, 1) = <<>>
  BY DEF UpTo
<1>3. UpTo(p, Len(p) + 1) = [h \in 1..Len(p) |-> p[h]]
  BY <1>1 DEF UpTo
<1> QED  BY <1>1, <1>2, <1>3

\* Frames that differ at most in where the innermost stands, on a path that
\* differs only behind it.
LEMMA SoundStays ==
  ASSUME NEW fs, NEW gs, NEW p, NEW q, NEW pay, Sound(fs, p, pay), NEW n \in Nat, Len(fs) \in Nat, n <= Len(fs),
         Len(gs) = n, \A h \in 1..(n - 1) : q[h] = p[h] /\ gs[h] = fs[h],
         n > 0 => gs[n].object = fs[n].object
                  /\ \A j \in 1..Len(gs[n].parts) : MemberMeant(p, n, fs[n].object, j) = Owned(gs[n].parts[j])
  PROVE  Sound(gs, q, pay)
<1> SUFFICES ASSUME NEW i \in 1..n
             PROVE  /\ Decides(q, i, gs[i].object, pay)
                    /\ \A j \in 1..Len(gs[i].parts) : MemberMeant(q, i, gs[i].object, j) = Owned(gs[i].parts[j])
                    /\ i < n => MemberMeant(q, i, gs[i].object, gs[i].taken) = Meant(q, i + 1, gs[i + 1].object)
                    /\ i = 1 => gs[1].object = pay
  BY DEF Sound
<1>1. UpTo(q, i) = UpTo(p, i)
  BY PathsAgree
<1>2. /\ i \in 1..Len(fs) /\ Decides(p, i, fs[i].object, pay)
      /\ \A j \in 1..Len(fs[i].parts) : MemberMeant(p, i, fs[i].object, j) = Owned(fs[i].parts[j])
      /\ i < Len(fs) => MemberMeant(p, i, fs[i].object, fs[i].taken) = Meant(p, i + 1, fs[i + 1].object)
      /\ i = 1 => fs[1].object = pay
  BY DEF Sound
<1>3. gs[i].object = fs[i].object /\ (i < n => gs[i] = fs[i] /\ gs[i + 1].object = fs[i + 1].object)
  <2>1. i = n \/ i \in 1..(n - 1)
    OBVIOUS
  <2>2. i < n => i + 1 = n \/ i + 1 \in 1..(n - 1)
    OBVIOUS
  <2> QED  BY <2>1, <2>2
<1>4. Decides(q, i, gs[i].object, pay)
  BY <1>1, <1>2, <1>3 DEF Decides, Meant
<1>5. \A j \in 1..Len(gs[i].parts) : MemberMeant(q, i, gs[i].object, j) = Owned(gs[i].parts[j])
  <2>1. CASE i = n
    BY <1>1, <1>3, <2>1 DEF MemberMeant
  <2>2. CASE i # n
    BY <1>1, <1>2, <1>3, <2>2 DEF MemberMeant
  <2> QED  BY <2>1, <2>2
<1>6. ASSUME i < n PROVE MemberMeant(q, i, gs[i].object, gs[i].taken) = Meant(q, i + 1, gs[i + 1].object)
  <2>1. \A h \in 1..((i + 1) - 1) : q[h] = p[h]
    BY <1>6
  <2>2. UpTo(q, i + 1) = UpTo(p, i + 1) /\ i < Len(fs)
    BY <1>6, <2>1, PathsAgree
  <2> QED  BY <1>1, <1>2, <1>3, <1>6, <2>2 DEF MemberMeant, Meant
<1> QED  BY <1>2, <1>3, <1>4, <1>5, <1>6

\* What is known while an object is converted, and in the loop over the members.
LEMMA ObjectMeans ==
  ASSUME IInv, MeaningInv, outcome = None, NEW x \in focus
  PROVE  /\ x \in DOMAIN Heap /\ ~ReadsString /\ error = None
         /\ Len(frames) \in Nat /\ Len(frames) <= NativeDepth
         /\ Sound(frames, path, payload) /\ InHand(frames, path, payload, x)
         /\ UpTo(path, Len(frames) + 1) = path
         /\ Meant(path, Len(frames) + 1, x) = MeaningOf(Heap[x], path, NativeDepth - Len(frames), Meanings)
<1>1. focus # None
  BY DEF None
<1>2. /\ error = None /\ Len(frames) \in Nat /\ Len(frames) <= NativeDepth /\ Len(path) = Len(frames)
  BY <1>1, OnObject
<1>3. x \in DOMAIN Heap /\ path \in Seq(Segments)
  BY DEF IInv, TypeOK, MeaningInv
<1>4. UpTo(path, Len(frames) + 1) = path
  BY <1>2, <1>3, PathUpTo
<1>5. NativeDepth - ((Len(frames) + 1) - 1) = NativeDepth - Len(frames) /\ NativeDepth - Len(frames) \in 0..NativeDepth
  BY <1>2, HeapAssumption
<1>6. Meant(path, Len(frames) + 1, x) = MeaningOf(Heap[x], path, NativeDepth - Len(frames), Meanings)
  BY <1>3, <1>4, <1>5, MeaningsUnfold DEF Meant
<1> QED  BY <1>1, <1>2, <1>3, <1>4, <1>6 DEF MeaningInv

LEMMA LoopMeans ==
  ASSUME IInv, MeaningInv, NEW kind \in Collections, InCollection(kind)
  PROVE  LET n == Len(frames) IN
         /\ ~ReadsString /\ error = None /\ outcome = None /\ focus = None
         /\ n \in Nat \ {0} /\ n <= NativeDepth /\ Top = frames[n]
         /\ path \in Seq(Segments) /\ Len(path) = n - 1
         /\ Sound(frames, path, payload)
         /\ UpTo(path, n) = path
         /\ Decides(path, n, Top.object, payload)
         /\ Meant(path, n, Top.object) = MeaningOfCollection(Object, path, Meanings[NativeDepth - n])
         /\ \A j : MemberMeant(path, n, Top.object, j) = MeaningOfMember(Object, j, path, Meanings[NativeDepth - n])
         /\ \A j \in 1..Top.taken : MemberMeant(path, n, Top.object, j) = Owned(Top.parts[j])
         /\ Len(Object.members) \in Nat /\ DOMAIN Object.members = 1..Len(Object.members)
         /\ Top.taken \in 0..Len(Object.members)
<1> DEFINE n == Len(frames)
<1>1. /\ outcome = None /\ error = None /\ focus = None /\ frames # <<>>
      /\ n \in Nat \ {0} /\ n <= NativeDepth
      /\ Top = frames[n] /\ IsFrame(Top) /\ Object.kind = kind /\ Len(Top.parts) = Top.taken
      /\ Len(path) = n - 1
  BY InLoop
<1>2. Object = Heap[Top.object]
  BY DEF Object
<1>3. ~ReadsString /\ path \in Seq(Segments) /\ Sound(frames, path, payload)
  BY <1>1 DEF MeaningInv
<1> HIDE DEF n
<1>4. UpTo(path, n) = path
  <2>1. Len(path) + 1 = n
    BY <1>1
  <2> QED  BY <1>3, <2>1, PathUpTo
<1>5. /\ Decides(path, n, Top.object, payload)
      /\ \A j \in 1..Top.taken : MemberMeant(path, n, Top.object, j) = Owned(Top.parts[j])
  BY <1>1, <1>3 DEF Sound, n
<1>6. /\ NativeDepth - (n - 1) \in 0..NativeDepth /\ NativeDepth - (n - 1) # 0
      /\ (NativeDepth - (n - 1)) - 1 = NativeDepth - n
  BY <1>1, HeapAssumption
<1>7. Meant(path, n, Top.object) = MeaningOf(Object, path, NativeDepth - (n - 1), Meanings)
  <2>1. Top.object \in DOMAIN Heap
    BY <1>1 DEF IsFrame
  <2> QED  BY <1>2, <1>3, <1>4, <1>6, <2>1, MeaningsUnfold DEF Meant
<1>8. Meant(path, n, Top.object) = MeaningOfCollection(Object, path, Meanings[NativeDepth - n])
  <2>1. kind \in {"array", "hash"}
    BY DEF Collections
  <2> QED  BY <1>1, <1>6, <1>7, <2>1 DEF MeaningOf, Scalars
<1>9. \A j : MemberMeant(path, n, Top.object, j) = MeaningOfMember(Object, j, path, Meanings[NativeDepth - n])
  BY <1>2, <1>4 DEF MemberMeant
<1>10. Len(Object.members) \in Nat /\ DOMAIN Object.members = 1..Len(Object.members)
       /\ Top.taken \in 0..Len(Object.members)
  <2>1. IsObject(Object) /\ kind \in {"array", "hash"}
    BY <1>1, <1>2, HeapAssumption DEF IsFrame, Collections
  <2>2. Len(Object.members) \in Nat /\ DOMAIN Object.members = 1..Len(Object.members)
    BY <1>1, <2>1, LenProperties DEF IsObject
  <2> QED  BY <1>1, <1>2, <2>2 DEF IsFrame
<1> QED  BY <1>1, <1>3, <1>4, <1>5, <1>8, <1>9, <1>10 DEF n

LEMMA InitMeans == Init => MeaningInv
<1> SUFFICES ASSUME Init PROVE MeaningInv  OBVIOUS
<1>1. focus = {} /\ error = {} /\ outcome = {} /\ frames = <<>> /\ path = <<>>
  BY DEF Init, None
<1>2. Len(frames) = 0 /\ path \in Seq(Segments)
  BY <1>1
<1> QED  BY <1>1, <1>2 DEF MeaningInv, OutcomeIsMeaning, Sound, None

\* The conversion ends with what the payload means.
LEMMA EndMeans ==
  ASSUME MeaningInv, NEW o, End(o), (ReadsString /\ o.kind # "owned") \/ o = Whole(payload)
  PROVE  MeaningInv'
<1>1. outcome' = {o} /\ UNCHANGED <<payload, mode, focus, frames, path, error>>
  BY DEF End, Some
<1>2. OutcomeIsMeaning'
  BY <1>1 DEF OutcomeIsMeaning, Whole, ReadsString
<1>3. outcome' # None
  BY <1>1 DEF None
<1> QED  BY <1>1, <1>2, <1>3 DEF MeaningInv, ReadsString

\* A value that is what its object means is given to the collection below.
LEMMA ReturnMeans ==
  ASSUME IInv, MeaningInv, outcome = None, error = None, ~ReadsString,
         NEW value, NEW below, Return(value, below),
         Sound(frames, path, payload), Len(frames) \in Nat,
         IsSeq(below), Len(below) <= Len(frames), Len(path) = Len(below),
         \A i \in 1..Len(below) : below[i] = frames[i] /\ Waits(below[i]),
         below = <<>> => Whole(payload) = Owned(value),
         below # <<>> => LET n == Len(below) IN
                         MemberMeant(path, n, below[n].object, below[n].taken) = Owned(value)
  PROVE  MeaningInv'
<1>1. focus' = {} /\ error' = {} /\ payload' = payload /\ mode' = mode /\ ~ReadsString'
  BY DEF Return, None, ReadsString
<1>2. path \in Seq(Segments) /\ path' \in Seq(Segments)
  <2>1. path \in Seq(Segments)
    BY DEF MeaningInv
  <2> QED  BY <2>1, FrontIsSeq DEF Return
<1>3. CASE below = <<>>
  <2>1. outcome' = {Owned(value)}
    BY <1>3 DEF Return, Some
  <2>2. OutcomeIsMeaning'
    BY <1>1, <1>3, <2>1 DEF OutcomeIsMeaning, Whole
  <2> QED  BY <1>1, <1>2, <2>1, <2>2 DEF MeaningInv, None
<1>4. CASE below # <<>>
  <2> DEFINE n == Len(below)
             f == below[n]
             g == [f EXCEPT !.parts = Append(@, value)]
             s == [below EXCEPT ![n] = g]
  <2>1. frames' = s /\ path' = Front(path) /\ outcome' = {}
    BY <1>4 DEF Return, None
  <2>2. /\ n \in Nat \ {0} /\ Len(s) = n /\ s[n] = g
        /\ \A i \in 1..(n - 1) : s[i] = below[i]
    <3> HIDE DEF g
    <3> QED  BY <1>4, Replaced DEF IsSeq
  <2>3. Waits(f) /\ f = frames[n]
    BY <2>2
  <2>4. g.object = f.object /\ g.parts = Append(f.parts, value)
    BY <2>3 DEF Waits, IsFrame
  <2>5. /\ Len(f.parts) \in Nat /\ Len(g.parts) = Len(f.parts) + 1 /\ f.taken = Len(f.parts) + 1
        /\ g.parts[Len(f.parts) + 1] = value
        /\ \A j \in 1..Len(f.parts) : g.parts[j] = f.parts[j]
    <3>1. f.taken \in Int
      BY <2>3, LenProperties DEF Waits, IsFrame
    <3> QED  BY <2>3, <2>4, <3>1, Pushed DEF Waits, IsSeq
  <2>6. \A h \in 1..(n - 1) : path'[h] = path[h]
    <3>1. path # <<>>
      BY <2>2, EmptyIsSeq
    <3> QED  BY <1>2, <2>1, <3>1, FrontLastProperties
  <2> HIDE DEF g, f, s
  <2>7. ASSUME NEW j \in 1..Len(g.parts) PROVE MemberMeant(path, n, f.object, j) = Owned(g.parts[j])
    <3>1. CASE j = f.taken
      BY <1>4, <2>5, <3>1 DEF f
    <3>2. CASE j # f.taken
      <4>1. j \in 1..Len(f.parts)
        BY <2>5, <3>2
      <4>2. n \in 1..Len(frames) /\ frames[n] = f
        BY <2>2, <2>3
      <4>3. MemberMeant(path, n, f.object, j) = Owned(f.parts[j])
        BY <4>1, <4>2 DEF Sound
      <4> QED  BY <2>5, <4>1, <4>3
    <3> QED  BY <3>1, <3>2
  <2>8. Sound(s, path', payload)
    <3>1. \A h \in 1..(n - 1) : s[h] = frames[h]
      <4> TAKE h \in 1..(n - 1)
      <4>1. h \in 1..Len(below)
        BY <2>2
      <4> QED  BY <2>2, <4>1
    <3>2. s[n].object = frames[n].object /\ n \in Nat /\ n <= Len(frames)
      BY <2>2, <2>3, <2>4
    <3>3. \A j \in 1..Len(s[n].parts) : MemberMeant(path, n, frames[n].object, j) = Owned(s[n].parts[j])
      BY <2>2, <2>3, <2>7
    <3> HIDE DEF n
    <3> QED  BY <2>2, <2>6, <3>1, <3>2, <3>3, SoundStays
  <2>9. OutcomeIsMeaning'
    BY <2>1 DEF OutcomeIsMeaning
  <2> QED  BY <1>1, <1>2, <2>1, <2>8, <2>9 DEF MeaningInv
<1> QED  BY <1>3, <1>4

LEMMA ConvertScalarMeans == ASSUME IInv, MeaningInv, ConvertScalar PROVE MeaningInv'
<1>1. PICK x \in focus : /\ outcome = None /\ Heap[x].kind \in Scalars
                         /\ Heap[x].kind = "integer" => Heap[x].num \in I64
                         /\ Return(ScalarOf(Heap[x]), frames)
  BY DEF ConvertScalar
<1>2. focus # None
  BY <1>1 DEF None
<1> DEFINE n == Len(frames)
<1>3. /\ ~ReadsString /\ error = None /\ n \in Nat
      /\ Sound(frames, path, payload) /\ InHand(frames, path, payload, x)
      /\ Meant(path, n + 1, x) = MeaningOf(Heap[x], path, NativeDepth - n, Meanings)
  BY <1>1, ObjectMeans
<1>4. IsSeq(frames) /\ Len(path) = n /\ \A i \in 1..n : Waits(frames[i])
  BY <1>1, <1>2, OnObject
<1>5. Meant(path, n + 1, x) = Owned(ScalarOf(Heap[x]))
  BY <1>1, <1>3 DEF MeaningOf, Scalars
<1>6. frames = <<>> => Whole(payload) = Owned(ScalarOf(Heap[x]))
  <2> HAVE frames = <<>>
  <2>1. n = 0 /\ x = payload
    BY <1>3 DEF InHand
  <2>2. UpTo(path, 1) = <<>> /\ NativeDepth - ((0 + 1) - 1) = NativeDepth
    BY PathUpTo, HeapAssumption DEF MeaningInv
  <2>3. Meant(path, n + 1, x) = Whole(payload)
    BY <2>1, <2>2 DEF Meant, Whole
  <2> QED  BY <1>5, <2>3
<1>7. frames # <<>> => MemberMeant(path, n, frames[n].object, frames[n].taken) = Owned(ScalarOf(Heap[x]))
  BY <1>3, <1>5 DEF InHand
<1> QED  BY <1>1, <1>3, <1>4, <1>6, <1>7, ReturnMeans

LEMMA OpenCollectionMeans == ASSUME IInv, MeaningInv, OpenCollection PROVE MeaningInv'
<1>1. PICK x \in focus :
        /\ outcome = None /\ Heap[x].kind \in Collections /\ Len(frames) < NativeDepth
        /\ frames' = Append(frames, Frame(x)) /\ focus' = {}
        /\ UNCHANGED <<payload, mode, path, error, outcome>>
  BY DEF OpenCollection, None
<1> DEFINE n == Len(frames)
<1>2. /\ ~ReadsString /\ ~ReadsString' /\ error = None /\ n \in Nat
      /\ Sound(frames, path, payload) /\ InHand(frames, path, payload, x)
  BY <1>1, ObjectMeans DEF ReadsString
<1>3. /\ Len(frames') = n + 1 /\ frames'[n + 1] = Frame(x)
      /\ \A i \in 1..n : frames'[i] = frames[i]
  BY <1>1, Pushed DEF IInv, Sequences, IsSeq
<1>4. Frame(x).object = x /\ Frame(x).parts = <<>> /\ Len(Frame(x).parts) = 0
  BY DEF Frame
<1>5. Sound(frames', path, payload)
  <2> SUFFICES ASSUME NEW i \in 1..(n + 1)
               PROVE  LET gs == frames' IN
                      /\ Decides(path, i, gs[i].object, payload)
                      /\ \A j \in 1..Len(gs[i].parts) : MemberMeant(path, i, gs[i].object, j) = Owned(gs[i].parts[j])
                      /\ i < n + 1 => MemberMeant(path, i, gs[i].object, gs[i].taken) = Meant(path, i + 1, gs[i + 1].object)
                      /\ i = 1 => gs[1].object = payload
    BY <1>3 DEF Sound
  <2>1. CASE i = n + 1
    <3>1. Decides(path, n + 1, x, payload)
      BY <1>2 DEF InHand
    <3>2. n + 1 = 1 => x = payload
      <4> HAVE n + 1 = 1
      <4>1. frames = <<>>
        BY <1>2, EmptySeq DEF IInv, Sequences, IsSeq
      <4> QED  BY <1>2, <4>1 DEF InHand
    <3> QED  BY <1>2, <1>3, <1>4, <2>1, <3>1, <3>2
  <2>2. CASE i = n /\ i # n + 1
    <3>1. frames # <<>>
      BY <1>2, <2>2, EmptyIsSeq
    <3>2. MemberMeant(path, n, frames[n].object, frames[n].taken) = Meant(path, n + 1, x)
      BY <1>2, <3>1 DEF InHand
    <3> QED  BY <1>2, <1>3, <1>4, <2>2, <3>2 DEF Sound
  <2>3. CASE i < n
    <3>1. i \in 1..n /\ i + 1 \in 1..n /\ 1 \in 1..n
      BY <1>2, <2>3
    <3> QED  BY <1>2, <1>3, <2>3, <3>1 DEF Sound
  <2> QED  BY <1>2, <2>1, <2>2, <2>3
<1>6. OutcomeIsMeaning'
  BY <1>1 DEF OutcomeIsMeaning, None
<1> QED  BY <1>1, <1>2, <1>5, <1>6 DEF MeaningInv

\* The next member of a collection is taken in hand, at its place.
LEMMA DescendMeans ==
  ASSUME IInv, MeaningInv, NEW kind \in Collections, InCollection(kind), Pending,
         NEW segment \in Segments, NEW x, Descend(segment, x),
         \A at, below : MeaningOfMember(Object, Top.taken + 1, at, below) = below[x][Append(at, segment)]
  PROVE  MeaningInv'
<1> DEFINE n == Len(frames)
           k == Top.taken + 1
           f == [Top EXCEPT !.taken = @ + 1]
           s == [frames EXCEPT ![n] = f]
           p == Append(path, segment)
           rest == Meanings[NativeDepth - n]
<1>1. /\ ~ReadsString /\ error = None /\ outcome = None /\ focus = None
      /\ n \in Nat \ {0} /\ n <= NativeDepth /\ Top = frames[n]
      /\ path \in Seq(Segments) /\ Len(path) = n - 1
      /\ Sound(frames, path, payload)
      /\ UpTo(path, n) = path
      /\ Decides(path, n, Top.object, payload)
      /\ Meant(path, n, Top.object) = MeaningOfCollection(Object, path, rest)
      /\ \A j : MemberMeant(path, n, Top.object, j) = MeaningOfMember(Object, j, path, rest)
      /\ \A j \in 1..Top.taken : MemberMeant(path, n, Top.object, j) = Owned(Top.parts[j])
      /\ Len(Object.members) \in Nat /\ DOMAIN Object.members = 1..Len(Object.members)
      /\ Top.taken \in 0..Len(Object.members)
  BY LoopMeans
<1>2. IsFrame(Top) /\ frames # <<>> /\ Len(Top.parts) = Top.taken
  BY InLoop
<1>3. /\ frames' = s /\ path' = p /\ focus' = {x} /\ outcome' = {} /\ error' = {}
      /\ payload' = payload /\ mode' = mode /\ ~ReadsString'
  <2>1. n \in DOMAIN frames
    BY <1>1, LenProperties DEF IInv, Sequences, IsSeq
  <2> QED  BY <1>1, <2>1 DEF Descend, Some, None, ReadsString
<1>4. /\ s # <<>> /\ Len(s) = n /\ s[n] = f /\ \A i \in 1..(n - 1) : s[i] = frames[i]
  <2> HIDE DEF f
  <2> QED  BY <1>2, Replaced DEF IInv, Sequences, IsSeq
<1>5. f.object = Top.object /\ f.taken = k /\ f.parts = Top.parts
  BY <1>2 DEF IsFrame
<1>6. p \in Seq(Segments) /\ Len(p) = n /\ \A h \in 1..(n - 1) : p[h] = path[h]
  BY <1>1, AppendProperties
<1>7. UpTo(p, n + 1) = p /\ UpTo(p, n) = path
  <2>1. UpTo(p, n) = UpTo(path, n)
    BY <1>1, <1>6, PathsAgree
  <2> QED  BY <1>1, <1>6, <2>1, PathUpTo
<1>8. Meant(p, n + 1, x) = rest[x][p]
  <2>1. NativeDepth - ((n + 1) - 1) = NativeDepth - n
    BY <1>1, HeapAssumption
  <2> HIDE DEF n, p
  <2> QED  BY <1>7, <2>1 DEF Meant
<1>9. MeaningOfMember(Object, k, path, rest) = rest[x][p]
  OBVIOUS
<1> HIDE DEF s, f, p, rest
<1>10. Sound(s, p, payload)
  <2>1. s[n].object = frames[n].object /\ s[n].parts = Top.parts /\ Len(s[n].parts) = Top.taken
    BY <1>1, <1>2, <1>4, <1>5
  <2>2. \A j \in 1..Len(s[n].parts) : MemberMeant(path, n, frames[n].object, j) = Owned(s[n].parts[j])
    BY <1>1, <2>1
  <2>3. Sound(frames, path, payload) /\ n \in Nat /\ Len(frames) \in Nat /\ n <= Len(frames)
    BY <1>1
  <2>4. Len(s) = n /\ \A h \in 1..(n - 1) : p[h] = path[h] /\ s[h] = frames[h]
    BY <1>4, <1>6
  <2>5. s[n].object = frames[n].object
    BY <2>1
  <2> HIDE DEF n
  <2> QED  BY <2>2, <2>3, <2>4, <2>5, SoundStays
<1>11. Decides(p, n + 1, x, payload)
  <2>1. CASE rest[x][p].kind = "owned"
    BY <1>8, <2>1 DEF Decides
  <2>2. CASE rest[x][p].kind # "owned"
    <3>1. k \in 1..Len(Object.members)
      BY <1>1 DEF Pending
    <3>2. \A j \in 1..(k - 1) : MeaningOfMember(Object, j, path, rest).kind = "owned"
      <4> TAKE j \in 1..(k - 1)
      <4>1. j \in 1..Top.taken
        BY <1>1
      <4>2. MeaningOfMember(Object, j, path, rest) = Owned(Top.parts[j])
        BY <1>1, <4>1
      <4> QED  BY <4>2 DEF Owned
    <3> HIDE DEF k
    <3>3. MeaningOfCollection(Object, path, rest) = rest[x][p]
      BY <1>1, <1>9, <2>2, <3>1, <3>2, FaultIsFirst
    <3> QED  BY <1>1, <1>8, <2>2, <3>3 DEF Decides
  <2> QED  BY <2>1, <2>2
<1>12. InHand(s, p, payload, x)
  <2>1. MemberMeant(p, n, s[n].object, s[n].taken) = rest[x][p]
    <3>1. MemberMeant(p, n, Top.object, k) = MeaningOfMember(Object, k, path, rest)
      BY <1>7 DEF MemberMeant, Object, rest
    <3> QED  BY <1>4, <1>5, <1>9, <3>1
  <2> QED  BY <1>4, <1>8, <1>11, <2>1 DEF InHand
<1>13. OutcomeIsMeaning'
  BY <1>3 DEF OutcomeIsMeaning
<1> QED  BY <1>3, <1>6, <1>10, <1>12, <1>13 DEF MeaningInv

LEMMA ConvertElementMeans == ASSUME IInv, MeaningInv, ConvertElement PROVE MeaningInv'
<1>1. InCollection("array") /\ Pending /\ Descend(IndexSegment(Top.taken + 1), Member)
  BY DEF ConvertElement
<1>2. Object.kind = "array" /\ Top.taken \in Nat
  <2>1. Top.taken \in 0..Len(Object.members) /\ "array" \in Collections
    BY <1>1, LoopMeans DEF Collections
  <2> QED  BY <1>1, <2>1 DEF InCollection
<1>3. IndexSegment(Top.taken + 1) \in Segments
  BY <1>2 DEF IndexSegment, Segments, None
<1>4. \A at, below : MeaningOfMember(Object, Top.taken + 1, at, below)
                       = below[Member][Append(at, IndexSegment(Top.taken + 1))]
  BY <1>2 DEF MeaningOfMember, Member
<1> QED  BY <1>1, <1>3, <1>4, DescendMeans DEF Collections

LEMMA ConvertPairMeans == ASSUME IInv, MeaningInv, ConvertPair PROVE MeaningInv'
<1>1. PICK key \in KeyText(Member.key) :
        InCollection("hash") /\ Pending /\ Descend(KeySegment(key), Member.value)
  BY DEF ConvertPair
<1>2. Object.kind = "hash" /\ Object = Heap[Top.object] /\ IsFrame(Top)
  BY <1>1, InLoop DEF Object
<1>3. KeyText(Member.key) = {key} /\ (CHOOSE k \in {key} : TRUE) = key
  BY <1>1 DEF KeyText, Some, None
<1>4. key \in Text
  <2> DEFINE P == [key : DOMAIN Heap, value : DOMAIN Heap]
  <2>1. Object.members \in Seq(P)
    BY <1>2, HeapAssumption DEF IsFrame, IsObject
  <2>2. Member \in P
    <3> HIDE DEF P
    <3>1. Top.taken + 1 \in 1..Len(Object.members)
      BY <1>1, <1>2, <2>1, LenProperties DEF IsFrame, Pending
    <3> QED  BY <2>1, <3>1, ElementOfSeq DEF Member
  <2>3. Member.key \in DOMAIN Heap
    BY <2>2
  <2>4. IsObject(Heap[Member.key])
    BY <2>3, HeapAssumption
  <2>5. Heap[Member.key].kind \in {"string", "symbol"} /\ key = Heap[Member.key].text
    BY <1>1 DEF KeyText, Some, None
  <2> QED  BY <2>4, <2>5 DEF IsObject
<1>5. KeySegment(key) \in Segments
  BY <1>4 DEF KeySegment, Segments, Some
<1>6. \A at, below : MeaningOfMember(Object, Top.taken + 1, at, below)
                       = below[Member.value][Append(at, KeySegment(key))]
  BY <1>2, <1>3 DEF MeaningOfMember, Member, None
<1> QED  BY <1>1, <1>5, <1>6, DescendMeans DEF Collections

LEMMA RefuseKeyMeans == ASSUME IInv, MeaningInv, RefuseKey PROVE MeaningInv'
<1> DEFINE n == Len(frames)
           k == Top.taken + 1
           rest == Meanings[NativeDepth - n]
<1>1. /\ InCollection("hash") /\ Pending /\ KeyText(Member.key) = None
      /\ error' = {InvalidHashKey(path)} /\ UNCHANGED <<payload, mode, focus, path, outcome>>
  BY DEF RefuseKey, Some
<1>2. /\ ~ReadsString /\ ~ReadsString' /\ outcome = None
      /\ n \in Nat \ {0}
      /\ Decides(path, n, Top.object, payload)
      /\ Meant(path, n, Top.object) = MeaningOfCollection(Object, path, rest)
      /\ \A j : MemberMeant(path, n, Top.object, j) = MeaningOfMember(Object, j, path, rest)
      /\ \A j \in 1..Top.taken : MemberMeant(path, n, Top.object, j) = Owned(Top.parts[j])
      /\ Len(Object.members) \in Nat /\ DOMAIN Object.members = 1..Len(Object.members)
      /\ Top.taken \in 0..Len(Object.members)
  BY <1>1, LoopMeans DEF Collections, ReadsString
<1> HIDE DEF n, rest
<1>3. MeaningOfMember(Object, k, path, rest) = Refused(InvalidHashKey(path))
  BY <1>1 DEF MeaningOfMember, Member, InCollection
<1>4. Refused(InvalidHashKey(path)).kind # "owned"
  BY DEF Refused
<1>5. MeaningOfCollection(Object, path, rest) = Refused(InvalidHashKey(path))
  <2>1. k \in 1..Len(Object.members)
    BY <1>1, <1>2 DEF Pending
  <2>2. \A j \in 1..(k - 1) : MeaningOfMember(Object, j, path, rest).kind = "owned"
    <3> TAKE j \in 1..(k - 1)
    <3>1. j \in 1..Top.taken
      BY <1>2
    <3>2. MeaningOfMember(Object, j, path, rest) = Owned(Top.parts[j])
      BY <1>2, <3>1
    <3> QED  BY <3>2 DEF Owned
  <2> HIDE DEF k
  <2> QED  BY <1>2, <1>3, <1>4, <2>1, <2>2, FaultIsFirst
<1>6. Whole(payload) = Refused(InvalidHashKey(path))
  BY <1>2, <1>4, <1>5 DEF Decides
<1>7. OutcomeIsMeaning'
  BY <1>1, <1>2 DEF OutcomeIsMeaning, None
<1> QED  BY <1>1, <1>2, <1>6, <1>7 DEF MeaningInv, Whole, None

LEMMA CloseCollectionMeans == ASSUME IInv, MeaningInv, CloseCollection PROVE MeaningInv'
<1> DEFINE n == Len(frames)
           value == IF Object.kind = "array" THEN ListValue(Top.parts) ELSE DictValue(EntriesOf(Top))
           below == Front(frames)
           rest == Meanings[NativeDepth - n]
<1>1. PICK kind \in Collections : InCollection(kind)
  BY DEF CloseCollection
<1>2. Return(value, below) /\ ~Pending
  BY DEF CloseCollection
<1>3. /\ ~ReadsString /\ error = None /\ outcome = None
      /\ n \in Nat \ {0} /\ n <= NativeDepth /\ Top = frames[n]
      /\ path \in Seq(Segments) /\ Len(path) = n - 1
      /\ Sound(frames, path, payload)
      /\ UpTo(path, n) = path
      /\ Meant(path, n, Top.object) = MeaningOfCollection(Object, path, rest)
      /\ \A j : MemberMeant(path, n, Top.object, j) = MeaningOfMember(Object, j, path, rest)
      /\ \A j \in 1..Top.taken : MemberMeant(path, n, Top.object, j) = Owned(Top.parts[j])
      /\ Len(Object.members) \in Nat /\ DOMAIN Object.members = 1..Len(Object.members)
      /\ Top.taken \in 0..Len(Object.members)
  BY <1>1, LoopMeans
<1>4. /\ IsFrame(Top) /\ IsSeq(Top.parts) /\ Object.kind = kind /\ Len(Top.parts) = Top.taken
      /\ IsSeq(below) /\ Len(below) = n - 1
      /\ \A i \in 1..(n - 1) : below[i] = frames[i] /\ Waits(frames[i])
  BY <1>1, InLoop
<1>5. Top.taken = Len(Object.members)
  BY <1>2, <1>3 DEF Pending
<1> HIDE DEF n, rest, below
<1>6. Meant(path, n, Top.object) = Owned(value)
  <2>1. \A j \in 1..Len(Object.members) : MeaningOfMember(Object, j, path, rest) = Owned(Top.parts[j])
    BY <1>3, <1>5
  <2>2. MeaningOfCollection(Object, path, rest) =
          Owned(IF Object.kind = "array" THEN ListValue(Top.parts) ELSE DictValue(EntriesWith(Object, Top.parts)))
    <3> DEFINE o == Object  parts == Top.parts
    <3>1. o.kind \in Collections /\ DOMAIN o.members = 1..Len(o.members)
      BY <1>3, <1>4
    <3>2. IsSeq(parts) /\ Len(parts) = Len(o.members)
      BY <1>4, <1>5
    <3>3. \A j \in 1..Len(o.members) : MeaningOfMember(o, j, path, rest) = Owned(parts[j])
      BY <2>1
    <3> HIDE DEF o, parts
    <3>4. MeaningOfCollection(o, path, rest) =
            Owned(IF o.kind = "array" THEN ListValue(parts) ELSE DictValue(EntriesWith(o, parts)))
      BY <3>1, <3>2, <3>3, ValueOfMembers
    <3> QED  BY <3>4 DEF o, parts
  <2>3. EntriesOf(Top) = EntriesWith(Object, Top.parts)
    BY <1>4, <1>5 DEF EntriesOf, EntriesWith, Object
  <2> QED  BY <1>3, <2>2, <2>3
<1> HIDE DEF value
<1>7. below = <<>> => Whole(payload) = Owned(value)
  <2> HAVE below = <<>>
  <2>1. n = 1
    BY <1>3, <1>4, EmptyIsSeq
  <2>2. Top.object = payload
    BY <1>3, <2>1 DEF Sound, n
  <2>3. UpTo(path, 1) = <<>> /\ NativeDepth - (1 - 1) = NativeDepth
    BY <1>3, PathUpTo, HeapAssumption
  <2> QED  BY <1>6, <2>1, <2>2, <2>3 DEF Meant, Whole
<1>8. below # <<>> => MemberMeant(path, Len(below), below[Len(below)].object, below[Len(below)].taken) = Owned(value)
  <2> HAVE below # <<>>
  <2>1. n - 1 \in Nat \ {0}
    BY <1>4, EmptySeq DEF IsSeq
  <2>2. n - 1 \in 1..Len(frames) /\ n - 1 < Len(frames) /\ (n - 1) + 1 = n
    BY <1>3, <2>1 DEF n
  <2>3. MemberMeant(path, n - 1, frames[n - 1].object, frames[n - 1].taken) = Meant(path, (n - 1) + 1, frames[(n - 1) + 1].object)
    BY <1>3, <2>2 DEF Sound
  <2>4. below[n - 1] = frames[n - 1]
    BY <1>4, <2>1
  <2> QED  BY <1>3, <1>4, <1>6, <2>2, <2>3, <2>4
<1>9. Len(below) <= Len(frames) /\ Len(frames) \in Nat /\ Len(path) = Len(below)
      /\ \A i \in 1..Len(below) : below[i] = frames[i] /\ Waits(below[i])
  BY <1>3, <1>4 DEF n
<1> QED  BY <1>2, <1>3, <1>4, <1>7, <1>8, <1>9, ReturnMeans

LEMMA RefuseObjectMeans == ASSUME IInv, MeaningInv, RefuseObject PROVE MeaningInv'
<1>1. PICK x \in focus :
        /\ outcome = None /\ Heap[x].kind = "object" /\ error' = {UnsupportedType(path)}
        /\ UNCHANGED <<payload, mode, frames, path, outcome>>
  BY DEF RefuseObject, Some
<1> DEFINE n == Len(frames)
<1>2. /\ ~ReadsString /\ ~ReadsString' /\ InHand(frames, path, payload, x)
      /\ Meant(path, n + 1, x) = MeaningOf(Heap[x], path, NativeDepth - n, Meanings)
  BY <1>1, ObjectMeans DEF ReadsString
<1>3. Meant(path, n + 1, x) = Refused(UnsupportedType(path))
  BY <1>1, <1>2 DEF MeaningOf
<1>4. Whole(payload) = Refused(UnsupportedType(path))
  BY <1>2, <1>3 DEF InHand, Decides, Refused
<1>5. OutcomeIsMeaning'
  BY <1>1 DEF OutcomeIsMeaning, None
<1> QED  BY <1>1, <1>2, <1>4, <1>5 DEF MeaningInv, Whole, None

\* An object that makes Ruby raise, or for which there is no room.
LEMMA RaiseMeans == ASSUME IInv, MeaningInv, RaiseWide \/ OverflowStack PROVE MeaningInv'
<1> DEFINE n == Len(frames)
<1>1. PICK x \in focus, class \in {"RangeError", "SystemStackError"} :
        /\ outcome = None /\ End(Raised(class))
        /\ IF class = "RangeError" THEN Heap[x].kind = "integer" /\ Heap[x].num \notin I64
           ELSE Heap[x].kind \in Collections /\ n = NativeDepth
  BY DEF RaiseWide, OverflowStack
<1>2. /\ InHand(frames, path, payload, x) /\ n \in Nat
      /\ Meant(path, n + 1, x) = MeaningOf(Heap[x], path, NativeDepth - n, Meanings)
  BY <1>1, ObjectMeans
<1>3. Meant(path, n + 1, x) = Raised(class)
  <2>1. CASE class = "RangeError"
    BY <1>1, <1>2, <2>1 DEF MeaningOf
  <2>2. CASE class # "RangeError"
    <3>1. NativeDepth - n = 0 /\ Heap[x].kind \in {"array", "hash"} /\ class = "SystemStackError"
      BY <1>1, <1>2, <2>2, HeapAssumption DEF Collections
    <3> QED  BY <1>2, <3>1 DEF MeaningOf, Scalars
  <2> QED  BY <2>1, <2>2
<1>4. Raised(class) = Whole(payload)
  BY <1>2, <1>3 DEF InHand, Decides, Raised
<1> QED  BY <1>1, <1>4, EndMeans

LEMMA UnwindMeans == ASSUME IInv, MeaningInv, Unwind PROVE MeaningInv'
<1>1. /\ outcome = None /\ error # None /\ path' \in {path, Front(path)}
      /\ UNCHANGED <<payload, mode, focus, error, outcome>>
  BY DEF Unwind
<1>2. path' \in Seq(Segments) /\ ~ReadsString'
  BY <1>1, FrontIsSeq DEF MeaningInv, ReadsString
<1>3. OutcomeIsMeaning'
  BY <1>1 DEF OutcomeIsMeaning, None
<1> QED  BY <1>1, <1>2, <1>3 DEF MeaningInv, Whole

LEMMA ConvertOwnedMeans == ASSUME IInv, MeaningInv, ConvertOwned PROVE MeaningInv'
<1>1. /\ outcome = None /\ error = None /\ focus = None /\ frames = <<>> /\ ~ReadsString
      /\ focus' = {payload} /\ UNCHANGED <<payload, mode, frames, path, error, outcome>>
  BY DEF ConvertOwned, Unstarted, Some
<1>2. Len(frames) = 0 /\ path \in Seq(Segments)
  BY <1>1, EmptyIsSeq DEF MeaningInv
<1>3. UpTo(path, 1) = <<>> /\ NativeDepth - ((0 + 1) - 1) = NativeDepth
  BY <1>2, PathUpTo, HeapAssumption
<1>4. Meant(path, 0 + 1, payload) = Whole(payload)
  BY <1>3 DEF Meant, Whole
<1>5. Sound(frames, path, payload) /\ InHand(frames, path, payload, payload)
  BY <1>1, <1>2, <1>4 DEF Sound, InHand, Decides
<1>6. OutcomeIsMeaning'
  BY <1>1 DEF OutcomeIsMeaning, None
<1> QED  BY <1>1, <1>2, <1>5, <1>6 DEF MeaningInv, ReadsString, None

LEMMA StepMeans == IInv /\ MeaningInv /\ [Next]_vars => MeaningInv'
<1> SUFFICES ASSUME IInv, MeaningInv, [Next]_vars PROVE MeaningInv'  OBVIOUS
<1>1. CASE TakeSource \/ RaiseNul \/ RefuseSource
  <2>1. PICK o : End(o) /\ ReadsString /\ o.kind # "owned"
    BY <1>1 DEF TakeSource, RaiseNul, RefuseSource, Source, Raised, Refused
  <2> QED  BY <2>1, EndMeans
<1>2. CASE Refuse
  <2>1. PICK e \in error : End(Refused(e))
    BY <1>2 DEF Refuse
  <2>2. Refused(e) = Whole(payload)
    BY DEF MeaningInv
  <2> QED  BY <2>1, <2>2, EndMeans
<1>3. CASE UNCHANGED vars
  <2>1. OutcomeIsMeaning'
    BY <1>3 DEF vars, MeaningInv, OutcomeIsMeaning, ReadsString
  <2> QED  BY <1>3, <2>1 DEF vars, MeaningInv, ReadsString, Whole
<1> QED  BY <1>1, <1>2, <1>3, ConvertOwnedMeans, ConvertScalarMeans, RaiseMeans, RefuseObjectMeans,
            OpenCollectionMeans, ConvertElementMeans, ConvertPairMeans, RefuseKeyMeans,
            CloseCollectionMeans, UnwindMeans
         DEF Next

\* prepare_input returns the copy that the payload means, or fails with the
\* fault that comes first in it, at its path: whatever the heap, shared objects
\* and those that contain themselves included.
THEOREM ConversionIsMeaning == Spec => []OutcomeIsMeaning
<1>1. Init => MeaningInv
  BY InitMeans
<1>2. MeaningInv => OutcomeIsMeaning
  BY DEF MeaningInv
<1> QED  BY <1>1, <1>2, StepMeans, Inductive, PTL DEF Spec
=============================================================================
