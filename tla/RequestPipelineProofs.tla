------------------------ MODULE RequestPipelineProofs ------------------------
(***************************************************************************)
(* What TLAPS proves of RequestPipeline and, on the way, of Tracing: an    *)
(* inductive invariant of Spec, that every step of PipelineNext is a step  *)
(* of Tracing or leaves it alone, and what the requests add to it.         *)
(***************************************************************************)
EXTENDS RequestPipeline, SequenceTheorems, FiniteSetTheorems, TLAPS

-----------------------------------------------------------------------------
(* How the steps change a goroutine's spans, the stack and the files, said  *)
(* element by element.                                                      *)
Pos == Nat \ {0}

Grown(g, s) ==
  /\ open' \in [Goroutines -> Seq(Span)]
  /\ Len(open'[g]) = Len(open[g]) + 1
  /\ \A i \in 1..Len(open[g]) : open'[g][i] = open[g][i]
  /\ open'[g][Len(open[g]) + 1] = s
  /\ \A h \in Goroutines : h # g => open'[h] = open[h]

Shrunk(g) ==
  /\ open' \in [Goroutines -> Seq(Span)]
  /\ Len(open'[g]) = Len(open[g]) - 1
  /\ \A i \in 1..(Len(open[g]) - 1) : open'[g][i] = open[g][i]
  /\ \A h \in Goroutines : h # g => open'[h] = open[h]

Pushed(id) ==
  /\ traceStack' \in Seq(Ids \ {0})
  /\ Len(traceStack') = Len(traceStack) + 1
  /\ \A i \in 1..Len(traceStack) : traceStack'[i] = traceStack[i]
  /\ traceStack'[Len(traceStack) + 1] = id

Popped ==
  /\ traceStack' \in Seq(Ids \ {0})
  /\ Len(traceStack') = IF Len(traceStack) > 0 THEN Len(traceStack) - 1 ELSE 0
  /\ \A i \in 1..Len(traceStack') : traceStack'[i] = traceStack[i]

FiledAt(k, handle) ==
  /\ spans' \in [Keys -> Seq(1..MaxSpans)]
  /\ Len(spans'[k]) = Len(spans[k]) + 1
  /\ \A i \in 1..Len(spans[k]) : spans'[k][i] = spans[k][i]
  /\ spans'[k][Len(spans[k]) + 1] = handle
  /\ \A l \in Keys : l # k => spans'[l] = spans[l]

TakenFrom(k) ==
  /\ spans' \in [Keys -> Seq(1..MaxSpans)]
  /\ Len(spans'[k]) = Len(spans[k]) - 1
  /\ \A i \in 1..(Len(spans[k]) - 1) : spans'[k][i] = spans[k][i]
  /\ \A l \in Keys : l # k => spans'[l] = spans[l]

PcMoved(g, c) ==
  /\ pc' \in [Goroutines -> {"run", "register", "pop"}]
  /\ pc'[g] = c
  /\ \A h \in Goroutines : h # g => pc'[h] = pc[h]

Counted(k, n) ==
  /\ taken' \in [Keys -> Int]
  /\ taken'[k] = taken[k] + n
  /\ \A l \in Keys : l # k => taken'[l] = taken[l]

LEMMA FrontOf ==
  ASSUME NEW S, NEW s \in Seq(S), s # <<>>
  PROVE  /\ Front(s) \in Seq(S)
         /\ Len(Front(s)) = Len(s) - 1
         /\ \A i \in 1..(Len(s) - 1) : Front(s)[i] = s[i]
         /\ Len(s) \in Nat \ {0}
         /\ Top(s) \in S
<1>1. Len(s) \in Nat \ {0}
  BY EmptySeq
<1>2. \A i \in 1..(Len(s) - 1) : s[i] \in S
  BY <1>1, ElementOfSeq
<1> DEFINE n == Len(s) - 1
<1>3. /\ Front(s) \in Seq(S)
      /\ Len(Front(s)) = IF 1 <= n THEN n - 1 + 1 ELSE 0
      /\ \A i \in 1..(n - 1 + 1) : Front(s)[i] = s[1 + i - 1]
  <2>1. n \in Int
    BY <1>1
  <2> HIDE DEF n
  <2>2. \A i \in 1..n : s[i] \in S
    BY <1>2 DEF n
  <2>3. /\ SubSeq(s, 1, n) \in Seq(S)
        /\ Len(SubSeq(s, 1, n)) = IF 1 <= n THEN n - 1 + 1 ELSE 0
        /\ \A i \in 1..(n - 1 + 1) : SubSeq(s, 1, n)[i] = s[1 + i - 1]
    BY <2>1, <2>2, SubSeqProperties
  <2> QED
    BY <2>3 DEF n, Front
<1>4. Top(s) \in S
  BY <1>1, ElementOfSeq DEF Top
<1>5. Len(Front(s)) = Len(s) - 1
  <2>1. n \in Int /\ n >= 0
    BY <1>1
  <2>2. (IF 1 <= n THEN n - 1 + 1 ELSE 0) = n
    <3> HIDE DEF n
    <3> QED  BY <2>1
  <2> QED
    BY <1>3, <2>2
<1>6. ASSUME NEW i \in 1..(Len(s) - 1)
      PROVE  Front(s)[i] = s[i]
  <2>1. i \in 1..(n - 1 + 1) /\ 1 + i - 1 = i
    BY <1>1
  <2> QED
    BY <1>3, <2>1
<1> QED
  BY <1>1, <1>3, <1>4, <1>5, <1>6

LEMMA AppendOf ==
  ASSUME NEW S, NEW s \in Seq(S), NEW e \in S
  PROVE  /\ Append(s, e) \in Seq(S)
         /\ Len(Append(s, e)) = Len(s) + 1
         /\ \A i \in 1..Len(s) : Append(s, e)[i] = s[i]
         /\ Append(s, e)[Len(s) + 1] = e
  OBVIOUS

LEMMA OpenGrows ==
  ASSUME TypeOK, NEW g \in Goroutines, NEW s \in Span,
         open' = [open EXCEPT ![g] = Append(@, s)]
  PROVE  Grown(g, s)
<1>1. open \in [Goroutines -> Seq(Span)]
  BY DEF TypeOK
<1>2. open[g] \in Seq(Span)
  BY <1>1
<1>3. /\ Append(open[g], s) \in Seq(Span)
      /\ Len(Append(open[g], s)) = Len(open[g]) + 1
      /\ \A i \in 1..Len(open[g]) : Append(open[g], s)[i] = open[g][i]
      /\ Append(open[g], s)[Len(open[g]) + 1] = s
  BY <1>2, AppendOf
<1>4. open'[g] = Append(open[g], s)
  BY <1>1
<1> QED
  BY <1>1, <1>3, <1>4 DEF Grown

LEMMA OpenShrinks ==
  ASSUME TypeOK, NEW g \in Goroutines, open[g] # <<>>,
         open' = [open EXCEPT ![g] = Front(@)]
  PROVE  Shrunk(g)
<1>1. open \in [Goroutines -> Seq(Span)]
  BY DEF TypeOK
<1>2. open[g] \in Seq(Span)
  BY <1>1
<1>3. /\ Front(open[g]) \in Seq(Span)
      /\ Len(Front(open[g])) = Len(open[g]) - 1
      /\ \A i \in 1..(Len(open[g]) - 1) : Front(open[g])[i] = open[g][i]
  BY <1>2, FrontOf
<1>4. open'[g] = Front(open[g])
  BY <1>1
<1> QED
  BY <1>1, <1>3, <1>4 DEF Shrunk

LEMMA StackPushed ==
  ASSUME TypeOK, NEW id \in Ids \ {0}, PushActiveTraceID(id)
  PROVE  Pushed(id)
<1>1. traceStack \in Seq(Ids \ {0})
  BY DEF TypeOK
<1> QED
  BY <1>1, AppendOf DEF Pushed, PushActiveTraceID

LEMMA StackPopped ==
  ASSUME TypeOK, PopActiveTraceID
  PROVE  Popped
<1>1. traceStack \in Seq(Ids \ {0})
  BY DEF TypeOK
<1>2. CASE Len(traceStack) > 0
  <2>1. traceStack # <<>> /\ traceStack' = Front(traceStack)
    BY <1>1, <1>2 DEF PopActiveTraceID
  <2>2. /\ Front(traceStack) \in Seq(Ids \ {0})
        /\ Len(Front(traceStack)) = Len(traceStack) - 1
        /\ \A i \in 1..(Len(traceStack) - 1) :
             Front(traceStack)[i] = traceStack[i]
    BY <1>1, <2>1, FrontOf
  <2> QED
    BY <1>2, <2>1, <2>2 DEF Popped
<1>3. CASE ~(Len(traceStack) > 0)
  BY <1>1, <1>3 DEF PopActiveTraceID, Popped
<1> QED
  BY <1>2, <1>3

LEMMA SpanFiled ==
  ASSUME TypeOK, NEW k \in Keys, NEW handle \in 1..MaxSpans,
         spans' = [spans EXCEPT ![k] = Append(@, handle)]
  PROVE  FiledAt(k, handle)
<1>1. spans \in [Keys -> Seq(1..MaxSpans)]
  BY DEF TypeOK
<1>2. spans[k] \in Seq(1..MaxSpans)
  BY <1>1
<1>3. /\ Append(spans[k], handle) \in Seq(1..MaxSpans)
      /\ Len(Append(spans[k], handle)) = Len(spans[k]) + 1
      /\ \A i \in 1..Len(spans[k]) : Append(spans[k], handle)[i] = spans[k][i]
      /\ Append(spans[k], handle)[Len(spans[k]) + 1] = handle
  BY <1>2, AppendOf
<1>4. spans'[k] = Append(spans[k], handle)
  BY <1>1
<1> QED
  BY <1>1, <1>3, <1>4 DEF FiledAt

LEMMA SpanTaken ==
  ASSUME TypeOK, NEW k \in Keys, spans[k] # <<>>,
         spans' = [spans EXCEPT ![k] = Front(@)]
  PROVE  TakenFrom(k)
<1>1. spans \in [Keys -> Seq(1..MaxSpans)]
  BY DEF TypeOK
<1>2. spans[k] \in Seq(1..MaxSpans)
  BY <1>1
<1>3. /\ Front(spans[k]) \in Seq(1..MaxSpans)
      /\ Len(Front(spans[k])) = Len(spans[k]) - 1
      /\ \A i \in 1..(Len(spans[k]) - 1) : Front(spans[k])[i] = spans[k][i]
  BY <1>2, FrontOf
<1>4. spans'[k] = Front(spans[k])
  BY <1>1
<1> QED
  BY <1>1, <1>3, <1>4 DEF TakenFrom

LEMMA PcMoves ==
  ASSUME TypeOK, NEW g \in Goroutines, NEW c \in {"run", "register", "pop"},
         pc' = [pc EXCEPT ![g] = c]
  PROVE  PcMoved(g, c)
  BY DEF TypeOK, PcMoved

-----------------------------------------------------------------------------
(* The inductive invariant of Tracing.                                      *)

(* Without the bridge no span has a handle, and nothing is on file.         *)
BridgeOff ==
  ~bridge =>
    /\ left = 0
    /\ \A g \in Goroutines : pc[g] = "run"
    /\ \A g \in Goroutines : \A i \in 1..Len(open[g]) : open[g][i].handle = 0
    /\ \A k \in Keys : spans[k] = <<>> /\ taken[k] = 0

(* A span the bridge did not start is the resumed one of a request: the     *)
(* first of its goroutine.                                                  *)
SpanSound(g, i) ==
  /\ open[g][i].id # 0
  /\ open[g][i].handle # 0 =>
       open[g][i].id \in 1..created /\ open[g][i].handle \in 1..created
  /\ open[g][i].handle = 0 /\ bridge => i = 1

SpansSound == \A g \in Goroutines : \A i \in 1..Len(open[g]) : SpanSound(g, i)

PcSound ==
  \A g \in Goroutines :
    /\ pc[g] # "run" => bridge
    /\ pc[g] = "register" => open[g] # <<>> /\ Top(open[g]).handle # 0

(* No handle is on file twice, none that was ended, and none that is still  *)
(* to be filed.                                                             *)
Unfiled(x) ==
  /\ x \in (1..created) \ ended
  /\ \A k \in Keys : \A i \in 1..Len(spans[k]) : spans[k][i] # x

FilesRunning ==
  \A k \in Keys : \A i \in 1..Len(spans[k]) : spans[k][i] \in (1..created) \ ended

FilesUnique ==
  \A k, l \in Keys : \A i \in 1..Len(spans[k]), j \in 1..Len(spans[l]) :
    spans[k][i] = spans[l][j] => k = l /\ i = j

RegisteringNew ==
  \A g \in Goroutines :
    pc[g] = "register" =>
      /\ Unfiled(Top(open[g]).handle)
      /\ \A h \in Goroutines \ {g} :
           pc[h] = "register" => Top(open[h]).handle # Top(open[g]).handle

(* A handle is on file, or about to be filed, until it is ended.            *)
Accounted ==
  bridge => \A h \in 1..created :
    \/ h \in ended
    \/ \E k \in Keys : \E i \in 1..Len(spans[k]) : spans[k][i] = h
    \/ \E g \in Goroutines : pc[g] = "register" /\ Top(open[g]).handle = h

(* A key has as many handles as goroutines have spans with it on file, but  *)
(* for those that resumed requests have taken.                              *)
Registered ==
  \A k \in Keys : /\ IsFiniteSet(FiledUnder(k))
                  /\ Len(spans[k]) + taken[k] = Cardinality(FiledUnder(k))

(* An id the bridge left on the stack is that of a resumed request, or of   *)
(* a span that one took; every span still to miss what was taken from it    *)
(* will leave another.                                                      *)
Resuming == {g \in Goroutines : open[g] # <<>> /\ open[g][1].handle = 0}
Debts == {x \in Keys \X Pos : x[2] <= taken[x[1]]}
LeftBound ==
  bridge => /\ IsFiniteSet(Resuming) /\ IsFiniteSet(Debts)
            /\ left + Cardinality(Resuming) + Cardinality(Debts) <= resumed

Depth == IsFiniteSet(Held) /\ DepthMatchesOpen

(* As long as goroutines had spans one at a time, no request took another's *)
(* span, and the stack is what was left on it and the ids of the one that   *)
(* has spans.                                                               *)
OwnStack(g) ==
  /\ Len(traceStack) = left + HeldBy(g)
  /\ \A i \in 1..Len(open[g]) : traceStack[left + i] = open[g][i].id

NoneTaken == \A k \in Keys : taken[k] = 0

OwnOnTop ==
  ~overlapped =>
    /\ \A g, h \in Goroutines : Busy(g) /\ Busy(h) => g = h
    /\ NoneTaken
    /\ \A g \in Goroutines : Alone(g) => OwnStack(g)

Shape == TypeOK /\ BridgeOff /\ SpansSound /\ PcSound
Files == FilesRunning /\ FilesUnique /\ RegisteringNew /\ Accounted /\ Registered
TracingInv == Shape /\ Files /\ LeftBound /\ Depth /\ OwnOnTop

-----------------------------------------------------------------------------
(* What the steps of Tracing do.                                            *)
Begins(g, s) ==
  /\ g \in Goroutines /\ s \in Span /\ s.id # 0
  /\ Grown(g, s) /\ Pushed(s.id)
  /\ overlapped' = (overlapped \/ ~Alone(g))
  /\ UNCHANGED <<bridge, spans, ended, left, taken>>

BeginsLocal(g, s) ==
  /\ ~bridge /\ created < MaxSpans
  /\ s.id = created + 1 /\ s.handle = 0
  /\ Begins(g, s)
  /\ created' = created + 1
  /\ UNCHANGED <<pc, resumed>>

BeginsResumed(g, s) ==
  /\ pc[g] = "run" /\ open[g] = <<>> /\ resumed < MaxResumed
  /\ s.handle = 0
  /\ Begins(g, s)
  /\ resumed' = resumed + 1
  /\ UNCHANGED <<pc, created>>

BeginsOTel(g, s) ==
  /\ bridge /\ pc[g] = "run" /\ created < MaxSpans
  /\ s.id \in 1..(created + 1) /\ s.handle = created + 1
  /\ Begins(g, s) /\ PcMoved(g, "register")
  /\ created' = created + 1
  /\ UNCHANGED resumed

Registers(g, s) ==
  /\ g \in Goroutines /\ pc[g] = "register" /\ open[g] # <<>>
  /\ s = Top(open[g]) /\ s \in Span /\ s.handle \in 1..created
  /\ FiledAt(KeyOf(s), s.handle) /\ PcMoved(g, "run")
  /\ UNCHANGED <<bridge, traceStack, open, ended, created, resumed, left, taken,
                 overlapped>>

EndsLocal(g) ==
  /\ g \in Goroutines /\ ~bridge /\ open[g] # <<>>
  /\ Shrunk(g) /\ Popped
  /\ UNCHANGED <<bridge, pc, spans, ended, created, resumed, left, taken, overlapped>>

EndsOTel(g, s) ==
  /\ g \in Goroutines /\ bridge /\ pc[g] = "run" /\ open[g] # <<>>
  /\ s = Top(open[g]) /\ s \in Span /\ spans[KeyOf(s)] # <<>>
  /\ Shrunk(g) /\ TakenFrom(KeyOf(s)) /\ PcMoved(g, "pop")
  /\ ended' = ended \union {Top(spans[KeyOf(s)])}
  /\ IF s.handle # 0 THEN taken' = taken ELSE Counted(KeyOf(s), 1)
  /\ UNCHANGED <<bridge, traceStack, created, resumed, left, overlapped>>

PopsOTel(g) ==
  /\ g \in Goroutines /\ pc[g] = "pop"
  /\ Popped /\ PcMoved(g, "run")
  /\ UNCHANGED <<bridge, open, spans, ended, created, resumed, left, taken, overlapped>>

EndsUnknown(g, s) ==
  /\ g \in Goroutines /\ bridge /\ pc[g] = "run" /\ open[g] # <<>>
  /\ s = Top(open[g]) /\ s \in Span /\ spans[KeyOf(s)] = <<>>
  /\ Shrunk(g)
  /\ left' = left + 1
  /\ IF s.handle = 0 THEN taken' = taken ELSE Counted(KeyOf(s), -1)
  /\ UNCHANGED <<bridge, traceStack, pc, spans, ended, created, resumed, overlapped>>

StepOf(g) ==
  \/ \E s \in Span : \/ BeginsLocal(g, s) \/ BeginsResumed(g, s) \/ BeginsOTel(g, s)
                    \/ Registers(g, s) \/ EndsOTel(g, s) \/ EndsUnknown(g, s)
  \/ EndsLocal(g) \/ PopsOTel(g)

LEMMA TopIs ==
  ASSUME TypeOK, NEW g \in Goroutines, open[g] # <<>>
  PROVE  /\ Len(open[g]) \in Nat \ {0}
         /\ Top(open[g]) = open[g][Len(open[g])]
         /\ Top(open[g]) \in Span
         /\ Innermost(g) = Top(open[g])
<1>1. open[g] \in Seq(Span)
  BY DEF TypeOK
<1> QED
  BY <1>1, FrontOf DEF Innermost, Top

LEMMA KeyTyped ==
  ASSUME NEW s \in Span
  PROVE  KeyOf(s) \in Keys
  BY DEF Span, Keys, KeyOf

LEMMA CountMoves ==
  ASSUME TypeOK, NEW k \in Keys
  PROVE  /\ taken' = [taken EXCEPT ![k] = @ + 1] => Counted(k, 1)
         /\ taken' = [taken EXCEPT ![k] = @ - 1] => Counted(k, -1)
  BY DEF TypeOK, Counted

LEMMA BeginsIs ==
  ASSUME TypeOK, NEW g \in Goroutines, NEW s \in Span, s.id # 0,
         Opens(g, s), PushActiveTraceID(s.id),
         UNCHANGED <<bridge, spans, ended, left, taken>>
  PROVE  Begins(g, s)
<1>1. s.id \in Ids \ {0}
  BY DEF Span
<1>2. open' = [open EXCEPT ![g] = Append(@, s)]
  BY DEF Opens
<1>3. Grown(g, s)
  BY <1>2, OpenGrows
<1>4. Pushed(s.id)
  BY <1>1, StackPushed
<1> QED
  BY <1>3, <1>4 DEF Begins, Opens

LEMMA LocalStartIs ==
  ASSUME TypeOK, NEW g \in Goroutines, NEW name \in Names, LocalStart(g, name)
  PROVE  StepOf(g)
<1> DEFINE s == [id |-> created', name |-> name, handle |-> 0]
<1>1. created \in 0..MaxSpans /\ MaxSpans \in Nat
  BY TracingAssumption DEF TypeOK
<1>2. created' = created + 1 /\ created < MaxSpans
  BY DEF LocalStart
<1>3. s \in Span /\ s.id # 0
  BY <1>1, <1>2 DEF Span, Ids
<1>4. Opens(g, s) /\ PushActiveTraceID(s.id)
  BY DEF LocalStart
<1>5. s.id = created + 1 /\ s.handle = 0
  BY <1>2
<1> HIDE DEF s
<1>6. Begins(g, s)
  BY <1>3, <1>4, BeginsIs DEF LocalStart
<1>7. BeginsLocal(g, s)
  BY <1>5, <1>6 DEF BeginsLocal, LocalStart
<1> QED
  BY <1>3, <1>7 DEF StepOf

LEMMA ResumeIs ==
  ASSUME TypeOK, NEW g \in Goroutines, NEW name \in Names,
         NEW id \in Incoming \union 1..created, Resume(g, name, id)
  PROVE  StepOf(g)
<1> DEFINE s == [id |-> id, name |-> name, handle |-> 0]
<1>0. id \in Ids /\ id # 0
  BY TracingAssumption DEF Ids, TypeOK
<1>1. s \in Span /\ s.id # 0
  BY <1>0, TracingAssumption DEF Span
<1>2. Opens(g, s) /\ PushActiveTraceID(s.id)
  BY DEF Resume
<1>3. s.handle = 0
  OBVIOUS
<1> HIDE DEF s
<1>4. Begins(g, s)
  BY <1>1, <1>2, BeginsIs DEF Resume
<1>5. BeginsResumed(g, s)
  BY <1>3, <1>4 DEF BeginsResumed, Resume
<1> QED
  BY <1>1, <1>5 DEF StepOf

(* The id a span of the bridge takes from its parent.                       *)
LEMMA ChildOfSpan ==
  ASSUME TypeOK, SpansSound, NEW g \in Goroutines, NEW parent \in Parents(g)
  PROVE  TraceIDUnder(parent) \in 1..(created + 1)
<1>1. created \in Nat
  BY TracingAssumption DEF TypeOK
<1>2. CASE parent.handle = 0
  BY <1>1, <1>2 DEF TraceIDUnder
<1>3. CASE parent.handle # 0
  <2>1. parent # NoSpan
    BY <1>3 DEF NoSpan
  <2>2. PICK h \in Goroutines : parent = Innermost(h)
    BY <2>1 DEF Parents
  <2>3. open[h] # <<>>
    BY <2>1, <2>2 DEF Innermost
  <2>4. Len(open[h]) \in Nat \ {0} /\ parent = open[h][Len(open[h])]
    BY <2>2, <2>3, TopIs
  <2>5. SpanSound(h, Len(open[h]))
    BY <2>4 DEF SpansSound
  <2>6. parent.id \in 1..created
    BY <1>3, <2>4, <2>5 DEF SpanSound
  <2> QED
    BY <1>1, <1>3, <2>6 DEF TraceIDUnder
<1> QED
  BY <1>2, <1>3

LEMMA OTelStartIs ==
  ASSUME TypeOK, SpansSound, NEW g \in Goroutines, NEW name \in Names,
         OTelStart(g, name)
  PROVE  StepOf(g)
<1>1. created \in 0..MaxSpans /\ MaxSpans \in Nat
  BY TracingAssumption DEF TypeOK
<1>2. PICK parent \in Parents(g) :
        /\ Opens(g, [id |-> TraceIDUnder(parent), name |-> name,
                     handle |-> created + 1])
        /\ PushActiveTraceID(TraceIDUnder(parent))
  BY DEF OTelStart
<1>3. created' = created + 1 /\ created < MaxSpans
  BY DEF OTelStart
<1>4. TraceIDUnder(parent) \in 1..(created + 1)
  BY ChildOfSpan
<1> DEFINE s == [id |-> TraceIDUnder(parent), name |-> name, handle |-> created + 1]
<1>5. s \in Span /\ s.id # 0
  BY <1>1, <1>3, <1>4 DEF Span, Ids
<1>6. s.id \in 1..(created + 1) /\ s.handle = created + 1
  BY <1>4
<1>7. Opens(g, s) /\ PushActiveTraceID(s.id)
  BY <1>2
<1> HIDE DEF s
<1>8. Begins(g, s)
  BY <1>5, <1>7, BeginsIs DEF OTelStart
<1>9. PcMoved(g, "register")
  BY PcMoves DEF OTelStart
<1>10. BeginsOTel(g, s)
  BY <1>6, <1>8, <1>9 DEF BeginsOTel, OTelStart
<1> QED
  BY <1>5, <1>10 DEF StepOf

LEMMA RegisterIs ==
  ASSUME TypeOK, SpansSound, PcSound, NEW g \in Goroutines, OTelRegister(g)
  PROVE  StepOf(g)
<1> DEFINE s == Top(open[g])
<1>1. open[g] # <<>> /\ s.handle # 0 /\ pc[g] = "register"
  BY DEF PcSound, OTelRegister
<1>2. /\ Len(open[g]) \in Nat \ {0} /\ s = open[g][Len(open[g])]
      /\ s \in Span /\ Innermost(g) = s
  BY <1>1, TopIs
<1>3. SpanSound(g, Len(open[g]))
  BY <1>2 DEF SpansSound
<1>4. s.handle \in 1..created
  BY <1>1, <1>2, <1>3 DEF SpanSound
<1>5. spans' = [spans EXCEPT ![KeyOf(s)] = Append(@, s.handle)]
  BY <1>2 DEF OTelRegister
<1>6. KeyOf(s) \in Keys /\ s.handle \in 1..MaxSpans
  BY <1>2, <1>4, KeyTyped, TracingAssumption DEF TypeOK
<1>7. FiledAt(KeyOf(s), s.handle)
  BY <1>5, <1>6, SpanFiled
<1>8. PcMoved(g, "run")
  BY PcMoves DEF OTelRegister
<1>9. Registers(g, s)
  BY <1>1, <1>2, <1>4, <1>7, <1>8 DEF Registers, OTelRegister
<1> QED
  BY <1>2, <1>9 DEF StepOf

LEMMA LocalEndIs ==
  ASSUME TypeOK, NEW g \in Goroutines, LocalEnd(g)
  PROVE  StepOf(g)
<1>1. Shrunk(g) /\ Popped
  BY OpenShrinks, StackPopped DEF LocalEnd
<1>2. EndsLocal(g)
  BY <1>1 DEF EndsLocal, LocalEnd
<1> QED
  BY <1>2 DEF StepOf

LEMMA OTelEndIs ==
  ASSUME TypeOK, NEW g \in Goroutines, OTelEnd(g)
  PROVE  StepOf(g)
<1> DEFINE s == Top(open[g])
<1>1. open[g] # <<>>
  BY DEF OTelEnd
<1>2. s \in Span /\ Innermost(g) = s
  BY <1>1, TopIs
<1>3. KeyOf(s) \in Keys
  BY <1>2, KeyTyped
<1>4. /\ spans[KeyOf(s)] # <<>>
      /\ ended' = ended \union {Top(spans[KeyOf(s)])}
      /\ spans' = [spans EXCEPT ![KeyOf(s)] = Front(@)]
  BY <1>2 DEF OTelEnd
<1>5. Shrunk(g)
  BY OpenShrinks DEF OTelEnd
<1>6. TakenFrom(KeyOf(s))
  BY <1>3, <1>4, SpanTaken
<1>7. PcMoved(g, "pop")
  BY PcMoves DEF OTelEnd
<1>8. IF s.handle # 0 THEN taken' = taken ELSE Counted(KeyOf(s), 1)
  BY <1>2, <1>3, CountMoves DEF OTelEnd
<1>9. EndsOTel(g, s)
  BY <1>2, <1>4, <1>5, <1>6, <1>7, <1>8 DEF EndsOTel, OTelEnd
<1> QED
  BY <1>2, <1>9 DEF StepOf

LEMMA OTelPopIs ==
  ASSUME TypeOK, NEW g \in Goroutines, OTelPop(g)
  PROVE  StepOf(g)
<1>1. Popped /\ PcMoved(g, "run")
  BY StackPopped, PcMoves DEF OTelPop
<1>2. PopsOTel(g)
  BY <1>1 DEF PopsOTel, OTelPop
<1> QED
  BY <1>2 DEF StepOf

LEMMA OTelEndUnknownIs ==
  ASSUME TypeOK, NEW g \in Goroutines, OTelEndUnknown(g)
  PROVE  StepOf(g)
<1> DEFINE s == Top(open[g])
<1>1. open[g] # <<>>
  BY DEF OTelEndUnknown
<1>2. s \in Span /\ Innermost(g) = s
  BY <1>1, TopIs
<1>3. Shrunk(g)
  BY OpenShrinks DEF OTelEndUnknown
<1>4. KeyOf(s) \in Keys
  BY <1>2, KeyTyped
<1>5. IF s.handle = 0 THEN taken' = taken ELSE Counted(KeyOf(s), -1)
  BY <1>2, <1>4, CountMoves DEF OTelEndUnknown
<1>6. EndsUnknown(g, s)
  BY <1>1, <1>2, <1>3, <1>5 DEF EndsUnknown, OTelEndUnknown
<1> QED
  BY <1>2, <1>6 DEF StepOf

LEMMA StepsAre ==
  ASSUME TypeOK, SpansSound, PcSound, Next
  PROVE  \E g \in Goroutines : StepOf(g)
<1>1. PICK g \in Goroutines :
        \/ \E name \in Names :
             \/ LocalStart(g, name) \/ OTelStart(g, name)
             \/ \E id \in Incoming \union 1..created : Resume(g, name, id)
        \/ LocalEnd(g) \/ OTelEnd(g) \/ OTelEndUnknown(g)
        \/ OTelRegister(g) \/ OTelPop(g)
  BY DEF Next, StartSpan, EndSpan
<1> QED
  BY <1>1, LocalStartIs, OTelStartIs, ResumeIs, LocalEndIs, OTelEndIs,
     OTelEndUnknownIs, RegisterIs, OTelPopIs

-----------------------------------------------------------------------------
(* The registry and the stack as sets of places <<g, i>>, the i-th span of  *)
(* goroutine g.                                                             *)
OnFile(g, i) ==
  /\ i \in 1..Len(open[g])
  /\ pc[g] = "register" => i # Len(open[g])
  /\ open[g][i].handle # 0

FiledPlaces(k) ==
  {x \in Goroutines \X Pos : OnFile(x[1], x[2]) /\ KeyOf(open[x[1]][x[2]]) = k}

HeldPlaces == {x \in Goroutines \X Pos : x[2] <= HeldBy(x[1])}

AllFiledPlaces == \A k \in Keys : FiledUnder(k) = FiledPlaces(k)

LEMMA FiledIs ==
  ASSUME TypeOK, PcSound, NEW g \in Goroutines
  PROVE  /\ Len(Filed(g)) \in Nat
         /\ \A i \in Pos : i \in 1..Len(Filed(g)) <=>
              i \in 1..Len(open[g]) /\ (pc[g] = "register" => i # Len(open[g]))
         /\ \A i \in 1..Len(Filed(g)) : Filed(g)[i] = open[g][i]
<1>1. open[g] \in Seq(Span)
  BY DEF TypeOK
<1>2. CASE pc[g] = "register"
  <2>1. open[g] # <<>> /\ Filed(g) = Front(open[g])
    BY <1>2 DEF PcSound, Filed
  <2>2. /\ Len(Filed(g)) = Len(open[g]) - 1
        /\ \A i \in 1..(Len(open[g]) - 1) : Filed(g)[i] = open[g][i]
        /\ Len(open[g]) \in Nat \ {0}
    BY <1>1, <2>1, FrontOf
  <2>3. \A i \in Pos : i \in 1..(Len(open[g]) - 1) <=>
          i \in 1..Len(open[g]) /\ i # Len(open[g])
    BY <2>2 DEF Pos
  <2> QED
    BY <1>2, <2>2, <2>3
<1>3. CASE pc[g] # "register"
  BY <1>1, <1>3 DEF Filed
<1> QED
  BY <1>2, <1>3

LEMMA FiledUnderIsPlaces ==
  ASSUME TypeOK, PcSound
  PROVE  AllFiledPlaces
<1> SUFFICES ASSUME NEW k \in Keys
             PROVE  FiledUnder(k) = FiledPlaces(k)
  BY DEF AllFiledPlaces
<1>1. ASSUME NEW x \in FiledUnder(k)
      PROVE  x \in FiledPlaces(k)
  <2>1. PICK g \in Goroutines :
          x \in {<<g, i>> : i \in {j \in 1..Len(Filed(g)) :
                   Filed(g)[j].handle # 0 /\ KeyOf(Filed(g)[j]) = k}}
    BY <1>1 DEF FiledUnder
  <2>2. PICK i \in 1..Len(Filed(g)) :
          Filed(g)[i].handle # 0 /\ KeyOf(Filed(g)[i]) = k /\ x = <<g, i>>
    BY <2>1
  <2>3. i \in Pos
    BY FiledIs DEF Pos
  <2>4. OnFile(g, i) /\ KeyOf(open[g][i]) = k
    BY <2>2, <2>3, FiledIs DEF OnFile
  <2> QED
    BY <2>2, <2>3, <2>4 DEF FiledPlaces
<1>2. ASSUME NEW x \in FiledPlaces(k)
      PROVE  x \in FiledUnder(k)
  <2>1. PICK g \in Goroutines, i \in Pos :
          x = <<g, i>> /\ OnFile(g, i) /\ KeyOf(open[g][i]) = k
    BY <1>2 DEF FiledPlaces
  <2>2. i \in 1..Len(Filed(g)) /\ Filed(g)[i] = open[g][i]
    BY <2>1, FiledIs DEF OnFile
  <2>3. Filed(g)[i].handle # 0 /\ KeyOf(Filed(g)[i]) = k
    BY <2>1, <2>2 DEF OnFile
  <2> QED
    BY <2>1, <2>2, <2>3 DEF FiledUnder
<1> QED
  BY <1>1, <1>2

LEMMA HeldByIs ==
  ASSUME TypeOK, NEW g \in Goroutines
  PROVE  /\ HeldBy(g) \in Nat /\ Len(open[g]) \in Nat
         /\ pc[g] = "pop" => HeldBy(g) = Len(open[g]) + 1
         /\ pc[g] # "pop" => HeldBy(g) = Len(open[g])
<1>1. open[g] \in Seq(Span)
  BY DEF TypeOK
<1>2. Len(open[g]) \in Nat
  BY <1>1
<1>3. /\ pc[g] = "pop" => HeldBy(g) = Len(open[g]) + 1
      /\ pc[g] # "pop" => HeldBy(g) = Len(open[g]) + 0
  BY Zenon DEF HeldBy
<1> QED
  BY <1>2, <1>3

LEMMA HeldIsPlaces ==
  ASSUME TypeOK
  PROVE  Held = HeldPlaces
<1>1. ASSUME NEW x \in Held
      PROVE  x \in HeldPlaces
  <2>1. PICK g \in Goroutines : x \in {<<g, i>> : i \in 1..HeldBy(g)}
    BY <1>1 DEF Held
  <2>2. PICK i \in 1..HeldBy(g) : x = <<g, i>>
    BY <2>1
  <2>3. i \in Pos /\ i <= HeldBy(g)
    BY <2>2, HeldByIs DEF Pos
  <2> QED
    BY <2>2, <2>3 DEF HeldPlaces
<1>2. ASSUME NEW x \in HeldPlaces
      PROVE  x \in Held
  <2>1. PICK g \in Goroutines, i \in Pos : x = <<g, i>> /\ i <= HeldBy(g)
    BY <1>2 DEF HeldPlaces
  <2>2. i \in 1..HeldBy(g)
    BY <2>1, HeldByIs DEF Pos
  <2> QED
    BY <2>1, <2>2 DEF Held
<1> QED
  BY <1>1, <1>2

(* Which spans are on file does not change where nothing is filed, or ended.*)
LEMMA SameFiled ==
  ASSUME \A g \in Goroutines : \A i \in Pos :
           /\ OnFile(g, i)' <=> OnFile(g, i)
           /\ OnFile(g, i) => open'[g][i] = open[g][i]
  PROVE  \A k \in Keys : FiledPlaces(k)' = FiledPlaces(k)
<1> SUFFICES ASSUME NEW k \in Keys
             PROVE  FiledPlaces(k)' = FiledPlaces(k)
  OBVIOUS
<1>1. ASSUME NEW x \in Goroutines \X Pos
      PROVE  x \in FiledPlaces(k)' <=> x \in FiledPlaces(k)
  <2>1. x[1] \in Goroutines /\ x[2] \in Pos
    OBVIOUS
  <2>2. /\ OnFile(x[1], x[2])' <=> OnFile(x[1], x[2])
        /\ OnFile(x[1], x[2]) => open'[x[1]][x[2]] = open[x[1]][x[2]]
    BY <2>1
  <2> QED
    BY <2>2 DEF FiledPlaces
<1> QED
  BY <1>1 DEF FiledPlaces

(* Where a key is not occupied, whoever ends a span with it started none or *)
(* has had it taken.                                                        *)
LEMMA RegistryHolds ==
  ASSUME Shape, FilesRunning, Accounted, Registered
  PROVE  RegistryMatchesOpen
<1>1. \A k \in Keys : Len(spans[k]) + taken[k] = Cardinality(FiledUnder(k))
  BY DEF Registered
<1>2. \A k \in Keys : \A i \in 1..Len(spans[k]) : spans[k][i] \notin ended
  BY DEF FilesRunning
<1>3. ASSUME NEW g \in Goroutines, pc[g] = "run", open[g] # <<>>,
             Innermost(g).handle # 0
      PROVE  LET k == KeyOf(Innermost(g)) IN spans[k] # <<>> \/ taken[k] > 0
  <2> DEFINE s == Top(open[g])
             k == KeyOf(s)
  <2>1. /\ Len(open[g]) \in Nat \ {0} /\ s = open[g][Len(open[g])]
        /\ s \in Span /\ Innermost(g) = s
    BY <1>3, TopIs DEF Shape
  <2>2. k \in Keys /\ spans[k] \in Seq(1..MaxSpans) /\ taken[k] \in Nat
    BY <2>1, KeyTyped DEF Shape, TypeOK
  <2>3. FiledUnder(k) = FiledPlaces(k)
    BY <2>2, FiledUnderIsPlaces DEF Shape, AllFiledPlaces
  <2>4. /\ IsFiniteSet(FiledUnder(k))
        /\ Len(spans[k]) + taken[k] = Cardinality(FiledUnder(k))
    BY <2>2 DEF Registered
  <2>5. OnFile(g, Len(open[g])) /\ Len(open[g]) \in Pos
    BY <1>3, <2>1 DEF OnFile, Pos
  <2>6. <<g, Len(open[g])>> \in FiledUnder(k)
    BY <2>1, <2>3, <2>5 DEF FiledPlaces
  <2>7. Cardinality(FiledUnder(k)) # 0
    BY <2>4, <2>6, FS_EmptySet
  <2>8. spans[k] = <<>> => Len(spans[k]) = 0
    OBVIOUS
  <2>9. spans[k] # <<>> \/ taken[k] > 0
    BY <2>2, <2>4, <2>7, <2>8
  <2> QED
    BY <2>1, <2>9
<1>4. \A g \in Goroutines : pc[g] = "register" => Innermost(g) = Top(open[g])
  BY DEF Shape, PcSound, Innermost
<1>5. bridge => \A h \in 1..created :
        \/ h \in ended
        \/ \E k \in Keys : \E i \in 1..Len(spans[k]) : spans[k][i] = h
        \/ \E g \in Goroutines : pc[g] = "register" /\ Innermost(g).handle = h
  BY <1>4 DEF Accounted
<1> QED
  BY <1>1, <1>2, <1>3, <1>5 DEF RegistryMatchesOpen

(* Of the steps that end a span, those of a resumed request end the only    *)
(* one its goroutine has.                                                   *)
LEMMA Endings ==
  ASSUME Shape, NEW g, NEW s, EndsOTel(g, s) \/ EndsUnknown(g, s), s.handle = 0
  PROVE  Len(open[g]) = 1
<1>1. g \in Goroutines /\ open[g] # <<>> /\ s = Top(open[g]) /\ bridge
  BY DEF EndsOTel, EndsUnknown
<1>2. Len(open[g]) \in Nat \ {0} /\ s = open[g][Len(open[g])]
  BY <1>1, TopIs DEF Shape
<1>3. SpanSound(g, Len(open[g]))
  BY <1>1, <1>2 DEF Shape, SpansSound
<1> QED
  BY <1>1, <1>2, <1>3 DEF SpanSound

(* As long as g has spans alone and nothing was taken, it finds on file     *)
(* what it started, and nothing else.                                       *)
LEMMA AloneEndings ==
  ASSUME Shape, Registered, NoneTaken, NEW g \in Goroutines, Alone(g), NEW s \in Span
  PROVE  /\ EndsOTel(g, s) => s.handle # 0
         /\ EndsUnknown(g, s) => s.handle = 0
<1> DEFINE k == KeyOf(s)
<1>1. k \in Keys /\ spans[k] \in Seq(1..MaxSpans) /\ taken[k] = 0
  BY KeyTyped DEF Shape, TypeOK, NoneTaken
<1>2. FiledUnder(k) = FiledPlaces(k)
  BY <1>1, FiledUnderIsPlaces DEF Shape, AllFiledPlaces
<1>3. IsFiniteSet(FiledPlaces(k)) /\ Len(spans[k]) = Cardinality(FiledPlaces(k))
  BY <1>1, <1>2 DEF Registered
<1>4. spans[k] = <<>> <=> FiledPlaces(k) = {}
  <2>1. spans[k] = <<>> <=> Len(spans[k]) = 0
    BY <1>1, EmptySeq
  <2> QED
    BY <1>3, <2>1, FS_EmptySet
<1>5. ASSUME EndsOTel(g, s), s.handle = 0
      PROVE  FALSE
  <2>1. /\ Len(open[g]) = 1 /\ open[g] # <<>> /\ s = Top(open[g])
        /\ spans[k] # <<>>
    BY <1>5, Endings DEF EndsOTel
  <2>2. s = open[g][1]
    BY <2>1, TopIs DEF Shape
  <2>3. ASSUME NEW h \in Goroutines, NEW i \in Pos
        PROVE  ~OnFile(h, i)
    <3>1. CASE h = g
      BY <1>5, <2>1, <2>2, <3>1 DEF OnFile, Pos
    <3>2. CASE h # g
      <4>1. Len(open[h]) = 0
        BY <3>2 DEF Alone, Busy
      <4> QED
        BY <4>1 DEF OnFile, Pos
    <3> QED
      BY <3>1, <3>2
  <2>4. FiledPlaces(k) = {}
    BY <2>3 DEF FiledPlaces
  <2> QED
    BY <1>4, <2>1, <2>4
<1>6. ASSUME EndsUnknown(g, s), s.handle # 0
      PROVE  FALSE
  <2>1. /\ pc[g] = "run" /\ open[g] # <<>> /\ s = Top(open[g])
        /\ spans[k] = <<>>
    BY <1>6 DEF EndsUnknown
  <2>2. Len(open[g]) \in Nat \ {0} /\ s = open[g][Len(open[g])]
    BY <2>1, TopIs DEF Shape
  <2>3. OnFile(g, Len(open[g])) /\ Len(open[g]) \in Pos
    BY <1>6, <2>1, <2>2 DEF OnFile, Pos
  <2>4. <<g, Len(open[g])>> \in FiledPlaces(k)
    BY <2>2, <2>3 DEF FiledPlaces
  <2> QED
    BY <1>4, <2>1, <2>4
<1> QED
  BY <1>5, <1>6

-----------------------------------------------------------------------------
(* Every step preserves the shape of the spans.                             *)
LEMMA OpenLen ==
  ASSUME TypeOK, NEW g \in Goroutines
  PROVE  Len(open[g]) \in Nat /\ (open[g] = <<>> <=> Len(open[g]) = 0)
<1>1. open[g] \in Seq(Span)
  BY DEF TypeOK
<1> QED
  BY <1>1, EmptySeq

LEMMA SpansSoundStep ==
  ASSUME Shape, NEW g \in Goroutines, StepOf(g)
  PROVE  SpansSound'
<1> SUFFICES ASSUME NEW h \in Goroutines, NEW i \in 1..Len(open'[h])
             PROVE  SpanSound(h, i)'
  BY DEF SpansSound
<1>1. Len(open[h]) \in Nat /\ Len(open[g]) \in Nat /\ created \in Nat
  BY OpenLen DEF Shape, TypeOK
<1>2. \A j \in 1..Len(open[h]) : SpanSound(h, j)
  BY DEF Shape, SpansSound
<1>3. ASSUME NEW s, Begins(g, s),
             created' \in Nat, created' >= created,
             s.handle # 0 => s.id \in 1..created' /\ s.handle \in 1..created',
             s.handle = 0 /\ bridge => open[g] = <<>>
      PROVE  SpanSound(h, i)'
  <2>1. bridge' = bridge /\ s.id # 0 /\ Grown(g, s)
    BY <1>3 DEF Begins
  <2>2. CASE h = g /\ i = Len(open[g]) + 1
    <3>1. open'[h][i] = s
      BY <2>1, <2>2 DEF Grown
    <3>2. open[g] = <<>> => i = 1
      BY <2>2, <1>1, OpenLen DEF Shape
    <3> QED
      BY <1>3, <2>1, <3>1, <3>2 DEF SpanSound
  <2>3. CASE ~(h = g /\ i = Len(open[g]) + 1)
    <3>1. i \in 1..Len(open[h]) /\ open'[h][i] = open[h][i]
      BY <1>1, <2>1, <2>3 DEF Grown
    <3>2. SpanSound(h, i)
      BY <1>2, <3>1
    <3> QED
      BY <1>1, <1>3, <2>1, <3>1, <3>2 DEF SpanSound
  <2> QED
    BY <2>2, <2>3
<1>4. ASSUME Shrunk(g), created' = created, bridge' = bridge
      PROVE  SpanSound(h, i)'
  <2>1. i \in 1..Len(open[h]) /\ open'[h][i] = open[h][i]
    BY <1>1, <1>4 DEF Shrunk
  <2>2. SpanSound(h, i)
    BY <1>2, <2>1
  <2> QED
    BY <1>4, <2>1, <2>2 DEF SpanSound
<1>5. ASSUME open' = open, created' = created, bridge' = bridge
      PROVE  SpanSound(h, i)'
  <2>1. SpanSound(h, i)
    BY <1>2, <1>5
  <2> QED
    BY <1>5, <2>1 DEF SpanSound
<1>6. ASSUME NEW s, BeginsLocal(g, s) PROVE SpanSound(h, i)'
  BY <1>1, <1>3, <1>6 DEF BeginsLocal
<1>7. ASSUME NEW s, BeginsResumed(g, s) PROVE SpanSound(h, i)'
  BY <1>1, <1>3, <1>7 DEF BeginsResumed
<1>8. ASSUME NEW s, BeginsOTel(g, s) PROVE SpanSound(h, i)'
  BY <1>1, <1>3, <1>8 DEF BeginsOTel
<1> QED
  BY <1>4, <1>5, <1>6, <1>7, <1>8 DEF StepOf, Registers, EndsOTel, EndsUnknown,
     EndsLocal, PopsOTel

LEMMA PcSoundStep ==
  ASSUME Shape, NEW g \in Goroutines, StepOf(g)
  PROVE  PcSound'
<1> SUFFICES ASSUME NEW h \in Goroutines
             PROVE  /\ pc'[h] # "run" => bridge'
                    /\ pc'[h] = "register" =>
                         open'[h] # <<>> /\ Top(open'[h]).handle # 0
  BY DEF PcSound
<1>1. /\ pc[h] # "run" => bridge
      /\ pc[h] = "register" => open[h] # <<>> /\ Top(open[h]).handle # 0
  BY DEF Shape, PcSound
<1>2. Len(open[g]) \in Nat /\ created \in Nat
  BY OpenLen DEF Shape, TypeOK
<1>3. CASE h # g
  <2>1. open'[h] = open[h] /\ pc'[h] = pc[h] /\ bridge' = bridge
    BY <1>3 DEF StepOf, BeginsLocal, BeginsResumed, BeginsOTel, Begins, Registers,
       EndsOTel, EndsUnknown, EndsLocal, PopsOTel, Grown, Shrunk, PcMoved
  <2> QED
    BY <1>1, <2>1
<1>4. CASE h = g
  <2>1. ASSUME NEW s, BeginsOTel(g, s)
        PROVE  open'[g] # <<>> /\ Top(open'[g]).handle # 0
    <3>1. /\ Len(open'[g]) = Len(open[g]) + 1 /\ open'[g][Len(open[g]) + 1] = s
          /\ open'[g] \in Seq(Span) /\ s.handle = created + 1
      BY <2>1 DEF BeginsOTel, Begins, Grown
    <3> QED
      BY <1>2, <3>1 DEF Top
  <2>2. ~bridge => pc[g] = "run"
    BY <1>1, <1>4
  <2> QED
    BY <1>4, <2>1, <2>2 DEF StepOf, BeginsLocal, BeginsResumed, BeginsOTel, Begins,
       Registers, EndsOTel, EndsUnknown, EndsLocal, PopsOTel, PcMoved
<1> QED
  BY <1>3, <1>4

LEMMA BridgeOffStep ==
  ASSUME Shape, NEW g \in Goroutines, StepOf(g)
  PROVE  BridgeOff'
<1> SUFFICES ASSUME ~bridge'
             PROVE  BridgeOff'
  BY DEF BridgeOff
<1>1. ~bridge /\ bridge' = bridge
  BY DEF StepOf, BeginsLocal, BeginsResumed, BeginsOTel, Begins, Registers,
     EndsOTel, EndsUnknown, EndsLocal, PopsOTel
<1>2. /\ left = 0 /\ \A h \in Goroutines : pc[h] = "run"
      /\ \A h \in Goroutines : \A i \in 1..Len(open[h]) : open[h][i].handle = 0
      /\ \A k \in Keys : spans[k] = <<>> /\ taken[k] = 0
  BY <1>1 DEF Shape, BridgeOff
<1>3. Len(open[g]) \in Nat
  BY OpenLen DEF Shape
<1>4. ASSUME NEW s, Begins(g, s), s.handle = 0, pc' = pc
      PROVE  BridgeOff'
  <2>1. ASSUME NEW h \in Goroutines, NEW i \in 1..Len(open'[h])
        PROVE  open'[h][i].handle = 0
    BY <1>2, <1>3, <1>4, <2>1 DEF Begins, Grown
  <2> QED
    BY <1>2, <1>4, <2>1 DEF BridgeOff, Begins
<1>5. ASSUME EndsLocal(g)
      PROVE  BridgeOff'
  <2>1. ASSUME NEW h \in Goroutines, NEW i \in 1..Len(open'[h])
        PROVE  open'[h][i].handle = 0
    BY <1>2, <1>3, <1>5, <2>1 DEF EndsLocal, Shrunk
  <2> QED
    BY <1>2, <1>5, <2>1 DEF BridgeOff, EndsLocal
<1>6. \A s : ~BeginsOTel(g, s) /\ ~Registers(g, s) /\ ~EndsOTel(g, s)
             /\ ~EndsUnknown(g, s)
  BY <1>1, <1>2 DEF BeginsOTel, Registers, EndsOTel, EndsUnknown
<1>7. ~PopsOTel(g)
  BY <1>2 DEF PopsOTel
<1> QED
  BY <1>4, <1>5, <1>6, <1>7 DEF StepOf, BeginsLocal, BeginsResumed

LEMMA TakenTyped ==
  ASSUME Shape, RegistryMatchesOpen, NEW g \in Goroutines, StepOf(g)
  PROVE  taken' \in [Keys -> Nat]
<1>1. taken \in [Keys -> Nat]
  BY DEF Shape, TypeOK
<1>2. ASSUME NEW s \in Span, EndsOTel(g, s)
      PROVE  taken' \in [Keys -> Nat]
  BY <1>1, <1>2, KeyTyped DEF EndsOTel, Counted
<1>3. ASSUME NEW s \in Span, EndsUnknown(g, s), s.handle # 0
      PROVE  taken' \in [Keys -> Nat]
  <2>1. /\ pc[g] = "run" /\ open[g] # <<>> /\ s = Innermost(g)
        /\ spans[KeyOf(s)] = <<>> /\ Counted(KeyOf(s), -1)
    BY <1>3, TopIs DEF EndsUnknown, Shape
  <2>2. taken[KeyOf(s)] > 0
    BY <1>3, <2>1 DEF RegistryMatchesOpen
  <2> QED
    BY <1>1, <2>1, <2>2, KeyTyped DEF Counted
<1> QED
  BY <1>1, <1>2, <1>3 DEF StepOf, BeginsLocal, BeginsResumed, BeginsOTel, Begins,
     Registers, EndsUnknown, EndsLocal, PopsOTel

(* Taking a span adds a debt, and missing one settles it.                   *)
LEMMA DebtsStep ==
  ASSUME taken \in [Keys -> Nat], taken' \in [Keys -> Nat], NEW k \in Keys
  PROVE  /\ Counted(k, 1) => /\ <<k, taken[k] + 1>> \notin Debts
                             /\ Debts' = Debts \union {<<k, taken[k] + 1>>}
         /\ Counted(k, -1) => /\ <<k, taken[k]>> \in Debts
                              /\ Debts' = Debts \ {<<k, taken[k]>>}
<1>1. Debts \subseteq Keys \X Pos /\ Debts' \subseteq Keys \X Pos
  BY DEF Debts
<1>2. \A l \in Keys, i \in Pos : /\ <<l, i>> \in Debts <=> i <= taken[l]
                                /\ <<l, i>> \in Debts' <=> i <= taken'[l]
  BY DEF Debts
<1>3. \A l \in Keys : taken[l] \in Nat /\ taken'[l] \in Nat
  OBVIOUS
<1>4. ASSUME Counted(k, 1)
      PROVE  /\ <<k, taken[k] + 1>> \notin Debts
             /\ Debts' = Debts \union {<<k, taken[k] + 1>>}
  <2> DEFINE n == taken[k] + 1
  <2>1. n \in Pos /\ ~(n <= taken[k]) /\ taken'[k] = n
    BY <1>3, <1>4 DEF Pos, Counted
  <2>2. <<k, n>> \notin Debts
    BY <1>2, <2>1
  <2>3. ASSUME NEW l \in Keys, NEW i \in Pos
        PROVE  <<l, i>> \in Debts' <=> <<l, i>> \in Debts \/ <<l, i>> = <<k, n>>
    <3>1. /\ <<l, i>> \in Debts <=> i <= taken[l]
          /\ <<l, i>> \in Debts' <=> i <= taken'[l]
      BY DEF Debts
    <3>2. <<l, i>> = <<k, n>> <=> l = k /\ i = n
      OBVIOUS
    <3>3. CASE l # k
      <4>1. taken'[l] = taken[l]
        BY <1>4, <3>3 DEF Counted
      <4> HIDE DEF n
      <4> QED
        BY <3>1, <3>2, <3>3, <4>1
    <3>4. CASE l = k
      <4>1. i <= taken'[k] <=> i <= taken[k] \/ i = n
        BY <1>3, <2>1 DEF Pos
      <4> HIDE DEF n
      <4> QED
        BY <3>1, <3>2, <3>4, <4>1
    <3> QED
      BY <3>3, <3>4
  <2> HIDE DEF n
  <2>4. Debts' = Debts \union {<<k, n>>}
    BY <1>1, <2>1, <2>3
  <2> QED
    BY <2>2, <2>4 DEF n
<1>5. ASSUME Counted(k, -1)
      PROVE  /\ <<k, taken[k]>> \in Debts
             /\ Debts' = Debts \ {<<k, taken[k]>>}
  <2> DEFINE n == taken[k]
  <2>1. n \in Pos /\ n <= taken[k] /\ taken'[k] = n - 1
    BY <1>3, <1>5 DEF Pos, Counted
  <2>2. <<k, n>> \in Debts
    BY <2>1 DEF Debts
  <2>3. ASSUME NEW l \in Keys, NEW i \in Pos
        PROVE  <<l, i>> \in Debts' <=> <<l, i>> \in Debts /\ <<l, i>> # <<k, n>>
    <3>1. /\ <<l, i>> \in Debts <=> i <= taken[l]
          /\ <<l, i>> \in Debts' <=> i <= taken'[l]
      BY DEF Debts
    <3>2. <<l, i>> = <<k, n>> <=> l = k /\ i = n
      OBVIOUS
    <3>3. CASE l # k
      <4>1. taken'[l] = taken[l]
        BY <1>5, <3>3 DEF Counted
      <4> HIDE DEF n
      <4> QED
        BY <3>1, <3>2, <3>3, <4>1
    <3>4. CASE l = k
      <4>1. i <= taken'[k] <=> i <= taken[k] /\ i # n
        BY <1>3, <2>1 DEF Pos
      <4> HIDE DEF n
      <4> QED
        BY <3>1, <3>2, <3>4, <4>1
    <3> QED
      BY <3>3, <3>4
  <2> HIDE DEF n
  <2>4. Debts' = Debts \ {<<k, n>>}
    BY <1>1, <2>1, <2>3
  <2> QED
    BY <2>2, <2>4 DEF n
<1> QED
  BY <1>4, <1>5

(* The finite sets of LeftBound grow and shrink by one.                     *)
Grew(T, S)   == IsFiniteSet(T) /\ Cardinality(T) = Cardinality(S) + 1
Fell(T, S)   == IsFiniteSet(T) /\ Cardinality(T) = Cardinality(S) - 1

LEMMA DebtsMoved ==
  ASSUME Shape, RegistryMatchesOpen, IsFiniteSet(Debts), NEW g \in Goroutines, StepOf(g),
         NEW k \in Keys
  PROVE  /\ Counted(k, 1) => Grew(Debts', Debts)
         /\ Counted(k, -1) => Fell(Debts', Debts)
<1>1. taken \in [Keys -> Nat] /\ taken' \in [Keys -> Nat]
  BY TakenTyped DEF Shape, TypeOK
<1>2. ASSUME Counted(k, 1) PROVE Grew(Debts', Debts)
  <2> DEFINE e == <<k, taken[k] + 1>>
  <2>1. e \notin Debts /\ Debts' = Debts \union {e}
    BY <1>1, <1>2, DebtsStep
  <2> HIDE DEF e
  <2> QED
    BY <2>1, FS_AddElement DEF Grew
<1>3. ASSUME Counted(k, -1) PROVE Fell(Debts', Debts)
  <2> DEFINE e == <<k, taken[k]>>
  <2>1. e \in Debts /\ Debts' = Debts \ {e}
    BY <1>1, <1>3, DebtsStep
  <2> HIDE DEF e
  <2> QED
    BY <2>1, FS_RemoveElement DEF Fell
<1> QED
  BY <1>2, <1>3

(* A goroutine stops resuming a request when it ends its first span.        *)
LEMMA ResumingEnds ==
  ASSUME Shape, IsFiniteSet(Resuming), NEW g \in Goroutines, NEW s,
         EndsOTel(g, s) \/ EndsUnknown(g, s)
  PROVE  IF s.handle = 0 THEN Fell(Resuming', Resuming) ELSE Resuming' = Resuming
<1>1. /\ Len(open[g]) \in Nat /\ (open[g] = <<>> <=> Len(open[g]) = 0)
      /\ open[g] # <<>> => Top(open[g]) = open[g][Len(open[g])]
  BY OpenLen, TopIs DEF Shape
<1>2. Shrunk(g) /\ s = Top(open[g]) /\ open[g] # <<>>
  BY DEF EndsOTel, EndsUnknown
<1>3. \A h \in Goroutines : h \in Resuming <=> open[h] # <<>> /\ open[h][1].handle = 0
  BY DEF Resuming
<1>4. \A h \in Goroutines : h \in Resuming' <=> open'[h] # <<>> /\ open'[h][1].handle = 0
  BY DEF Resuming
<1>5. Resuming \subseteq Goroutines /\ Resuming' \subseteq Goroutines
  BY DEF Resuming
<1>6. \A h \in Goroutines : h # g => (h \in Resuming' <=> h \in Resuming)
  BY <1>2, <1>3, <1>4 DEF Shrunk
<1>7. /\ open'[g] \in Seq(Span) /\ Len(open'[g]) = Len(open[g]) - 1
      /\ open'[g] # <<>> => open'[g][1] = open[g][1]
      /\ open'[g] = <<>> => open[g][1] = s
  BY <1>1, <1>2 DEF Shrunk
<1>8. CASE s.handle = 0
  <2>1. Len(open[g]) = 1
    BY <1>8, Endings
  <2>2. open'[g] = <<>>
    BY <1>7, <2>1
  <2>3. g \in Resuming /\ g \notin Resuming'
    BY <1>2, <1>3, <1>4, <1>7, <1>8, <2>2
  <2>4. Resuming' = Resuming \ {g}
    BY <1>5, <1>6, <2>3
  <2> QED
    BY <1>8, <2>3, <2>4, FS_RemoveElement DEF Fell
<1>9. CASE s.handle # 0
  <2>1. CASE open'[g] = <<>>
    <3>1. g \notin Resuming /\ g \notin Resuming'
      BY <1>2, <1>3, <1>4, <1>7, <1>9, <2>1
    <3> QED
      BY <1>5, <1>6, <1>9, <3>1
  <2>2. CASE open'[g] # <<>>
    <3>1. open'[g][1] = open[g][1]
      BY <1>7, <2>2
    <3>2. g \in Resuming' <=> g \in Resuming
      BY <1>2, <1>3, <1>4, <2>2, <3>1
    <3> QED
      BY <1>5, <1>6, <1>9, <3>2
  <2> QED
    BY <2>1, <2>2
<1> QED
  BY <1>8, <1>9

LEMMA LeftBoundStep ==
  ASSUME Shape, RegistryMatchesOpen, LeftBound, NEW g \in Goroutines, StepOf(g)
  PROVE  LeftBound'
<1> DEFINE Bounded == /\ IsFiniteSet(Resuming') /\ IsFiniteSet(Debts')
                      /\ left' + Cardinality(Resuming') + Cardinality(Debts') <= resumed'
<1> SUFFICES ASSUME bridge'
             PROVE  Bounded
  BY DEF LeftBound
<1>1. bridge /\ bridge' = bridge
  BY DEF StepOf, BeginsLocal, BeginsResumed, BeginsOTel, Begins, Registers,
     EndsOTel, EndsUnknown, EndsLocal, PopsOTel
<1>2. /\ IsFiniteSet(Resuming) /\ IsFiniteSet(Debts)
      /\ left + Cardinality(Resuming) + Cardinality(Debts) <= resumed
  BY <1>1 DEF LeftBound
<1>3. /\ left \in Nat /\ resumed \in Nat
      /\ Cardinality(Resuming) \in Nat /\ Cardinality(Debts) \in Nat
  BY <1>2, FS_CardinalityType, TracingAssumption DEF Shape, TypeOK
<1>4. \A h \in Goroutines : h \in Resuming <=> open[h] # <<>> /\ open[h][1].handle = 0
  BY DEF Resuming
<1>5. \A h \in Goroutines : h \in Resuming' <=> open'[h] # <<>> /\ open'[h][1].handle = 0
  BY DEF Resuming
<1>6. Resuming \subseteq Goroutines /\ Resuming' \subseteq Goroutines
  BY DEF Resuming
<1>7. /\ Len(open[g]) \in Nat /\ (open[g] = <<>> <=> Len(open[g]) = 0)
      /\ open[g] # <<>> => Top(open[g]) = open[g][Len(open[g])]
  BY OpenLen, TopIs DEF Shape
<1>8. taken' = taken => Debts' = Debts
  BY DEF Debts
<1>9. ASSUME NEW s, BeginsResumed(g, s)
      PROVE  Bounded
  <2>1. /\ Grown(g, s) /\ s.handle = 0 /\ open[g] = <<>>
        /\ left' = left /\ resumed' = resumed + 1 /\ taken' = taken
    BY <1>9 DEF BeginsResumed, Begins
  <2>2. open'[g] # <<>> /\ open'[g][1].handle = 0
    <3>1. open'[g] \in Seq(Span) /\ Len(open'[g]) = 1 /\ open'[g][1] = s
      BY <1>7, <2>1 DEF Grown
    <3> QED
      BY <2>1, <3>1
  <2>3. \A h \in Goroutines : h # g => open'[h] = open[h]
    BY <2>1 DEF Grown
  <2>4. g \notin Resuming
    BY <1>4, <2>1
  <2>5. Resuming' = Resuming \union {g}
    BY <1>4, <1>5, <1>6, <2>2, <2>3
  <2>6. IsFiniteSet(Resuming') /\ Cardinality(Resuming') = Cardinality(Resuming) + 1
    BY <1>2, <2>4, <2>5, FS_AddElement
  <2> QED
    BY <1>2, <1>3, <1>8, <2>1, <2>6
<1>10. ASSUME NEW s, BeginsOTel(g, s)
       PROVE  /\ Resuming' = Resuming /\ left' = left /\ resumed' = resumed
              /\ taken' = taken
  <2>1. /\ Grown(g, s) /\ s.handle = created + 1
        /\ left' = left /\ resumed' = resumed /\ taken' = taken
    BY <1>10 DEF BeginsOTel, Begins
  <2>2. s.handle # 0
    BY <2>1 DEF Shape, TypeOK
  <2>3. /\ open'[g] \in Seq(Span) /\ Len(open'[g]) = Len(open[g]) + 1
        /\ open[g] # <<>> => open'[g][1] = open[g][1]
        /\ open[g] = <<>> => open'[g][1] = s
    BY <1>7, <2>1 DEF Grown
  <2>4. open'[g] # <<>>
    BY <1>7, <2>3
  <2>5. g \in Resuming' <=> g \in Resuming
    BY <1>4, <1>5, <2>2, <2>3, <2>4
  <2>6. \A h \in Goroutines : h # g => open'[h] = open[h]
    BY <2>1 DEF Grown
  <2>7. \A h \in Goroutines : h # g => (h \in Resuming' <=> h \in Resuming)
    BY <1>4, <1>5, <2>6
  <2>8. Resuming' = Resuming
    BY <1>6, <2>5, <2>7
  <2> QED
    BY <2>1, <2>8
<1>11. ASSUME NEW s \in Span, EndsOTel(g, s)
       PROVE  Bounded
  <2>1. left' = left /\ resumed' = resumed /\ KeyOf(s) \in Keys
    BY <1>11, KeyTyped DEF EndsOTel
  <2>2. CASE s.handle # 0
    <3>1. Resuming' = Resuming /\ Debts' = Debts
      BY <1>2, <1>8, <1>11, <2>2, ResumingEnds DEF EndsOTel
    <3> QED
      BY <1>2, <2>1, <3>1
  <2>3. CASE s.handle = 0
    <3>1. Fell(Resuming', Resuming)
      BY <1>2, <1>11, <2>3, ResumingEnds
    <3>2. Grew(Debts', Debts)
      BY <1>2, <1>11, <2>1, <2>3, DebtsMoved DEF EndsOTel
    <3> QED
      BY <1>2, <1>3, <2>1, <3>1, <3>2 DEF Fell, Grew
  <2> QED
    BY <2>2, <2>3
<1>12. ASSUME NEW s \in Span, EndsUnknown(g, s)
       PROVE  Bounded
  <2>1. left' = left + 1 /\ resumed' = resumed /\ KeyOf(s) \in Keys
    BY <1>12, KeyTyped DEF EndsUnknown
  <2>2. CASE s.handle # 0
    <3>1. Resuming' = Resuming
      BY <1>2, <1>12, <2>2, ResumingEnds
    <3>2. Fell(Debts', Debts)
      BY <1>2, <1>12, <2>1, <2>2, DebtsMoved DEF EndsUnknown
    <3> QED
      BY <1>2, <1>3, <2>1, <3>1, <3>2 DEF Fell
  <2>3. CASE s.handle = 0
    <3>1. Fell(Resuming', Resuming)
      BY <1>2, <1>12, <2>3, ResumingEnds
    <3>2. Debts' = Debts
      BY <1>8, <1>12, <2>3 DEF EndsUnknown
    <3> QED
      BY <1>2, <1>3, <2>1, <3>1, <3>2 DEF Fell
  <2> QED
    BY <2>2, <2>3
<1>13. ASSUME open' = open, left' = left, resumed' = resumed, taken' = taken
       PROVE  /\ Resuming' = Resuming /\ left' = left /\ resumed' = resumed
              /\ taken' = taken
  BY <1>13 DEF Resuming
<1>14. ~EndsLocal(g) /\ \A s : ~BeginsLocal(g, s)
  BY <1>1 DEF EndsLocal, BeginsLocal
<1>15. ASSUME /\ Resuming' = Resuming /\ left' = left /\ resumed' = resumed
              /\ taken' = taken
       PROVE  Bounded
  BY <1>2, <1>8, <1>15
<1> HIDE DEF Bounded
<1> QED
  BY <1>9, <1>10, <1>11, <1>12, <1>13, <1>14, <1>15 DEF StepOf, Registers, PopsOTel

LEMMA TypeOKStep ==
  ASSUME Shape, RegistryMatchesOpen, FilesRunning, LeftBound,
         NEW g \in Goroutines, StepOf(g)
  PROVE  TypeOK'
<1>1. TypeOK
  BY DEF Shape
<1>2. created \in Nat /\ resumed \in Nat /\ MaxSpans \in Nat /\ MaxResumed \in Nat
  BY <1>1, TracingAssumption DEF TypeOK
<1>3. traceStack' \in Seq(Ids \ {0})
  BY <1>1 DEF TypeOK, StepOf, BeginsLocal, BeginsResumed, BeginsOTel, Begins,
     Registers, EndsOTel, EndsUnknown, EndsLocal, PopsOTel, Pushed, Popped
<1>4. open' \in [Goroutines -> Seq(Span)]
  BY <1>1 DEF TypeOK, StepOf, BeginsLocal, BeginsResumed, BeginsOTel, Begins,
     Registers, EndsOTel, EndsUnknown, EndsLocal, PopsOTel, Grown, Shrunk
<1>5. pc' \in [Goroutines -> {"run", "register", "pop"}]
  BY <1>1 DEF TypeOK, StepOf, BeginsLocal, BeginsResumed, BeginsOTel, Begins,
     Registers, EndsOTel, EndsUnknown, EndsLocal, PopsOTel, PcMoved
<1>6. spans' \in [Keys -> Seq(1..MaxSpans)]
  BY <1>1 DEF TypeOK, StepOf, BeginsLocal, BeginsResumed, BeginsOTel, Begins,
     Registers, EndsOTel, EndsUnknown, EndsLocal, PopsOTel, FiledAt, TakenFrom
<1>7. created' \in created..MaxSpans /\ resumed' \in resumed..MaxResumed
  BY <1>1, <1>2 DEF TypeOK, StepOf, BeginsLocal, BeginsResumed, BeginsOTel, Begins,
     Registers, EndsOTel, EndsUnknown, EndsLocal, PopsOTel
<1>8. bridge' = bridge /\ overlapped' \in BOOLEAN
  BY <1>1 DEF TypeOK, StepOf, BeginsLocal, BeginsResumed, BeginsOTel, Begins,
     Registers, EndsOTel, EndsUnknown, EndsLocal, PopsOTel
<1>9. ended' \subseteq 1..created'
  <2>1. ended \subseteq 1..created'
    BY <1>1, <1>2, <1>7 DEF TypeOK
  <2>2. ASSUME NEW s, EndsOTel(g, s)
        PROVE  Top(spans[KeyOf(s)]) \in 1..created /\ created' = created
    <3>1. KeyOf(s) \in Keys /\ spans[KeyOf(s)] # <<>>
      BY <2>2, KeyTyped DEF EndsOTel
    <3>2. spans[KeyOf(s)] \in Seq(1..MaxSpans)
      BY <1>1, <3>1 DEF TypeOK
    <3>3. Len(spans[KeyOf(s)]) \in Nat \ {0}
      BY <3>1, <3>2, EmptySeq
    <3>4. spans[KeyOf(s)][Len(spans[KeyOf(s)])] \in 1..created
      BY <3>1, <3>3 DEF FilesRunning
    <3> QED
      BY <2>2, <3>4 DEF Top, EndsOTel
  <2> QED
    BY <2>1, <2>2 DEF StepOf, BeginsLocal, BeginsResumed, BeginsOTel, Begins,
       Registers, EndsOTel, EndsUnknown, EndsLocal, PopsOTel
<1>10. left' \in 0..resumed'
  <2>1. left' \in Nat /\ resumed' \in Nat
    BY <1>1, <1>2, <1>7 DEF TypeOK, StepOf, BeginsLocal, BeginsResumed, BeginsOTel,
       Begins, Registers, EndsOTel, EndsUnknown, EndsLocal, PopsOTel
  <2>2. CASE bridge'
    <3>1. /\ IsFiniteSet(Resuming') /\ IsFiniteSet(Debts')
          /\ left' + Cardinality(Resuming') + Cardinality(Debts') <= resumed'
      BY <2>2, LeftBoundStep DEF LeftBound
    <3>2. Cardinality(Resuming') \in Nat /\ Cardinality(Debts') \in Nat
      BY <3>1, FS_CardinalityType
    <3> QED
      BY <2>1, <3>1, <3>2
  <2>3. CASE ~bridge'
    BY <2>1, <2>3, BridgeOffStep DEF BridgeOff
  <2> QED
    BY <2>2, <2>3
<1>11. bridge' \in BOOLEAN
  BY <1>1, <1>8 DEF TypeOK
<1>12. created' \in 0..MaxSpans /\ resumed' \in 0..MaxResumed
  BY <1>2, <1>7
<1>13. taken' \in [Keys -> Nat]
  BY TakenTyped
<1> QED
  BY <1>3, <1>4, <1>5, <1>6, <1>8, <1>9, <1>10, <1>11, <1>12, <1>13 DEF TypeOK

LEMMA ShapeStep ==
  ASSUME Shape, RegistryMatchesOpen, FilesRunning, LeftBound,
         NEW g \in Goroutines, StepOf(g)
  PROVE  Shape'
  BY TypeOKStep, BridgeOffStep, SpansSoundStep, PcSoundStep DEF Shape

-----------------------------------------------------------------------------
(* Every step preserves the files.                                          *)
LEMMA FilesRunningStep ==
  ASSUME Shape, FilesRunning, FilesUnique, RegisteringNew,
         NEW g \in Goroutines, StepOf(g)
  PROVE  FilesRunning'
<1> SUFFICES ASSUME NEW k \in Keys, NEW i \in 1..Len(spans'[k])
             PROVE  spans'[k][i] \in (1..created') \ ended'
  BY DEF FilesRunning
<1>1. created \in Nat /\ \A l \in Keys : Len(spans[l]) \in Nat
  BY DEF Shape, TypeOK
<1>2. \A l \in Keys : \A j \in 1..Len(spans[l]) : spans[l][j] \in (1..created) \ ended
  BY DEF FilesRunning
<1>3. ASSUME spans' = spans, ended' = ended, created' \in {created, created + 1}
      PROVE  spans'[k][i] \in (1..created') \ ended'
  <2>1. spans[k][i] \in (1..created) \ ended
    BY <1>2, <1>3
  <2> QED
    BY <1>1, <1>3, <2>1
<1>4. ASSUME NEW s, Registers(g, s)
      PROVE  spans'[k][i] \in (1..created') \ ended'
  <2>1. /\ FiledAt(KeyOf(s), s.handle) /\ KeyOf(s) \in Keys
        /\ created' = created /\ ended' = ended
    BY <1>4, KeyTyped DEF Registers
  <2>2. s.handle \in (1..created) \ ended
    BY <1>4 DEF Registers, RegisteringNew, Unfiled
  <2>3. CASE k # KeyOf(s)
    BY <1>2, <2>1, <2>3 DEF FiledAt
  <2>4. CASE k = KeyOf(s)
    BY <1>1, <1>2, <2>1, <2>2, <2>4 DEF FiledAt
  <2> QED
    BY <2>3, <2>4
<1>5. ASSUME NEW s, EndsOTel(g, s)
      PROVE  spans'[k][i] \in (1..created') \ ended'
  <2> DEFINE l == KeyOf(s)
  <2>1. /\ TakenFrom(l) /\ l \in Keys /\ spans[l] # <<>>
        /\ created' = created /\ ended' = ended \union {spans[l][Len(spans[l])]}
    BY <1>5, KeyTyped DEF EndsOTel, Top
  <2>2. Len(spans[l]) \in Nat \ {0}
    <3>1. spans[l] \in Seq(1..MaxSpans)
      BY <2>1 DEF Shape, TypeOK
    <3> QED
      BY <2>1, <3>1, EmptySeq
  <2> HIDE DEF l
  <2>3. /\ i \in 1..Len(spans[k]) /\ spans'[k][i] = spans[k][i]
        /\ k = l => i # Len(spans[l])
    BY <1>1, <2>1, <2>2 DEF TakenFrom
  <2>4. spans[k][i] # spans[l][Len(spans[l])]
    BY <2>1, <2>2, <2>3 DEF FilesUnique
  <2> QED
    BY <1>2, <2>1, <2>3, <2>4
<1> QED
  BY <1>3, <1>4, <1>5 DEF StepOf, BeginsLocal, BeginsResumed, BeginsOTel, Begins,
     EndsUnknown, EndsLocal, PopsOTel

LEMMA FilesUniqueStep ==
  ASSUME Shape, FilesUnique, RegisteringNew, NEW g \in Goroutines, StepOf(g)
  PROVE  FilesUnique'
<1> SUFFICES ASSUME NEW k \in Keys, NEW l \in Keys,
                    NEW i \in 1..Len(spans'[k]), NEW j \in 1..Len(spans'[l]),
                    spans'[k][i] = spans'[l][j]
             PROVE  k = l /\ i = j
  BY DEF FilesUnique
<1>1. \A m \in Keys : Len(spans[m]) \in Nat
  BY DEF Shape, TypeOK
<1>2. ASSUME spans' = spans
      PROVE  k = l /\ i = j
  BY <1>2 DEF FilesUnique
<1>3. ASSUME NEW s, Registers(g, s)
      PROVE  k = l /\ i = j
  <2> DEFINE m == KeyOf(s)
  <2>1. FiledAt(m, s.handle) /\ m \in Keys
    BY <1>3, KeyTyped DEF Registers
  <2>2. \A n \in Keys : \A x \in 1..Len(spans[n]) : spans[n][x] # s.handle
    BY <1>3 DEF Registers, RegisteringNew, Unfiled
  <2> HIDE DEF m
  <2>3. \/ k = m /\ i = Len(spans[k]) + 1 /\ spans'[k][i] = s.handle
        \/ i \in 1..Len(spans[k]) /\ spans'[k][i] = spans[k][i]
    BY <1>1, <2>1 DEF FiledAt
  <2>4. \/ l = m /\ j = Len(spans[l]) + 1 /\ spans'[l][j] = s.handle
        \/ j \in 1..Len(spans[l]) /\ spans'[l][j] = spans[l][j]
    BY <1>1, <2>1 DEF FiledAt
  <2> QED
    BY <2>2, <2>3, <2>4 DEF FilesUnique
<1>4. ASSUME NEW s, EndsOTel(g, s)
      PROVE  k = l /\ i = j
  <2> DEFINE m == KeyOf(s)
  <2>1. TakenFrom(m) /\ m \in Keys
    BY <1>4, KeyTyped DEF EndsOTel
  <2> HIDE DEF m
  <2>2. i \in 1..Len(spans[k]) /\ spans'[k][i] = spans[k][i]
    BY <1>1, <2>1 DEF TakenFrom
  <2>3. j \in 1..Len(spans[l]) /\ spans'[l][j] = spans[l][j]
    BY <1>1, <2>1 DEF TakenFrom
  <2>4. spans[k][i] = spans[l][j]
    BY <2>2, <2>3
  <2> QED
    BY <2>2, <2>3, <2>4 DEF FilesUnique
<1> QED
  BY <1>2, <1>3, <1>4 DEF StepOf, BeginsLocal, BeginsResumed, BeginsOTel, Begins,
     EndsUnknown, EndsLocal, PopsOTel

(* What may still be filed, after a step that files something else.         *)
LEMMA UnfiledStep ==
  ASSUME Shape, FilesRunning, RegisteringNew, NEW g \in Goroutines, StepOf(g),
         NEW x, Unfiled(x), \A s : Registers(g, s) => x # s.handle
  PROVE  Unfiled(x)'
<1>1. created \in Nat /\ \A l \in Keys : Len(spans[l]) \in Nat
  BY DEF Shape, TypeOK
<1>2. /\ x \in (1..created) \ ended
      /\ \A k \in Keys : \A i \in 1..Len(spans[k]) : spans[k][i] # x
  BY DEF Unfiled
<1>3. ASSUME spans' = spans, ended' = ended, created' \in {created, created + 1}
      PROVE  Unfiled(x)'
  BY <1>1, <1>2, <1>3 DEF Unfiled
<1>4. ASSUME NEW s, Registers(g, s)
      PROVE  Unfiled(x)'
  <2>1. /\ FiledAt(KeyOf(s), s.handle) /\ KeyOf(s) \in Keys /\ x # s.handle
        /\ created' = created /\ ended' = ended
    BY <1>4, KeyTyped DEF Registers
  <2>2. ASSUME NEW k \in Keys, NEW i \in 1..Len(spans'[k])
        PROVE  spans'[k][i] # x
    BY <1>1, <1>2, <2>1 DEF FiledAt
  <2> QED
    BY <1>2, <2>1, <2>2 DEF Unfiled
<1>5. ASSUME NEW s, EndsOTel(g, s)
      PROVE  Unfiled(x)'
  <2> DEFINE l == KeyOf(s)
  <2>1. /\ TakenFrom(l) /\ l \in Keys /\ spans[l] # <<>>
        /\ created' = created /\ ended' = ended \union {spans[l][Len(spans[l])]}
    BY <1>5, KeyTyped DEF EndsOTel, Top
  <2>2. Len(spans[l]) \in Nat \ {0}
    <3>1. spans[l] \in Seq(1..MaxSpans)
      BY <2>1 DEF Shape, TypeOK
    <3> QED
      BY <2>1, <3>1, EmptySeq
  <2> HIDE DEF l
  <2>3. ASSUME NEW k \in Keys, NEW i \in 1..Len(spans'[k])
        PROVE  spans'[k][i] # x
    BY <1>1, <1>2, <2>1 DEF TakenFrom
  <2>4. x # spans[l][Len(spans[l])]
    BY <1>2, <2>1, <2>2
  <2> QED
    BY <1>2, <2>1, <2>3, <2>4 DEF Unfiled
<1> QED
  BY <1>3, <1>4, <1>5 DEF StepOf, BeginsLocal, BeginsResumed, BeginsOTel, Begins,
     EndsUnknown, EndsLocal, PopsOTel

(* A goroutine that is to file a span after a step was to file it before,   *)
(* or has begun it in that step.                                            *)
LEMMA RegisteringWas ==
  ASSUME Shape, NEW g \in Goroutines, StepOf(g),
         NEW h \in Goroutines, pc'[h] = "register"
  PROVE  \/ /\ pc[h] = "register" /\ open'[h] = open[h]
            /\ \A s : ~Registers(h, s)
         \/ /\ h = g /\ created' = created + 1
            /\ Top(open'[h]).handle = created + 1
            /\ spans' = spans /\ ended' = ended
<1>1. CASE h # g
  <2>1. open'[h] = open[h] /\ pc'[h] = pc[h]
    BY <1>1 DEF StepOf, BeginsLocal, BeginsResumed, BeginsOTel, Begins, Registers,
       EndsOTel, EndsUnknown, EndsLocal, PopsOTel, Grown, Shrunk, PcMoved
  <2>2. \A s : ~Registers(h, s)
    BY DEF Registers, PcMoved
  <2> QED
    BY <2>1, <2>2
<1>2. CASE h = g
  <2>1. PICK s : BeginsOTel(g, s)
    <3>1. ~bridge => pc[g] = "run"
      BY DEF Shape, BridgeOff
    <3> QED
      BY <1>2, <3>1 DEF StepOf, BeginsLocal, BeginsResumed, BeginsOTel, Begins,
         Registers, EndsOTel, EndsUnknown, EndsLocal, PopsOTel, PcMoved
  <2>2. Len(open[g]) \in Nat
    BY OpenLen DEF Shape
  <2>3. /\ Len(open'[g]) = Len(open[g]) + 1 /\ open'[g][Len(open[g]) + 1] = s
        /\ s.handle = created + 1 /\ created' = created + 1
        /\ spans' = spans /\ ended' = ended
    BY <2>1 DEF BeginsOTel, Begins, Grown
  <2> QED
    BY <1>2, <2>2, <2>3 DEF Top
<1> QED
  BY <1>1, <1>2

LEMMA RegisteringNewStep ==
  ASSUME Shape, FilesRunning, RegisteringNew, NEW g \in Goroutines, StepOf(g)
  PROVE  RegisteringNew'
<1> DEFINE handle(h) == Top(open[h]).handle
<1>1. created \in Nat /\ ended \subseteq 1..created
  BY DEF Shape, TypeOK
<1>2. \A h \in Goroutines :
        pc[h] = "register" =>
          /\ Unfiled(handle(h))
          /\ \A x \in Goroutines \ {h} : pc[x] = "register" => handle(x) # handle(h)
  BY DEF RegisteringNew
<1>3. ASSUME NEW h \in Goroutines, pc'[h] = "register"
      PROVE  Unfiled(handle(h))'
  <2>1. CASE pc[h] = "register" /\ open'[h] = open[h] /\ \A s : ~Registers(h, s)
    <3>1. Unfiled(handle(h))
      BY <1>2, <2>1
    <3>2. ASSUME NEW s, Registers(g, s)
          PROVE  handle(h) # s.handle
      <4>1. h # g /\ pc[g] = "register" /\ s = Top(open[g])
        BY <2>1, <3>2 DEF Registers
      <4> QED
        BY <1>2, <2>1, <4>1
    <3>3. ASSUME NEW x, x = handle(h)
          PROVE  Unfiled(x)'
      BY <3>1, <3>2, <3>3, UnfiledStep
    <3>4. handle(h)' = handle(h)
      BY <2>1
    <3> HIDE DEF handle
    <3>5. PICK x : x = handle(h)
      OBVIOUS
    <3>6. Unfiled(x)' /\ handle(h)' = x
      BY <3>3, <3>4, <3>5
    <3> QED
      BY <3>6 DEF Unfiled
  <2>2. CASE /\ h = g /\ created' = created + 1 /\ handle(h)' = created + 1
             /\ spans' = spans /\ ended' = ended
    <3>1. \A k \in Keys : \A i \in 1..Len(spans[k]) : spans[k][i] \in 1..created
      BY DEF FilesRunning
    <3> HIDE DEF handle
    <3> QED
      BY <1>1, <2>2, <3>1 DEF Unfiled
  <2> QED
    BY <1>3, <2>1, <2>2, RegisteringWas
<1>4. ASSUME NEW h \in Goroutines, pc'[h] = "register",
             NEW x \in Goroutines \ {h}, pc'[x] = "register"
      PROVE  handle(x)' # handle(h)'
  <2>1. \/ pc[h] = "register" /\ handle(h)' = handle(h)
        \/ h = g /\ handle(h)' = created + 1
    BY <1>4, RegisteringWas
  <2>2. \/ pc[x] = "register" /\ handle(x)' = handle(x)
        \/ x = g /\ handle(x)' = created + 1
    BY <1>4, RegisteringWas
  <2>3. \A y \in Goroutines : pc[y] = "register" => handle(y) \in 1..created
    BY <1>2 DEF Unfiled
  <2> HIDE DEF handle
  <2>4. CASE pc[h] = "register" /\ pc[x] = "register" /\ handle(h)' = handle(h)
             /\ handle(x)' = handle(x)
    BY <1>2, <1>4, <2>4
  <2> QED
    BY <1>1, <1>4, <2>1, <2>2, <2>3, <2>4
<1> QED
  BY <1>3, <1>4 DEF RegisteringNew

(* A step that files or ends nothing leaves the places on file.             *)
(* g ends s, its innermost span.                                            *)
TopEnded(g, s) ==
  /\ open[g] # <<>> /\ s = Top(open[g]) /\ pc[g] = "run" /\ Shrunk(g)

LEMMA ResumedLeavesFiles ==
  ASSUME Shape, NEW g \in Goroutines, NEW s \in Span, TopEnded(g, s), s.handle = 0,
         pc' = pc \/ PcMoved(g, "pop")
  PROVE  \A k \in Keys : FiledPlaces(k)' = FiledPlaces(k)
<1>1. /\ Len(open[g]) \in Nat \ {0} /\ s = open[g][Len(open[g])]
      /\ Len(open'[g]) = Len(open[g]) - 1
      /\ \A i \in 1..(Len(open[g]) - 1) : open'[g][i] = open[g][i]
      /\ \A h \in Goroutines : h # g => open'[h] = open[h]
  BY TopIs DEF TopEnded, Shape, Shrunk
<1>2. \A h \in Goroutines : h # g => pc'[h] = pc[h]
  BY DEF PcMoved
<1>3. pc[g] = "run" /\ pc'[g] # "register"
  BY DEF PcMoved, TopEnded
<1>4. ASSUME NEW i \in Pos
      PROVE  /\ OnFile(g, i)' <=> OnFile(g, i)
             /\ OnFile(g, i) => open'[g][i] = open[g][i]
  <2>1. i \in 1..Len(open'[g]) <=> i \in 1..Len(open[g]) /\ i # Len(open[g])
    BY <1>1 DEF Pos
  <2>2. i = Len(open[g]) => open[g][i].handle = 0
    BY <1>1
  <2>3. i \in 1..Len(open'[g]) => open'[g][i] = open[g][i]
    BY <1>1 DEF Pos
  <2> QED
    BY <1>3, <2>1, <2>2, <2>3 DEF OnFile
<1>5. ASSUME NEW h \in Goroutines, NEW i \in Pos, h # g
      PROVE  /\ OnFile(h, i)' <=> OnFile(h, i)
             /\ OnFile(h, i) => open'[h][i] = open[h][i]
  BY <1>1, <1>2, <1>5 DEF OnFile
<1> QED
  BY <1>4, <1>5, SameFiled

LEMMA StartedLeavesFiles ==
  ASSUME Shape, NEW g \in Goroutines, NEW s \in Span, TopEnded(g, s), s.handle # 0,
         pc' = pc \/ PcMoved(g, "pop"),
         NEW k \in Keys, IsFiniteSet(FiledPlaces(k))
  PROVE  /\ IsFiniteSet(FiledPlaces(k)')
         /\ Cardinality(FiledPlaces(k)') =
              IF k = KeyOf(s) THEN Cardinality(FiledPlaces(k)) - 1
              ELSE Cardinality(FiledPlaces(k))
<1> DEFINE e == <<g, Len(open[g])>>
<1>1. /\ Len(open[g]) \in Nat \ {0} /\ s = open[g][Len(open[g])]
      /\ Len(open'[g]) = Len(open[g]) - 1
      /\ \A i \in 1..(Len(open[g]) - 1) : open'[g][i] = open[g][i]
      /\ \A h \in Goroutines : h # g => open'[h] = open[h]
  BY TopIs DEF TopEnded, Shape, Shrunk
<1>2. \A h \in Goroutines : h # g => pc'[h] = pc[h]
  BY DEF PcMoved
<1>3. pc[g] = "run" /\ pc'[g] # "register"
  BY DEF PcMoved, TopEnded
<1>4. ASSUME NEW h \in Goroutines, NEW i \in Pos
      PROVE  /\ OnFile(h, i)' <=> OnFile(h, i) /\ ~(h = g /\ i = Len(open[g]))
             /\ OnFile(h, i)' => open'[h][i] = open[h][i]
  <2>1. CASE h # g
    BY <1>1, <1>2, <2>1 DEF OnFile
  <2>2. CASE h = g
    BY <1>1, <1>3, <2>2 DEF OnFile, Pos
  <2> QED
    BY <2>1, <2>2
<1>5. ASSUME NEW x \in Goroutines \X Pos
      PROVE  x \in FiledPlaces(k)' <=> x \in FiledPlaces(k) /\ x # e
  <2>1. PICK h \in Goroutines, i \in Pos : x = <<h, i>>
    BY <1>5
  <2>2. x = e <=> h = g /\ i = Len(open[g])
    BY <2>1
  <2>3. /\ OnFile(h, i)' <=> OnFile(h, i) /\ ~(h = g /\ i = Len(open[g]))
        /\ OnFile(h, i)' => open'[h][i] = open[h][i]
    BY <1>4
  <2> HIDE DEF e
  <2> QED
    BY <2>1, <2>2, <2>3 DEF FiledPlaces
<1>6. FiledPlaces(k)' = FiledPlaces(k) \ {e}
  <2>1. FiledPlaces(k)' \subseteq Goroutines \X Pos
        /\ FiledPlaces(k) \subseteq Goroutines \X Pos
    BY DEF FiledPlaces
  <2> HIDE DEF e
  <2> QED
    BY <1>5, <2>1
<1>7. e \in FiledPlaces(k) <=> k = KeyOf(s)
  <2>1. OnFile(g, Len(open[g])) /\ e \in Goroutines \X Pos
    BY <1>1, <1>3 DEF OnFile, Pos
  <2> QED
    BY <1>1, <2>1 DEF FiledPlaces
<1> HIDE DEF e
<1>8. /\ IsFiniteSet(FiledPlaces(k)')
      /\ Cardinality(FiledPlaces(k)') =
           IF e \in FiledPlaces(k) THEN Cardinality(FiledPlaces(k)) - 1
           ELSE Cardinality(FiledPlaces(k))
  BY <1>6, FS_RemoveElement
<1> QED
  BY <1>7, <1>8

(* A step that files or ends nothing leaves the places on file.             *)
LEMMA QuietSteps ==
  ASSUME Shape, Shape', NEW g \in Goroutines, StepOf(g)
  PROVE  \/ /\ spans' = spans /\ taken' = taken
            /\ \A k \in Keys : FiledPlaces(k)' = FiledPlaces(k)
         \/ \E s \in Span : \/ Registers(g, s)
                            \/ EndsOTel(g, s)
                            \/ EndsUnknown(g, s) /\ s.handle # 0
<1> DEFINE Same == \A h \in Goroutines : \A i \in Pos :
             /\ OnFile(h, i)' <=> OnFile(h, i)
             /\ OnFile(h, i) => open'[h][i] = open[h][i]
<1>1. Same => \A k \in Keys : FiledPlaces(k)' = FiledPlaces(k)
  BY SameFiled
<1>2. Len(open[g]) \in Nat /\ (open[g] = <<>> <=> Len(open[g]) = 0)
  BY OpenLen DEF Shape
<1>3. ASSUME ~bridge, bridge' = bridge
      PROVE  Same
  BY <1>3 DEF Shape, BridgeOff, OnFile
<1>4. ASSUME NEW s, BeginsResumed(g, s)
      PROVE  Same
  <2>1. /\ Grown(g, s) /\ s.handle = 0 /\ Len(open[g]) = 0
        /\ pc' = pc
    BY <1>2, <1>4 DEF BeginsResumed, Begins
  <2>2. \A h \in Goroutines : h # g => open'[h] = open[h]
    BY <2>1 DEF Grown
  <2>3. \A i \in Pos : ~OnFile(g, i) /\ ~OnFile(g, i)'
    BY <2>1 DEF OnFile, Grown, Pos
  <2> QED
    BY <2>1, <2>2, <2>3 DEF OnFile
<1>5. ASSUME NEW s, BeginsOTel(g, s)
      PROVE  Same
  <2>1. Grown(g, s) /\ PcMoved(g, "register") /\ pc[g] = "run"
    BY <1>5 DEF BeginsOTel, Begins
  <2>2. \A h \in Goroutines : h # g => open'[h] = open[h] /\ pc'[h] = pc[h]
    BY <2>1 DEF Grown, PcMoved
  <2>3. ASSUME NEW i \in Pos
        PROVE  /\ OnFile(g, i)' <=> OnFile(g, i)
               /\ OnFile(g, i) => open'[g][i] = open[g][i]
    BY <1>2, <2>1 DEF OnFile, Grown, Pos, PcMoved
  <2> QED
    BY <2>2, <2>3 DEF OnFile
<1>6. ASSUME PopsOTel(g)
      PROVE  Same
  BY <1>6 DEF PopsOTel, PcMoved, OnFile
<1>7. ASSUME NEW s \in Span, EndsUnknown(g, s), s.handle = 0
      PROVE  \A k \in Keys : FiledPlaces(k)' = FiledPlaces(k)
  BY <1>7, ResumedLeavesFiles DEF EndsUnknown, TopEnded
<1> HIDE DEF Same
<1> QED
  BY <1>1, <1>3, <1>4, <1>5, <1>6, <1>7 DEF StepOf, BeginsLocal, BeginsResumed,
     BeginsOTel, Begins, EndsUnknown, EndsLocal, PopsOTel

LEMMA RegisteredStep ==
  ASSUME Shape, Shape', Registered,
         NEW g \in Goroutines, StepOf(g)
  PROVE  Registered'
<1>1. AllFiledPlaces
  BY FiledUnderIsPlaces DEF Shape
<1>2. AllFiledPlaces'
  <2>1. TypeOK' /\ PcSound'
    BY DEF Shape
  <2> QED
    BY <2>1, FiledUnderIsPlaces, PTL
<1>3. \A k \in Keys : /\ IsFiniteSet(FiledPlaces(k))
                     /\ Len(spans[k]) + taken[k] = Cardinality(FiledPlaces(k))
  BY <1>1 DEF Registered, AllFiledPlaces
<1> SUFFICES ASSUME NEW k \in Keys
             PROVE  /\ IsFiniteSet(FiledPlaces(k)')
                    /\ Len(spans'[k]) + taken'[k] = Cardinality(FiledPlaces(k)')
  BY <1>2 DEF Registered, AllFiledPlaces
<1>4. /\ IsFiniteSet(FiledPlaces(k))
      /\ Len(spans[k]) + taken[k] = Cardinality(FiledPlaces(k))
  BY <1>3
<1>0. Len(spans[k]) \in Nat /\ taken[k] \in Nat
  BY DEF Shape, TypeOK
<1>5. ASSUME NEW s \in Span, s = Top(open[g]), open[g] # <<>>
      PROVE  /\ Len(open[g]) \in Pos /\ s = open[g][Len(open[g])]
             /\ \A h \in Goroutines : Len(open[h]) \in Nat
  BY <1>5, TopIs, OpenLen DEF Shape, Pos
<1>6. ASSUME NEW s \in Span, Registers(g, s)
      PROVE  /\ IsFiniteSet(FiledPlaces(k)')
             /\ Len(spans'[k]) + taken'[k] = Cardinality(FiledPlaces(k)')
  <2> DEFINE e == <<g, Len(open[g])>>
  <2>1. /\ s = Top(open[g]) /\ open[g] # <<>> /\ pc[g] = "register"
        /\ PcMoved(g, "run") /\ open' = open /\ s.handle # 0
        /\ FiledAt(KeyOf(s), s.handle) /\ taken' = taken
    BY <1>6 DEF Registers
  <2>2. /\ Len(open[g]) \in Pos /\ s = open[g][Len(open[g])]
        /\ \A h \in Goroutines : Len(open[h]) \in Nat
    BY <1>5, <2>1
  <2>3. \A h \in Goroutines : \A i \in Pos :
          OnFile(h, i)' <=> OnFile(h, i) \/ (h = g /\ i = Len(open[g]))
    BY <2>1, <2>2 DEF OnFile, PcMoved, Pos
  <2>4. ~OnFile(g, Len(open[g]))
    BY <2>1 DEF OnFile
  <2>5. CASE k = KeyOf(s)
    <3>1. e \notin FiledPlaces(k)
      BY <2>4 DEF FiledPlaces
    <3>2. ASSUME NEW x \in Goroutines \X Pos
          PROVE  x \in FiledPlaces(k)' <=> x \in FiledPlaces(k) \/ x = e
      <4>1. PICK h \in Goroutines, i \in Pos : x = <<h, i>>
        BY <3>2
      <4>2. x = e <=> h = g /\ i = Len(open[g])
        BY <4>1
      <4>3. OnFile(h, i)' <=> OnFile(h, i) \/ (h = g /\ i = Len(open[g]))
        BY <2>3
      <4> HIDE DEF e
      <4> QED
        BY <2>1, <2>2, <2>5, <4>1, <4>2, <4>3 DEF FiledPlaces
    <3>3. FiledPlaces(k)' = FiledPlaces(k) \union {e}
      <4>1. FiledPlaces(k)' \subseteq Goroutines \X Pos
            /\ FiledPlaces(k) \subseteq Goroutines \X Pos
            /\ e \in Goroutines \X Pos
        BY <2>2 DEF FiledPlaces
      <4> HIDE DEF e
      <4> QED
        BY <3>2, <4>1
    <3> HIDE DEF e
    <3>4. /\ IsFiniteSet(FiledPlaces(k)')
          /\ Cardinality(FiledPlaces(k)') = Cardinality(FiledPlaces(k)) + 1
      BY <1>4, <3>1, <3>3, FS_AddElement
    <3>5. Len(spans'[k]) = Len(spans[k]) + 1 /\ taken'[k] = taken[k]
      BY <2>1, <2>5 DEF FiledAt
    <3> QED
      BY <1>0, <1>4, <3>4, <3>5
  <2>6. CASE k # KeyOf(s)
    <3>1. ASSUME NEW x \in Goroutines \X Pos
          PROVE  x \in FiledPlaces(k)' <=> x \in FiledPlaces(k)
      <4>1. PICK h \in Goroutines, i \in Pos : x = <<h, i>>
        BY <3>1
      <4>2. OnFile(h, i)' <=> OnFile(h, i) \/ (h = g /\ i = Len(open[g]))
        BY <2>3
      <4> QED
        BY <2>1, <2>2, <2>6, <4>1, <4>2 DEF FiledPlaces
    <3>2. FiledPlaces(k)' = FiledPlaces(k)
      BY <3>1 DEF FiledPlaces
    <3> QED
      BY <1>4, <2>1, <2>6, <3>2 DEF FiledAt
  <2> QED
    BY <2>5, <2>6
<1>7. ASSUME NEW s \in Span, EndsOTel(g, s)
      PROVE  /\ IsFiniteSet(FiledPlaces(k)')
             /\ Len(spans'[k]) + taken'[k] = Cardinality(FiledPlaces(k)')
  <2>1. /\ TopEnded(g, s) /\ PcMoved(g, "pop") /\ TakenFrom(KeyOf(s))
        /\ KeyOf(s) \in Keys
    BY <1>7, KeyTyped DEF EndsOTel, TopEnded
  <2>2. CASE s.handle # 0
    <3>1. /\ IsFiniteSet(FiledPlaces(k)')
          /\ Cardinality(FiledPlaces(k)') =
               IF k = KeyOf(s) THEN Cardinality(FiledPlaces(k)) - 1
               ELSE Cardinality(FiledPlaces(k))
      BY <1>4, <2>1, <2>2, StartedLeavesFiles
    <3>2. taken' = taken
      BY <1>7, <2>2 DEF EndsOTel
    <3>3. CASE k = KeyOf(s)
      <4>1. Len(spans'[k]) = Len(spans[k]) - 1 /\ taken'[k] = taken[k]
        BY <2>1, <3>2, <3>3 DEF TakenFrom
      <4> QED
        BY <1>0, <1>4, <3>1, <3>3, <4>1
    <3>4. CASE k # KeyOf(s)
      BY <1>4, <2>1, <3>1, <3>2, <3>4 DEF TakenFrom
    <3> QED
      BY <3>3, <3>4
  <2>3. CASE s.handle = 0
    <3>1. FiledPlaces(k)' = FiledPlaces(k)
      BY <2>1, <2>3, ResumedLeavesFiles
    <3>2. Counted(KeyOf(s), 1)
      BY <1>7, <2>3 DEF EndsOTel
    <3>3. CASE k = KeyOf(s)
      <4>1. Len(spans'[k]) = Len(spans[k]) - 1 /\ taken'[k] = taken[k] + 1
        BY <2>1, <3>2, <3>3 DEF TakenFrom, Counted
      <4>2. Len(spans'[k]) + taken'[k] = Len(spans[k]) + taken[k]
        BY <1>0, <4>1
      <4> QED
        BY <1>4, <3>1, <4>2
    <3>4. CASE k # KeyOf(s)
      BY <1>4, <2>1, <3>1, <3>2, <3>4 DEF TakenFrom, Counted
    <3> QED
      BY <3>3, <3>4
  <2> QED
    BY <2>2, <2>3
<1>8. ASSUME NEW s \in Span, EndsUnknown(g, s), s.handle # 0
      PROVE  /\ IsFiniteSet(FiledPlaces(k)')
             /\ Len(spans'[k]) + taken'[k] = Cardinality(FiledPlaces(k)')
  <2>1. /\ TopEnded(g, s) /\ pc' = pc /\ spans' = spans /\ Counted(KeyOf(s), -1)
        /\ KeyOf(s) \in Keys
    BY <1>8, KeyTyped DEF EndsUnknown, TopEnded
  <2>2. /\ IsFiniteSet(FiledPlaces(k)')
        /\ Cardinality(FiledPlaces(k)') =
             IF k = KeyOf(s) THEN Cardinality(FiledPlaces(k)) - 1
             ELSE Cardinality(FiledPlaces(k))
    BY <1>4, <1>8, <2>1, StartedLeavesFiles
  <2>3. CASE k = KeyOf(s)
    BY <1>0, <1>4, <2>1, <2>2, <2>3 DEF Counted
  <2>4. CASE k # KeyOf(s)
    BY <1>4, <2>1, <2>2, <2>4 DEF Counted
  <2> QED
    BY <2>3, <2>4
<1> QED
  BY <1>4, <1>6, <1>7, <1>8, QuietSteps

LEMMA OthersSame ==
  ASSUME NEW g \in Goroutines, StepOf(g), NEW h \in Goroutines, h # g
  PROVE  open'[h] = open[h] /\ pc'[h] = pc[h]
  BY DEF StepOf, BeginsLocal, BeginsResumed, BeginsOTel, Begins, Registers,
     EndsOTel, EndsUnknown, EndsLocal, PopsOTel, Grown, Shrunk, PcMoved

LEMMA AccountedStep ==
  ASSUME Shape, Shape', Accounted, NEW g \in Goroutines, StepOf(g)
  PROVE  Accounted'
<1> SUFFICES ASSUME bridge', NEW h \in 1..created'
             PROVE  \/ h \in ended'
                    \/ \E k \in Keys : \E i \in 1..Len(spans'[k]) : spans'[k][i] = h
                    \/ \E x \in Goroutines :
                         pc'[x] = "register" /\ Top(open'[x]).handle = h
  BY DEF Accounted
<1>1. bridge /\ ended \subseteq ended' /\ created \in Nat
  <2>1. bridge' = bridge
    BY DEF StepOf, BeginsLocal, BeginsResumed, BeginsOTel, Begins, Registers,
       EndsOTel, EndsUnknown, EndsLocal, PopsOTel
  <2>2. ended' = ended \/ \E s \in Span : EndsOTel(g, s)
    BY DEF StepOf, BeginsLocal, BeginsResumed, BeginsOTel, Begins, Registers,
       EndsUnknown, EndsLocal, PopsOTel
  <2>3. ended \subseteq ended'
    BY <2>2 DEF EndsOTel
  <2> QED
    BY <2>1, <2>3 DEF Shape, TypeOK
<1>2. \A k \in Keys : Len(spans[k]) \in Nat
  BY DEF Shape, TypeOK
<1>3. \A x \in Goroutines : x # g => open'[x] = open[x] /\ pc'[x] = pc[x]
  BY OthersSame
<1>4. ASSUME NEW s \in Span, BeginsOTel(g, s), h = created + 1
      PROVE  pc'[g] = "register" /\ Top(open'[g]).handle = h
  <2>1. /\ pc'[g] = "register" /\ s.handle = created + 1 /\ Len(open[g]) \in Nat
        /\ Len(open'[g]) = Len(open[g]) + 1 /\ open'[g][Len(open[g]) + 1] = s
    BY <1>4, OpenLen DEF BeginsOTel, Begins, Grown, PcMoved, Shape
  <2> QED
    BY <1>4, <2>1 DEF Top
<1>5. h \in 1..created \/ \E s \in Span : BeginsOTel(g, s) /\ h = created + 1
  BY <1>1 DEF StepOf, BeginsLocal, BeginsResumed, BeginsOTel, Begins, Registers,
     EndsOTel, EndsUnknown, EndsLocal, PopsOTel
<1>6. CASE h \in 1..created
  <2>1. CASE h \in ended
    BY <1>1, <2>1
  <2>2. CASE \E k \in Keys : \E i \in 1..Len(spans[k]) : spans[k][i] = h
    <3>0. PICK k \in Keys : \E i \in 1..Len(spans[k]) : spans[k][i] = h
      BY <2>2
    <3>1. PICK i \in 1..Len(spans[k]) : spans[k][i] = h
      BY <3>0
    <3>2. CASE spans' = spans
      BY <3>1, <3>2
    <3>3. ASSUME NEW s \in Span, Registers(g, s)
          PROVE  i \in 1..Len(spans'[k]) /\ spans'[k][i] = h
      BY <1>2, <3>1, <3>3, KeyTyped DEF Registers, FiledAt
    <3>4. ASSUME NEW s \in Span, EndsOTel(g, s)
          PROVE  \/ i \in 1..Len(spans'[k]) /\ spans'[k][i] = h
                 \/ h \in ended'
      <4>1. /\ TakenFrom(KeyOf(s)) /\ KeyOf(s) \in Keys
            /\ ended' = ended \union {spans[KeyOf(s)][Len(spans[KeyOf(s)])]}
        BY <3>4, KeyTyped DEF EndsOTel, Top
      <4>2. CASE k = KeyOf(s) /\ i = Len(spans[k])
        BY <3>1, <4>1, <4>2
      <4>3. CASE ~(k = KeyOf(s) /\ i = Len(spans[k]))
        <5>1. i \in 1..Len(spans'[k]) /\ spans'[k][i] = spans[k][i]
          BY <1>2, <3>1, <4>1, <4>3 DEF TakenFrom
        <5> QED
          BY <3>1, <5>1
      <4> QED
        BY <4>2, <4>3
    <3> QED
      BY <3>2, <3>3, <3>4 DEF StepOf, BeginsLocal, BeginsResumed, BeginsOTel, Begins,
         EndsUnknown, EndsLocal, PopsOTel
  <2>3. CASE \E x \in Goroutines : pc[x] = "register" /\ Top(open[x]).handle = h
    <3>1. PICK x \in Goroutines : pc[x] = "register" /\ Top(open[x]).handle = h
      BY <2>3
    <3>2. CASE x # g
      BY <1>3, <3>1, <3>2
    <3>3. CASE x = g
      <4>1. PICK s \in Span : Registers(g, s)
        BY <1>1, <3>1, <3>3 DEF StepOf, BeginsLocal, BeginsResumed, BeginsOTel, EndsOTel,
           EndsUnknown, EndsLocal, PopsOTel
      <4>2. /\ FiledAt(KeyOf(s), s.handle) /\ s.handle = h /\ KeyOf(s) \in Keys
        BY <3>1, <3>3, <4>1, KeyTyped DEF Registers
      <4>3. /\ Len(spans[KeyOf(s)]) + 1 \in 1..Len(spans'[KeyOf(s)])
            /\ spans'[KeyOf(s)][Len(spans[KeyOf(s)]) + 1] = h
        BY <1>2, <4>2 DEF FiledAt
      <4> QED
        BY <4>2, <4>3
    <3> QED
      BY <3>2, <3>3
  <2> QED
    BY <1>1, <1>6, <2>1, <2>2, <2>3 DEF Accounted
<1> QED
  BY <1>4, <1>5, <1>6

-----------------------------------------------------------------------------
(* Every step preserves the depth of the stack.                             *)

(* How many entries a step adds to those of g, or takes from them.          *)
HeldChange(g, n) ==
  /\ HeldBy(g)' = HeldBy(g) + n
  /\ \A h \in Goroutines : h # g => HeldBy(h)' = HeldBy(h)

HeldSound ==
  \A h \in Goroutines :
    /\ HeldBy(h) \in Nat /\ Len(open[h]) \in Nat
    /\ pc[h] = "pop" => HeldBy(h) = Len(open[h]) + 1
    /\ pc[h] # "pop" => HeldBy(h) = Len(open[h])

LEMMA HeldIsSound ==
  ASSUME TypeOK
  PROVE  HeldSound
  BY HeldByIs DEF HeldSound

LEMMA StepHeld ==
  ASSUME Shape, Shape', NEW g \in Goroutines, StepOf(g)
  PROVE  \/ HeldChange(g, 1) /\ left' = left /\ \E s \in Span : Pushed(s.id)
         \/ HeldChange(g, 0) /\ left' = left /\ traceStack' = traceStack
         \/ HeldChange(g, -1) /\ left' = left /\ Popped
         \/ HeldChange(g, -1) /\ left' = left + 1 /\ traceStack' = traceStack
<1>1. HeldSound
  BY HeldIsSound DEF Shape
<1>2. HeldSound'
  <2>1. TypeOK'
    BY DEF Shape
  <2> QED
    BY <2>1, HeldIsSound, PTL
<1>3. ASSUME NEW h \in Goroutines, h # g
      PROVE  HeldBy(h)' = HeldBy(h)
  <2>1. open'[h] = open[h] /\ pc'[h] = pc[h]
    BY <1>3 DEF StepOf, BeginsLocal, BeginsResumed, BeginsOTel, Begins, Registers,
       EndsOTel, EndsUnknown, EndsLocal, PopsOTel, Grown, Shrunk, PcMoved
  <2> QED
    BY <1>1, <1>2, <2>1 DEF HeldSound
<1>4. /\ pc[g] # "pop" => HeldBy(g) = Len(open[g])
      /\ pc[g] = "pop" => HeldBy(g) = Len(open[g]) + 1
      /\ Len(open[g]) \in Nat
  BY <1>1 DEF HeldSound
<1>5. /\ pc'[g] # "pop" => HeldBy(g)' = Len(open'[g])
      /\ pc'[g] = "pop" => HeldBy(g)' = Len(open'[g]) + 1
  BY <1>2 DEF HeldSound
<1>6. ~bridge => pc[g] = "run"
  BY DEF Shape, BridgeOff
<1>7. ASSUME NEW s \in Span, BeginsLocal(g, s) \/ BeginsResumed(g, s) \/ BeginsOTel(g, s)
      PROVE  HeldChange(g, 1) /\ left' = left /\ Pushed(s.id)
  <2>1. /\ Grown(g, s) /\ Pushed(s.id) /\ left' = left
        /\ pc[g] = "run" /\ pc'[g] # "pop"
    BY <1>6, <1>7 DEF BeginsLocal, BeginsResumed, BeginsOTel, Begins, PcMoved
  <2>2. Len(open'[g]) = Len(open[g]) + 1
    BY <2>1 DEF Grown
  <2>3. HeldBy(g)' = HeldBy(g) + 1
    BY <1>4, <1>5, <2>1, <2>2
  <2> QED
    BY <1>3, <2>1, <2>3 DEF HeldChange
<1>8. ASSUME NEW s, Registers(g, s)
      PROVE  HeldChange(g, 0) /\ left' = left /\ traceStack' = traceStack
  <2>1. HeldBy(g)' = HeldBy(g) + 0
    BY <1>4, <1>5, <1>8 DEF Registers, PcMoved
  <2> QED
    BY <1>3, <1>8, <2>1 DEF HeldChange, Registers
<1>9. ASSUME NEW s, EndsOTel(g, s)
      PROVE  HeldChange(g, 0) /\ left' = left /\ traceStack' = traceStack
  <2>1. HeldBy(g)' = HeldBy(g) + 0
    BY <1>4, <1>5, <1>9 DEF EndsOTel, PcMoved, Shrunk
  <2> QED
    BY <1>3, <1>9, <2>1 DEF HeldChange, EndsOTel
<1>10. ASSUME NEW s, EndsUnknown(g, s)
       PROVE  HeldChange(g, -1) /\ left' = left + 1 /\ traceStack' = traceStack
  <2>1. HeldBy(g)' = HeldBy(g) + (-1)
    BY <1>4, <1>5, <1>10 DEF EndsUnknown, Shrunk
  <2> QED
    BY <1>3, <1>10, <2>1 DEF HeldChange, EndsUnknown
<1>11. ASSUME EndsLocal(g)
       PROVE  HeldChange(g, -1) /\ left' = left /\ Popped
  <2>1. HeldBy(g)' = HeldBy(g) + (-1)
    BY <1>4, <1>5, <1>6, <1>11 DEF EndsLocal, Shrunk
  <2> QED
    BY <1>3, <1>11, <2>1 DEF HeldChange, EndsLocal
<1>12. ASSUME PopsOTel(g)
       PROVE  HeldChange(g, -1) /\ left' = left /\ Popped
  <2>1. HeldBy(g)' = HeldBy(g) + (-1)
    BY <1>4, <1>5, <1>12 DEF PopsOTel, PcMoved
  <2> QED
    BY <1>3, <1>12, <2>1 DEF HeldChange, PopsOTel
<1> QED
  BY <1>7, <1>8, <1>9, <1>10, <1>11, <1>12 DEF StepOf

LEMMA HeldPlacesStep ==
  ASSUME TypeOK, TypeOK', NEW g \in Goroutines
  PROVE  /\ HeldChange(g, 0) => Held' = Held
         /\ HeldChange(g, 1) => /\ <<g, HeldBy(g) + 1>> \notin Held
                                /\ Held' = Held \union {<<g, HeldBy(g) + 1>>}
         /\ HeldChange(g, -1) => /\ <<g, HeldBy(g)>> \in Held
                                 /\ Held' = Held \ {<<g, HeldBy(g)>>}
<1>1. Held = HeldPlaces
  BY HeldIsPlaces
<1>2. (Held = HeldPlaces)'
  BY HeldIsPlaces, PTL
<1>3. HeldSound
  BY HeldIsSound
<1>4. HeldSound'
  BY HeldIsSound, PTL
<1>5. \A h \in Goroutines : HeldBy(h) \in Nat /\ HeldBy(h)' \in Nat
  BY <1>3, <1>4 DEF HeldSound
<1>6. /\ HeldPlaces \subseteq Goroutines \X Pos
      /\ HeldPlaces' \subseteq Goroutines \X Pos
  BY DEF HeldPlaces
<1>7. \A h \in Goroutines, i \in Pos :
        /\ <<h, i>> \in HeldPlaces <=> i <= HeldBy(h)
        /\ <<h, i>> \in HeldPlaces' <=> i <= HeldBy(h)'
  BY DEF HeldPlaces
<1>8. ASSUME HeldChange(g, 0)
      PROVE  Held' = Held
  <2>1. \A h \in Goroutines : HeldBy(h)' = HeldBy(h)
    BY <1>5, <1>8 DEF HeldChange
  <2>2. \A x \in Goroutines \X Pos : x \in HeldPlaces' <=> x \in HeldPlaces
    BY <1>7, <2>1
  <2> QED
    BY <1>1, <1>2, <1>6, <2>2
<1>9. ASSUME HeldChange(g, 1)
      PROVE  /\ <<g, HeldBy(g) + 1>> \notin Held
             /\ Held' = Held \union {<<g, HeldBy(g) + 1>>}
  <2> DEFINE n == HeldBy(g) + 1
  <2>1. n \in Pos /\ ~(n <= HeldBy(g))
    BY <1>5 DEF Pos
  <2>2. <<g, n>> \notin HeldPlaces
    BY <1>7, <2>1
  <2>3. ASSUME NEW h \in Goroutines, NEW i \in Pos
        PROVE  <<h, i>> \in HeldPlaces' <=> <<h, i>> \in HeldPlaces \/ <<h, i>> = <<g, n>>
    <3>1. CASE h # g
      BY <1>7, <1>9, <3>1 DEF HeldChange
    <3>2. CASE h = g
      <4>1. i <= HeldBy(g)' <=> i <= HeldBy(g) \/ i = n
        BY <1>5, <1>9 DEF HeldChange, Pos
      <4> HIDE DEF n
      <4> QED
        BY <1>7, <3>2, <4>1
    <3> QED
      BY <3>1, <3>2
  <2> HIDE DEF n
  <2>4. HeldPlaces' = HeldPlaces \union {<<g, n>>}
    BY <1>6, <2>1, <2>3
  <2> QED
    BY <1>1, <1>2, <2>2, <2>4 DEF n
<1>10. ASSUME HeldChange(g, -1)
       PROVE  /\ <<g, HeldBy(g)>> \in Held
              /\ Held' = Held \ {<<g, HeldBy(g)>>}
  <2> DEFINE n == HeldBy(g)
  <2>1. n \in Pos /\ n <= HeldBy(g) /\ HeldBy(g)' = n - 1
    BY <1>5, <1>10 DEF Pos, HeldChange
  <2>2. <<g, n>> \in HeldPlaces
    BY <1>7, <2>1
  <2>3. ASSUME NEW h \in Goroutines, NEW i \in Pos
        PROVE  <<h, i>> \in HeldPlaces' <=> <<h, i>> \in HeldPlaces /\ <<h, i>> # <<g, n>>
    <3>1. CASE h # g
      BY <1>7, <1>10, <3>1 DEF HeldChange
    <3>2. CASE h = g
      <4>1. i <= HeldBy(g)' <=> i <= HeldBy(g) /\ i # n
        BY <1>5, <2>1 DEF Pos
      <4> HIDE DEF n
      <4> QED
        BY <1>7, <3>2, <4>1
    <3> QED
      BY <3>1, <3>2
  <2> HIDE DEF n
  <2>4. HeldPlaces' = HeldPlaces \ {<<g, n>>}
    BY <1>6, <2>1, <2>3
  <2> QED
    BY <1>1, <1>2, <2>2, <2>4 DEF n
<1> QED
  BY <1>8, <1>9, <1>10

LEMMA DepthStep ==
  ASSUME Shape, Shape', Depth, NEW g \in Goroutines, StepOf(g)
  PROVE  Depth'
<1>1. TypeOK /\ TypeOK'
  BY DEF Shape
<1>2. IsFiniteSet(Held) /\ Len(traceStack) = Cardinality(Held) + left
  BY DEF Depth, DepthMatchesOpen
<1>3. Cardinality(Held) \in Nat /\ left \in Nat /\ Len(traceStack) \in Nat
  BY <1>1, <1>2, FS_CardinalityType DEF TypeOK
<1> SUFFICES IsFiniteSet(Held') /\ Len(traceStack') = Cardinality(Held') + left'
  BY DEF Depth, DepthMatchesOpen
<1>4. ASSUME HeldChange(g, 1), left' = left, NEW id, Pushed(id)
      PROVE  IsFiniteSet(Held') /\ Len(traceStack') = Cardinality(Held') + left'
  <2> DEFINE e == <<g, HeldBy(g) + 1>>
  <2>0. e \notin Held /\ Held' = Held \union {e}
    BY <1>1, <1>4, HeldPlacesStep
  <2> HIDE DEF e
  <2>1. /\ IsFiniteSet(Held') /\ Cardinality(Held') = Cardinality(Held) + 1
    BY <1>2, <2>0, FS_AddElement
  <2> QED
    BY <1>2, <1>3, <1>4, <2>1 DEF Pushed
<1>5. ASSUME HeldChange(g, 0), left' = left, traceStack' = traceStack
      PROVE  IsFiniteSet(Held') /\ Len(traceStack') = Cardinality(Held') + left'
  BY <1>1, <1>2, <1>5, HeldPlacesStep
<1>6. ASSUME HeldChange(g, -1)
      PROVE  /\ IsFiniteSet(Held') /\ Cardinality(Held') = Cardinality(Held) - 1
             /\ Cardinality(Held') \in Nat
  <2> DEFINE e == <<g, HeldBy(g)>>
  <2>0. e \in Held /\ Held' = Held \ {e}
    BY <1>1, <1>6, HeldPlacesStep
  <2> HIDE DEF e
  <2>1. IsFiniteSet(Held') /\ Cardinality(Held') = Cardinality(Held) - 1
    BY <1>2, <2>0, FS_RemoveElement
  <2> QED
    BY <2>1, FS_CardinalityType
<1>7. ASSUME HeldChange(g, -1), left' = left, Popped
      PROVE  IsFiniteSet(Held') /\ Len(traceStack') = Cardinality(Held') + left'
  <2>1. Len(traceStack) > 0
    BY <1>2, <1>3, <1>6, <1>7
  <2>2. Len(traceStack') = Len(traceStack) - 1
    BY <1>7, <2>1 DEF Popped
  <2> QED
    BY <1>2, <1>3, <1>6, <1>7, <2>2
<1>8. ASSUME HeldChange(g, -1), left' = left + 1, traceStack' = traceStack
      PROVE  IsFiniteSet(Held') /\ Len(traceStack') = Cardinality(Held') + left'
  BY <1>2, <1>3, <1>6, <1>8
<1> QED
  BY <1>4, <1>5, <1>7, <1>8, StepHeld

-----------------------------------------------------------------------------
(* Every step keeps the ids of a goroutine on top, as long as spans do not  *)
(* overlap.                                                                 *)
LEMMA ActsAlone ==
  ASSUME Shape, OwnOnTop, NEW g \in Goroutines, StepOf(g), ~overlapped'
  PROVE  ~overlapped /\ Alone(g)
<1>1. overlapped \in BOOLEAN
  BY DEF Shape, TypeOK
<1>2. ASSUME NEW s, Begins(g, s)
      PROVE  ~overlapped /\ Alone(g)
  BY <1>1, <1>2 DEF Begins
<1>3. ASSUME overlapped' = overlapped, Busy(g)
      PROVE  ~overlapped /\ Alone(g)
  BY <1>3 DEF OwnOnTop, Alone
<1> QED
  BY <1>2, <1>3 DEF StepOf, BeginsLocal, BeginsResumed, BeginsOTel, Registers,
     EndsOTel, EndsUnknown, EndsLocal, PopsOTel, Busy

LEMMA OwnStackStep ==
  ASSUME Shape, Shape', Registered, NoneTaken, NEW g \in Goroutines, StepOf(g),
         Alone(g), OwnStack(g)
  PROVE  OwnStack(g)'
<1>1. HeldSound
  BY HeldIsSound DEF Shape
<1>2. /\ Len(open[g]) \in Nat /\ HeldBy(g) \in Nat
      /\ pc[g] # "pop" => HeldBy(g) = Len(open[g])
      /\ pc[g] = "pop" => HeldBy(g) = Len(open[g]) + 1
  BY <1>1 DEF HeldSound
<1>3. left \in Nat /\ Len(traceStack) \in Nat
  BY DEF Shape, TypeOK
<1>4. /\ Len(traceStack) = left + HeldBy(g)
      /\ \A i \in 1..Len(open[g]) : traceStack[left + i] = open[g][i].id
  BY DEF OwnStack
<1>5. Len(traceStack') = left' + HeldBy(g)'
  <2>1. \/ HeldChange(g, 1) /\ left' = left /\ \E s \in Span : Pushed(s.id)
        \/ HeldChange(g, 0) /\ left' = left /\ traceStack' = traceStack
        \/ HeldChange(g, -1) /\ left' = left /\ Popped
        \/ HeldChange(g, -1) /\ left' = left + 1 /\ traceStack' = traceStack
    BY StepHeld
  <2>2. HeldBy(g)' \in Nat
    <3>1. HeldSound'
      <4>1. TypeOK'
        BY DEF Shape
      <4> QED
        BY <4>1, HeldIsSound, PTL
    <3> QED
      BY <3>1 DEF HeldSound
  <2> QED
    BY <1>2, <1>3, <1>4, <2>1, <2>2 DEF HeldChange, Pushed, Popped
<1>6. ~bridge => pc[g] = "run"
  BY DEF Shape, BridgeOff
<1>7. ASSUME NEW s, Begins(g, s), pc[g] = "run"
      PROVE  \A i \in 1..Len(open'[g]) : traceStack'[left' + i] = open'[g][i].id
  <2> SUFFICES ASSUME NEW i \in 1..Len(open'[g])
               PROVE  traceStack'[left' + i] = open'[g][i].id
    OBVIOUS
  <2>1. Grown(g, s) /\ Pushed(s.id) /\ left' = left
    BY <1>7 DEF Begins
  <2>2. Len(traceStack) = left + Len(open[g])
    BY <1>2, <1>4, <1>7
  <2>3. CASE i \in 1..Len(open[g])
    <3>1. left + i \in 1..Len(traceStack)
      BY <1>2, <1>3, <2>2, <2>3
    <3> QED
      BY <1>4, <2>1, <2>3, <3>1 DEF Grown, Pushed
  <2>4. CASE i = Len(open[g]) + 1
    <3>1. left + i = Len(traceStack) + 1
      BY <1>2, <1>3, <2>2, <2>4
    <3> QED
      BY <2>1, <2>4, <3>1 DEF Grown, Pushed
  <2>5. i \in 1..Len(open[g]) \/ i = Len(open[g]) + 1
    BY <1>2, <2>1 DEF Grown
  <2> QED
    BY <2>3, <2>4, <2>5
<1>8. ASSUME Shrunk(g), traceStack' = traceStack, left' = left
      PROVE  \A i \in 1..Len(open'[g]) : traceStack'[left' + i] = open'[g][i].id
  BY <1>2, <1>4, <1>8 DEF Shrunk
<1>9. ASSUME NEW n \in Nat, n <= Len(open[g]), Popped, left' = left,
             Len(traceStack') = left + n
      PROVE  \A i \in 1..n : traceStack'[left' + i] = open[g][i].id
  <2> SUFFICES ASSUME NEW i \in 1..n
               PROVE  traceStack'[left' + i] = open[g][i].id
    OBVIOUS
  <2>1. left + i \in 1..Len(traceStack') /\ i \in 1..Len(open[g])
    BY <1>2, <1>3, <1>9
  <2> QED
    BY <1>4, <1>9, <2>1 DEF Popped
<1>10. ASSUME EndsLocal(g)
       PROVE  \A i \in 1..Len(open'[g]) : traceStack'[left' + i] = open'[g][i].id
  <2>1. Shrunk(g) /\ Popped /\ left' = left /\ pc[g] = "run" /\ pc' = pc
    BY <1>6, <1>10 DEF EndsLocal
  <2>2. Len(open[g]) - 1 \in Nat
    <3>1. Len(open'[g]) = Len(open[g]) - 1 /\ open'[g] \in Seq(Span)
      BY <2>1 DEF Shrunk
    <3> QED
      BY <1>2, <3>1
  <2>3. Len(traceStack') = left + (Len(open[g]) - 1)
    BY <1>2, <1>3, <1>4, <2>1, <2>2 DEF Popped
  <2>4. \A i \in 1..(Len(open[g]) - 1) : traceStack'[left' + i] = open[g][i].id
    BY <1>2, <1>9, <2>1, <2>2, <2>3
  <2> QED
    BY <2>1, <2>4 DEF Shrunk
<1>11. ASSUME PopsOTel(g)
       PROVE  \A i \in 1..Len(open'[g]) : traceStack'[left' + i] = open'[g][i].id
  <2>1. Popped /\ left' = left /\ pc[g] = "pop" /\ open' = open
    BY <1>11 DEF PopsOTel
  <2>2. Len(traceStack') = left + Len(open[g])
    BY <1>2, <1>3, <1>4, <2>1 DEF Popped
  <2> QED
    BY <1>2, <1>9, <2>1, <2>2
<1>12. ASSUME NEW s, EndsUnknown(g, s)
       PROVE  \A i \in 1..Len(open'[g]) : traceStack'[left' + i] = open'[g][i].id
  <2>0. Len(open[g]) = 1 /\ Shrunk(g)
    BY <1>12, AloneEndings, Endings DEF EndsUnknown
  <2>1. Len(open'[g]) = 0
    BY <2>0 DEF Shrunk
  <2> QED
    BY <2>1
<1>13. \A i \in 1..Len(open'[g]) : traceStack'[left' + i] = open'[g][i].id
  BY <1>4, <1>6, <1>7, <1>8, <1>10, <1>11, <1>12 DEF StepOf, BeginsLocal,
     BeginsResumed, BeginsOTel, Registers, EndsOTel
<1> QED
  BY <1>5, <1>13 DEF OwnStack

LEMMA OwnOnTopStep ==
  ASSUME Shape, Shape', Registered, OwnOnTop, NEW g \in Goroutines, StepOf(g)
  PROVE  OwnOnTop'
<1> SUFFICES ASSUME ~overlapped'
             PROVE  /\ \A h, x \in Goroutines : Busy(h)' /\ Busy(x)' => h = x
                    /\ NoneTaken'
                    /\ \A h \in Goroutines : Alone(h)' => OwnStack(h)'
  BY DEF OwnOnTop
<1>1. ~overlapped /\ Alone(g) /\ NoneTaken
  BY ActsAlone DEF OwnOnTop
<1>0. NoneTaken'
  <2>1. taken' = taken
    BY <1>1, AloneEndings DEF StepOf, BeginsLocal, BeginsResumed, BeginsOTel, Begins,
       Registers, EndsOTel, EndsUnknown, EndsLocal, PopsOTel
  <2> QED
    BY <1>1, <2>1 DEF NoneTaken
<1>2. OwnStack(g)'
  BY <1>1, OwnStackStep DEF OwnOnTop
<1>3. \A h \in Goroutines : h # g => ~Busy(h) /\ ~Busy(h)'
  BY <1>1, OthersSame DEF Alone, Busy
<1>4. HeldSound'
  <2>1. TypeOK'
    BY DEF Shape
  <2> QED
    BY <2>1, HeldIsSound, PTL
<1>5. \A h \in Goroutines : ~Busy(h)' => HeldBy(h)' = 0 /\ open'[h] = <<>>
  BY <1>4 DEF HeldSound, Busy
<1>6. ASSUME NEW h \in Goroutines, Alone(h)', h # g
      PROVE  OwnStack(h)'
  <2>1. ~Busy(g)' /\ ~Busy(h)'
    BY <1>3, <1>6 DEF Alone
  <2>2. Len(traceStack') = left' + HeldBy(h)'
    BY <1>2, <1>5, <2>1 DEF OwnStack
  <2> QED
    BY <1>5, <2>1, <2>2 DEF OwnStack
<1> QED
  BY <1>0, <1>2, <1>3, <1>6

-----------------------------------------------------------------------------
(* The invariant of Tracing.                                                *)
LEMMA TracingInvInit ==
  ASSUME Init
  PROVE  TracingInv
<1>1. Shape
  <2>1. TypeOK
    <3>1. traceStack = <<>> /\ ended = {} /\ created = 0 /\ resumed = 0 /\ left = 0
          /\ bridge \in BOOLEAN /\ overlapped = FALSE
      BY DEF Init
    <3>2. open \in [Goroutines -> Seq(Span)]
      BY DEF Init
    <3>3. pc \in [Goroutines -> {"run", "register", "pop"}]
      BY DEF Init
    <3>4. spans \in [Keys -> Seq(1..MaxSpans)]
      BY DEF Init
    <3>5. created \in 0..MaxSpans /\ resumed \in 0..MaxResumed /\ left \in 0..resumed
      BY <3>1, TracingAssumption
    <3>6. traceStack \in Seq(Ids \ {0})
      BY <3>1, EmptySeq
    <3>7. ended \subseteq 1..created /\ overlapped \in BOOLEAN
      BY <3>1
    <3>8. taken \in [Keys -> Nat]
      BY DEF Init
    <3> QED
      BY <3>1, <3>2, <3>3, <3>4, <3>5, <3>6, <3>7, <3>8 DEF TypeOK
  <2> QED
    BY <2>1 DEF Init, Shape, BridgeOff, SpansSound, PcSound
<1>2. TypeOK /\ PcSound
  BY <1>1 DEF Shape
<1>3. Registered
  <2>1. ASSUME NEW k \in Keys
        PROVE  FiledUnder(k) = {} /\ Len(spans[k]) = 0 /\ taken[k] = 0
    <3>1. FiledUnder(k) = FiledPlaces(k)
      BY <1>2, FiledUnderIsPlaces DEF AllFiledPlaces
    <3>2. FiledPlaces(k) = {}
      BY DEF Init, FiledPlaces, OnFile
    <3> QED
      BY <3>1, <3>2 DEF Init
  <2> QED
    <3>1. IsFiniteSet({}) /\ Cardinality({}) = 0
      BY FS_EmptySet
    <3>2. ASSUME NEW k \in Keys
          PROVE  /\ IsFiniteSet(FiledUnder(k))
                 /\ Len(spans[k]) + taken[k] = Cardinality(FiledUnder(k))
      <4>1. FiledUnder(k) = {} /\ Len(spans[k]) + taken[k] = 0
        BY <2>1
      <4> QED
        BY <3>1, <4>1
    <3> QED
      BY <3>2 DEF Registered
<1>4. Files
  BY <1>3 DEF Init, Files, FilesRunning, FilesUnique, RegisteringNew, Accounted
<1>5. LeftBound
  <2>1. Resuming = {} /\ Debts = {}
    BY DEF Init, Resuming, Debts, Pos
  <2> QED
    BY <2>1, FS_EmptySet DEF Init, LeftBound
<1>6. HeldSound
  BY <1>2, HeldIsSound
<1>7. \A g \in Goroutines : HeldBy(g) = 0
  BY <1>6 DEF Init, HeldSound
<1>8. Depth
  <2>1. HeldPlaces = {}
    BY <1>7 DEF HeldPlaces, Pos
  <2>2. Held = {}
    BY <1>2, <2>1, HeldIsPlaces
  <2> QED
    BY <2>2, FS_EmptySet DEF Init, Depth, DepthMatchesOpen
<1>9. OwnOnTop
  BY <1>7 DEF Init, OwnOnTop, OwnStack, Busy, NoneTaken
<1> QED
  BY <1>1, <1>4, <1>5, <1>8, <1>9 DEF TracingInv

LEMMA TracingInvStep ==
  ASSUME TracingInv, [Next]_vars
  PROVE  TracingInv'
<1>1. CASE Next
  <2>1. /\ Shape /\ FilesRunning /\ FilesUnique /\ RegisteringNew /\ Accounted
        /\ Registered /\ LeftBound /\ Depth /\ OwnOnTop
    BY DEF TracingInv, Files
  <2>2. RegistryMatchesOpen
    BY <2>1, RegistryHolds
  <2>3. PICK g \in Goroutines : StepOf(g)
    BY <1>1, <2>1, StepsAre DEF Shape
  <2>4. Shape'
    BY <2>1, <2>2, <2>3, ShapeStep
  <2>5. FilesRunning' /\ FilesUnique' /\ RegisteringNew' /\ Accounted' /\ Registered'
    BY <2>1, <2>3, <2>4, FilesRunningStep, FilesUniqueStep, RegisteringNewStep,
       AccountedStep, RegisteredStep
  <2>6. LeftBound' /\ Depth' /\ OwnOnTop'
    BY <2>1, <2>2, <2>3, <2>4, LeftBoundStep, DepthStep, OwnOnTopStep
  <2> QED
    BY <2>4, <2>5, <2>6 DEF TracingInv, Files
<1>2. CASE UNCHANGED vars
  <2>1. Shape'
    BY <1>2 DEF vars, TracingInv, Shape, TypeOK, BridgeOff, SpansSound, SpanSound, PcSound
  <2>2. FilesRunning' /\ FilesUnique'
    BY <1>2 DEF vars, TracingInv, Files, FilesRunning, FilesUnique
  <2>3. RegisteringNew' /\ Accounted'
    BY <1>2 DEF vars, TracingInv, Files, RegisteringNew, Unfiled, Accounted
  <2>4. Registered'
    <3>1. \A k \in Keys : FiledUnder(k)' = FiledUnder(k)
      BY <1>2 DEF vars, FiledUnder, Filed
    <3> QED
      BY <1>2, <3>1 DEF vars, TracingInv, Files, Registered
  <2>5. LeftBound'
    BY <1>2 DEF vars, TracingInv, LeftBound, Resuming, Debts
  <2>6. Depth'
    <3>1. Held' = Held
      BY <1>2 DEF vars, Held, HeldBy
    <3> QED
      BY <1>2, <3>1 DEF vars, TracingInv, Depth, DepthMatchesOpen
  <2>7. OwnOnTop'
    BY <1>2 DEF vars, TracingInv, OwnOnTop, OwnStack, HeldBy, Busy, Alone, NoneTaken
  <2> QED
    BY <2>1, <2>2, <2>3, <2>4, <2>5, <2>6, <2>7 DEF TracingInv, Files
<1> QED
  BY <1>1, <1>2

LEMMA TracingInvariant == Spec => []TracingInv
  BY TracingInvInit, TracingInvStep, PTL DEF Spec

-----------------------------------------------------------------------------
(* Ids as texts, and as texts that travelled in headers.                    *)

(* What is left of an id that travelled as a traceparent or b3.             *)
UpToDash(id) == IF id \in Dashed THEN id - 1 ELSE id

LEMMA TextIs ==
  ASSUME NEW id \in Ids
  PROVE  /\ id \in Nat
         /\ id = 0 => Text(id) = <<>>
         /\ id # 0 /\ id \in Dashed => Text(id) = <<id - 1, 0>>
         /\ id # 0 /\ id \notin Dashed => Text(id) = <<id>>
         /\ id # 0 => /\ Text(id)[1] = UpToDash(id)
                      /\ Text(id) \in Seq(Int) /\ Len(Text(id)) \in {1, 2}
<1>1. id \in Nat
  BY TracingAssumption DEF Ids
<1>2. CASE id = 0
  BY <1>1, <1>2 DEF Text, Absent
<1>3. CASE id # 0 /\ id \in Dashed
  BY <1>1, <1>3 DEF Text, UpToDash
<1>4. CASE id # 0 /\ id \notin Dashed
  BY <1>1, <1>4 DEF Text, UpToDash
<1> QED
  BY <1>2, <1>3, <1>4, <1>1

LEMMA IdOfText ==
  ASSUME NEW id \in Ids
  PROVE  IdOf(Text(id)) = id
<1>1. ASSUME NEW i \in Ids, NEW j \in Ids, Text(i) = Text(j)
      PROVE  i = j
  <2>1. i \in Nat /\ j \in Nat
    BY TextIs
  <2>2. CASE i = 0 \/ j = 0
    BY <1>1, <2>1, <2>2, TextIs
  <2>3. CASE i # 0 /\ j # 0
    <3>1. /\ i \in Dashed => Text(i) = <<i - 1, 0>>
          /\ i \notin Dashed => Text(i) = <<i>>
          /\ j \in Dashed => Text(j) = <<j - 1, 0>>
          /\ j \notin Dashed => Text(j) = <<j>>
      BY <2>3, TextIs
    <3> QED
      BY <1>1, <2>1, <3>1
  <2> QED
    BY <2>2, <2>3
<1>2. Text(IdOf(Text(id))) = Text(id) /\ IdOf(Text(id)) \in Ids
  BY DEF IdOf
<1> QED
  BY <1>1, <1>2

LEMMA FirstOf ==
  ASSUME NEW s \in Seq(Int), Len(s) \in {1, 2}
  PROVE  SubSeq(s, 1, 1) = <<s[1]>>
<1> DEFINE one == SubSeq(s, 1, 1)
<1>1. \A i \in 1..1 : s[i] \in Int
  OBVIOUS
<1>2. /\ one \in Seq(Int)
      /\ Len(one) = IF 1 <= 1 THEN 1 - 1 + 1 ELSE 0
      /\ \A i \in 1..(1 - 1 + 1) : one[i] = s[1 + i - 1]
  BY <1>1, SubSeqProperties
<1>3. one[1] = s[1] /\ Len(one) = 1
  BY <1>2
<1> HIDE DEF one
<1>4. one = <<s[1]>>
  BY <1>2, <1>3
<1> QED
  BY <1>4 DEF one

(* Propagation: whichever header the next service reads, it gets the text   *)
(* of the id that was injected, up to its first dash, and nothing when none *)
(* was.                                                                     *)
THEOREM ExtractsInjected ==
  ASSUME NEW id \in Ids, NEW wide
  PROVE  ExtractTraceID(InjectTraceID(NoHeaders, Text(id)), wide) =
           IF id = 0 THEN <<>> ELSE <<UpToDash(id)>>
<1>1. CASE id = 0
  <2>1. InjectTraceID(NoHeaders, Text(id)) = NoHeaders
    BY <1>1 DEF InjectTraceID, Text
  <2>2. Len(<<>>) = 0
    OBVIOUS
  <2> QED
    BY <1>1, <2>1, <2>2 DEF ExtractTraceID, NoHeaders, Absent
<1>2. CASE id # 0
  <2> DEFINE t == Text(id)
             h == InjectTraceID(NoHeaders, t)
  <2>1. t \in Seq(Int) /\ Len(t) \in {1, 2} /\ t[1] = UpToDash(id)
    BY <1>2, TextIs
  <2>2. t # Absent
    BY <2>1 DEF Absent
  <2> HIDE DEF t
  <2>3. h.traceparent = <<0>> \o t \o <<0, 0>> /\ h.b3 = t \o <<0, 0>>
    BY <2>2 DEF InjectTraceID, NoHeaders
  <2>4. /\ Len(h.traceparent) >= 3 /\ h.traceparent[2] = t[1]
    BY <2>1, <2>3
  <2>5. h.b3 # <<>> /\ Head(h.b3) = t[1]
    BY <2>1, <2>3
  <2> HIDE DEF h
  <2>6. ExtractTraceID(h, wide) = <<t[1]>>
    BY <2>4, <2>5 DEF ExtractTraceID, Absent
  <2> QED
    BY <1>2, <2>1, <2>6 DEF h, t
<1> QED
  BY <1>1, <1>2

(* A request resumes the trace of a caller, or none.                        *)
LEMMA ArrivingIds ==
  ASSUME TypeOK, NEW headers \in Arrivals
  PROVE  IdOf(ExtractTraceID(headers, Wide)) \in (Incoming \union 1..created) \union {0}
<1> DEFINE Known == Incoming \union 1..created
<1>1. Known \union {0} \subseteq Ids /\ 0 \in Ids
  BY TracingAssumption DEF Ids, TypeOK
<1>0. 0 \notin Known
  BY TracingAssumption
<1>2. IdOf(<<>>) = 0
  BY <1>1, IdOfText, TextIs
<1>3. ASSUME NEW id \in Known
      PROVE  IdOf(<<UpToDash(id)>>) \in Known
  <2>1. UpToDash(id) \in Known \ Dashed
    BY PipelineAssumption, TracingAssumption DEF UpToDash
  <2>2. UpToDash(id) \in Ids /\ UpToDash(id) # 0
    BY <1>0, <1>1, <2>1
  <2>3. Text(UpToDash(id)) = <<UpToDash(id)>>
    BY <2>1, <2>2, TextIs
  <2> QED
    BY <2>1, <2>2, <2>3, IdOfText
<1>4. \/ \E id \in Known \union {0} : headers = InjectTraceID(NoHeaders, Text(id))
      \/ \E id \in Known : headers = [NoHeaders EXCEPT !.xB3TraceId = Text(id)]
      \/ \E id \in Known : headers = [NoHeaders EXCEPT !.xTraceID = Text(id)]
  BY DEF Arrivals
<1> HIDE DEF Known
<1>5. CASE \E id \in Known \union {0} : headers = InjectTraceID(NoHeaders, Text(id))
  <2>1. PICK id \in Known \union {0} : headers = InjectTraceID(NoHeaders, Text(id))
    BY <1>5
  <2>2. id \in Ids
    BY <1>1
  <2>3. ExtractTraceID(headers, Wide) = IF id = 0 THEN <<>> ELSE <<UpToDash(id)>>
    BY <2>1, <2>2, ExtractsInjected
  <2> QED
    BY <1>2, <1>3, <2>3 DEF Known
<1>6. CASE \E id \in Known : headers = [NoHeaders EXCEPT !.xB3TraceId = Text(id)]
  <2>1. PICK id \in Known : headers = [NoHeaders EXCEPT !.xB3TraceId = Text(id)]
    BY <1>6
  <2>2. id \in Ids
    BY <1>1
  <2>3. /\ headers.traceparent = <<>> /\ headers.b3 = <<>> /\ headers.xTraceID = <<>>
        /\ headers.xB3TraceId = Text(id)
    BY <2>1 DEF NoHeaders, Absent
  <2>4. ExtractTraceID(headers, Wide) \in {Text(id), <<>>}
    <3>1. ~(Len(headers.traceparent) >= 3)
      BY <2>3
    <3> QED
      BY <2>3, <3>1 DEF ExtractTraceID, Absent
  <2>5. IdOf(Text(id)) = id
    BY <2>2, IdOfText
  <2> QED
    BY <1>2, <2>4, <2>5 DEF Known
<1>7. CASE \E id \in Known : headers = [NoHeaders EXCEPT !.xTraceID = Text(id)]
  <2>1. PICK id \in Known : headers = [NoHeaders EXCEPT !.xTraceID = Text(id)]
    BY <1>7
  <2>2. id \in Ids
    BY <1>1
  <2>3. /\ headers.traceparent = <<>> /\ headers.b3 = <<>> /\ headers.xB3TraceId = <<>>
        /\ headers.xTraceID = Text(id)
    BY <2>1 DEF NoHeaders, Absent
  <2>4. ExtractTraceID(headers, Wide) = Text(id)
    <3>1. ~(Len(headers.traceparent) >= 3)
      BY <2>3
    <3> QED
      BY <2>3, <3>1 DEF ExtractTraceID, Absent
  <2>5. IdOf(Text(id)) = id
    BY <2>2, IdOfText
  <2> QED
    BY <2>4, <2>5 DEF Known
<1> QED
  BY <1>4, <1>5, <1>6, <1>7

(* Whatever the middlewares do to the spans, Tracing allows.                *)
LEMMA PipelineStepIsTracing ==
  ASSUME TypeOK, [PipelineNext]_pipelineVars
  PROVE  [Next]_vars
<1>1. ASSUME NEW g \in Goroutines, NEW path \in Names, NEW headers \in Arrivals,
             Arrive(g, path, headers)
      PROVE  Next
  BY <1>1, ArrivingIds DEF Arrive, Next
<1>2. ASSUME NEW g \in Goroutines,
             \/ HandlerSpan(g) \/ JobSpan(g) \/ BridgeSpan(g) \/ Unwind(g)
             \/ EndRequest(g) \/ UnwindRequest(g)
      PROVE  Next
  BY <1>2 DEF HandlerSpan, JobSpan, BridgeSpan, Unwind, EndRequest, UnwindRequest, Next
<1>3. ASSUME NEW g \in Goroutines,
             \/ Respond(g) \/ Return(g) \/ Panic(g) \/ RecoverInside(g)
             \/ RecoverOutside(g) \/ Abort(g)
      PROVE  UNCHANGED vars
  BY <1>3 DEF Respond, Return, Panic, RecoverInside, RecoverOutside, Abort
<1>4. CASE UNCHANGED pipelineVars
  BY <1>4 DEF pipelineVars
<1> QED
  BY <1>1, <1>2, <1>3, <1>4 DEF PipelineNext

-----------------------------------------------------------------------------
(* What requests add to the invariant.                                      *)
Responses ==
  [status : {200, 500}, client : {0, 200, 500}, again : BOOLEAN,
   body : 0..MaxPayload, sent : 0..(MaxSent + 1)]

RequestTypes ==
  /\ recovery \in {"inside", "outside", "no"}
  /\ stage \in [Goroutines -> {"free", "serve", "return", "panic", "unwound"}]
  /\ ctxID \in [Goroutines -> Ids]
  /\ resp \in [Goroutines -> Responses]
  /\ lastPanic \in [id : {"own", "other", "none", "no entry"}, calm : BOOLEAN]

Truthful(r) ==
  /\ r.status # (IF r.client = 0 THEN 200 ELSE r.client) => r.again
  /\ r.body = IF r.sent < MaxPayload THEN r.sent ELSE MaxPayload

(* Whatever becomes of a request, its wrapper is truthful, and one that     *)
(* waits for a request is fresh.                                            *)
WrappersTruthful ==
  \A g \in Goroutines :
    /\ Truthful(resp[g])
    /\ stage[g] # "return" => resp[g].sent <= MaxSent
    /\ stage[g] = "free" => resp[g] = Fresh

(* A request has an id in its context until it is forgotten.                *)
IdInContext == \A g \in Goroutines : stage[g] # "free" => ctxID[g] # 0

(* Once a panic has left HTTPMiddleware, the request has no span.           *)
UnwoundEnded == \A g \in Goroutines : stage[g] = "unwound" => open[g] = <<>>

RequestInv ==
  RequestTypes /\ WrappersTruthful /\ IdInContext /\ UnwoundEnded /\ PanicEntryTrace

PipelineInv == TracingInv /\ RequestInv

LEMMA ResponseIs ==
  ASSUME NEW w, DOMAIN w = {"status", "client", "again", "body", "sent"},
         w = [x \in DOMAIN w |-> w[x]],
         w.status \in {200, 500}, w.client \in {0, 200, 500}, w.again \in BOOLEAN,
         w.body \in 0..MaxPayload, w.sent \in 0..(MaxSent + 1)
  PROVE  w \in Responses
  BY DEF Responses

LEMMA HeaderIsFunction ==
  ASSUME NEW r, NEW code
  PROVE  HeaderWritten(r, code) =
           [x \in DOMAIN HeaderWritten(r, code) |-> HeaderWritten(r, code)[x]]
  BY DEF HeaderWritten

LEMMA HeaderTruthful ==
  ASSUME NEW r \in Responses, NEW code \in {200, 500}, Truthful(r)
  PROVE  /\ HeaderWritten(r, code) \in Responses
         /\ Truthful(HeaderWritten(r, code))
         /\ HeaderWritten(r, code).sent = r.sent
<1> DEFINE w == HeaderWritten(r, code)
<1>1. /\ r.body \in 0..MaxPayload /\ r.sent \in 0..(MaxSent + 1)
      /\ r.client \in {0, 200, 500} /\ r.status \in {200, 500} /\ r.again \in BOOLEAN
  BY DEF Responses
<1>2. w.status = code /\ w.body = r.body /\ w.sent = r.sent
  BY DEF HeaderWritten, Responses
<1>3. w.client = IF r.client = 0 THEN code ELSE r.client
  BY DEF HeaderWritten, Responses
<1>4. w.again = (r.again \/ r.client # 0)
  BY DEF HeaderWritten, Responses
<1>5. DOMAIN w = {"status", "client", "again", "body", "sent"}
  BY DEF HeaderWritten, Responses
<1>6. w = [x \in DOMAIN w |-> w[x]]
  BY HeaderIsFunction
<1> HIDE DEF w
<1>7. w.client \in {0, 200, 500} /\ w.again \in BOOLEAN
  BY <1>1, <1>3, <1>4
<1>8. w \in Responses
  BY <1>1, <1>2, <1>5, <1>6, <1>7, ResponseIs
<1>9. Truthful(w)
  <2>1. w.status # (IF w.client = 0 THEN 200 ELSE w.client) => w.again
    <3>1. CASE r.client = 0
      BY <1>2, <1>3, <3>1
    <3>2. CASE r.client # 0
      BY <1>4, <3>2
    <3> QED
      BY <3>1, <3>2
  <2>2. w.body = IF w.sent < MaxPayload THEN w.sent ELSE MaxPayload
    BY <1>2 DEF Truthful
  <2> QED
    BY <2>1, <2>2 DEF Truthful
<1> QED
  BY <1>2, <1>8, <1>9 DEF w

LEMMA BodyTruthful ==
  ASSUME NEW r \in Responses, NEW n \in Nat, r.sent + n <= MaxSent + 1, n > 0,
         Truthful(r)
  PROVE  /\ BodyWritten(r, n) \in Responses
         /\ Truthful(BodyWritten(r, n))
         /\ BodyWritten(r, n).sent = r.sent + n
<1> DEFINE w == BodyWritten(r, n)
<1>1. /\ r.body \in 0..MaxPayload /\ r.sent \in 0..(MaxSent + 1)
      /\ r.client \in {0, 200, 500} /\ r.status \in {200, 500} /\ r.again \in BOOLEAN
      /\ MaxPayload \in Nat \ {0} /\ MaxSent \in Nat
  BY PipelineAssumption DEF Responses
<1>2. w.status = r.status /\ w.again = r.again /\ w.sent = r.sent + n
  BY DEF BodyWritten, Responses
<1>3. w.client = IF r.client = 0 THEN 200 ELSE r.client
  BY DEF BodyWritten, Responses
<1>4. w.body = IF r.body < MaxPayload
               THEN r.body + (IF n < MaxPayload - r.body THEN n
                              ELSE MaxPayload - r.body)
               ELSE r.body
  BY DEF BodyWritten, Responses
<1>5. DOMAIN w = {"status", "client", "again", "body", "sent"}
  BY DEF BodyWritten, Responses
<1>6. w = [x \in DOMAIN w |-> w[x]]
  BY DEF BodyWritten
<1> HIDE DEF w
<1>7. w.client \in {0, 200, 500} /\ w.client # 0
  BY <1>1, <1>3
<1>8. r.body = IF r.sent < MaxPayload THEN r.sent ELSE MaxPayload
  BY DEF Truthful
<1>9. w.body = IF w.sent < MaxPayload THEN w.sent ELSE MaxPayload
  BY <1>1, <1>2, <1>4, <1>8
<1>10. w.body \in 0..MaxPayload /\ w.sent \in 0..(MaxSent + 1)
  BY <1>1, <1>2, <1>9
<1>11. w \in Responses
  BY <1>1, <1>2, <1>5, <1>6, <1>7, <1>10, ResponseIs
<1>12. w.status # (IF w.client = 0 THEN 200 ELSE w.client) => w.again
  <2>1. r.status # (IF r.client = 0 THEN 200 ELSE r.client) => r.again
    BY DEF Truthful
  <2> QED
    BY <1>2, <1>3, <2>1
<1>13. Truthful(w)
  BY <1>9, <1>12 DEF Truthful
<1> QED
  BY <1>2, <1>11, <1>13 DEF w

(* A step of PipelineNext is one goroutine's.                               *)
RequestStep(g) ==
  \/ \E path \in Names, headers \in Arrivals : Arrive(g, path, headers)
  \/ Respond(g) \/ HandlerSpan(g) \/ JobSpan(g) \/ BridgeSpan(g)
  \/ Return(g) \/ EndRequest(g)
  \/ Panic(g) \/ Unwind(g) \/ RecoverInside(g)
  \/ UnwindRequest(g) \/ RecoverOutside(g) \/ Abort(g)

LEMMA OneRequest ==
  ASSUME TypeOK, RequestTypes, NEW g \in Goroutines, RequestStep(g),
         NEW h \in Goroutines, h # g
  PROVE  /\ open'[h] = open[h] /\ stage'[h] = stage[h]
         /\ ctxID'[h] = ctxID[h] /\ resp'[h] = resp[h]
<1>1. /\ open \in [Goroutines -> Seq(Span)]
      /\ stage \in [Goroutines -> {"free", "serve", "return", "panic", "unwound"}]
      /\ ctxID \in [Goroutines -> Ids] /\ resp \in [Goroutines -> Responses]
  BY DEF TypeOK, RequestTypes
<1>2. open'[h] = open[h]
  BY <1>1 DEF RequestStep, Arrive, Respond, HandlerSpan, JobSpan, BridgeSpan, Return,
     EndRequest, Panic, Unwind, RecoverInside, UnwindRequest, RecoverOutside, Abort,
     StartSpan, EndSpan, LocalStart, OTelStart, LocalEnd, OTelEnd, OTelEndUnknown,
     OTelRegister, OTelPop, Resume, Opens, vars
<1>3. stage'[h] = stage[h]
  BY <1>1 DEF RequestStep, Arrive, Respond, HandlerSpan, JobSpan, BridgeSpan, Return,
     EndRequest, Panic, Unwind, RecoverInside, UnwindRequest, RecoverOutside, Abort,
     StageMoves, request
<1>4. ctxID'[h] = ctxID[h] /\ resp'[h] = resp[h]
  BY <1>1 DEF RequestStep, Arrive, Respond, HandlerSpan, JobSpan, BridgeSpan, Return,
     EndRequest, Panic, Unwind, RecoverInside, UnwindRequest, RecoverOutside, Abort,
     StageMoves, Forget, request
<1> QED
  BY <1>2, <1>3, <1>4

LEMMA UnwoundEndedStep ==
  ASSUME TypeOK, TypeOK', RequestTypes, UnwoundEnded, NEW g \in Goroutines, RequestStep(g)
  PROVE  UnwoundEnded'
<1> SUFFICES ASSUME NEW h \in Goroutines, stage'[h] = "unwound"
             PROVE  open'[h] = <<>>
  BY DEF UnwoundEnded
<1>1. CASE h # g
  BY <1>1, OneRequest DEF UnwoundEnded
<1>2. CASE h = g
  <2>1. stage \in [Goroutines -> {"free", "serve", "return", "panic", "unwound"}]
    BY DEF RequestTypes
  <2>2. CASE UnwindRequest(g)
    <3>1. Len(open[g]) = 1 /\ EndSpan(g)
      BY <2>2 DEF UnwindRequest
    <3>2. open[g] # <<>> /\ open' = [open EXCEPT ![g] = Front(@)]
      BY <3>1 DEF EndSpan, LocalEnd, OTelEnd, OTelEndUnknown
    <3>0. Shrunk(g)
      BY <3>2, OpenShrinks
    <3>3. Len(open'[g]) = 0
      BY <3>0, <3>1 DEF Shrunk
    <3>4. open'[g] \in Seq(Span)
      BY DEF TypeOK
    <3> QED
      BY <1>2, <3>3, <3>4
  <2>3. CASE BridgeSpan(g)
    BY <1>2, <2>3 DEF BridgeSpan, OTelRegister, OTelPop, request, UnwoundEnded
  <2>4. CASE Respond(g)
    BY <1>2, <2>4 DEF Respond, vars, UnwoundEnded
  <2> QED
    BY <1>2, <2>1, <2>2, <2>3, <2>4 DEF RequestStep, Arrive, HandlerSpan, JobSpan, Return,
       EndRequest, Panic, Unwind, RecoverInside, RecoverOutside, Abort, StageMoves, request
<1> QED
  BY <1>1, <1>2

LEMMA WrappersTruthfulStep ==
  ASSUME TypeOK, RequestTypes, WrappersTruthful, NEW g \in Goroutines, RequestStep(g)
  PROVE  /\ WrappersTruthful'
         /\ resp' \in [Goroutines -> Responses]
<1>1. /\ stage \in [Goroutines -> {"free", "serve", "return", "panic", "unwound"}]
      /\ resp \in [Goroutines -> Responses]
  BY DEF RequestTypes
<1>2. /\ Truthful(resp[g]) /\ resp[g] \in Responses
      /\ stage[g] # "return" => resp[g].sent <= MaxSent
      /\ stage[g] = "free" => resp[g] = Fresh
  BY <1>1 DEF WrappersTruthful
<1>3. /\ resp[g].sent \in Nat /\ MaxSent \in Nat /\ MaxPayload \in Nat \ {0}
  BY <1>2, PipelineAssumption DEF Responses
<1> DEFINE Good == /\ resp'[g] \in Responses /\ Truthful(resp'[g])
                   /\ stage'[g] # "return" => resp'[g].sent <= MaxSent
                   /\ stage'[g] = "free" => resp'[g] = Fresh
           Placed == resp' = resp \/ \E r : resp' = [resp EXCEPT ![g] = r]
<1>4. Fresh \in Responses /\ Truthful(Fresh) /\ Fresh.sent <= MaxSent
  BY <1>3 DEF Fresh, Responses, Truthful
<1>5. ASSUME Respond(g)
      PROVE  Good /\ Placed
  <2>1. stage' = stage /\ stage[g] = "serve"
    BY <1>5 DEF Respond
  <2>2. CASE \E code \in {200, 500} : resp' = [resp EXCEPT ![g] = HeaderWritten(@, code)]
    <3>1. PICK code \in {200, 500} : resp' = [resp EXCEPT ![g] = HeaderWritten(@, code)]
      BY <2>2
    <3>2. resp'[g] = HeaderWritten(resp[g], code)
      BY <1>1, <3>1
    <3>3. Good
      BY <1>2, <2>1, <3>2, HeaderTruthful
    <3> QED
      BY <3>1, <3>3
  <2>3. CASE \E n \in 1..(MaxSent - resp[g].sent) :
               resp' = [resp EXCEPT ![g] = BodyWritten(@, n)]
    <3>1. PICK n \in 1..(MaxSent - resp[g].sent) :
                 resp' = [resp EXCEPT ![g] = BodyWritten(@, n)]
      BY <2>3
    <3>2. resp'[g] = BodyWritten(resp[g], n)
      BY <1>1, <3>1
    <3>3. n \in Nat /\ n > 0 /\ resp[g].sent + n <= MaxSent /\ resp[g].sent + n <= MaxSent + 1
      BY <1>3
    <3>4. Good
      BY <1>2, <2>1, <3>2, <3>3, BodyTruthful
    <3> QED
      BY <3>1, <3>4
  <2> QED
    BY <1>5, <2>2, <2>3 DEF Respond
<1>6. ASSUME RecoverInside(g)
      PROVE  Good /\ Placed
  <2>1. /\ stage[g] = "panic" /\ stage'[g] = "return"
        /\ resp' = [resp EXCEPT ![g] = BodyWritten(HeaderWritten(@, 500), 1)]
    BY <1>1, <1>6 DEF RecoverInside, StageMoves
  <2> DEFINE r == HeaderWritten(resp[g], 500)
  <2>2. r \in Responses /\ Truthful(r) /\ r.sent = resp[g].sent
    BY <1>2, HeaderTruthful
  <2>3. resp'[g] = BodyWritten(r, 1)
    BY <1>1, <2>1
  <2> HIDE DEF r
  <2>4. r.sent + 1 <= MaxSent + 1
    BY <1>2, <1>3, <2>1, <2>2
  <2>5. Good
    BY <2>1, <2>2, <2>3, <2>4, BodyTruthful
  <2> QED
    BY <2>1, <2>5
<1>7. ASSUME EndRequest(g) \/ RecoverOutside(g) \/ Abort(g)
      PROVE  Good /\ Placed
  <2>1. resp' = [resp EXCEPT ![g] = Fresh] /\ stage'[g] = "free"
    BY <1>1, <1>7 DEF EndRequest, RecoverOutside, Abort, StageMoves, Forget
  <2>2. resp'[g] = Fresh
    BY <1>1, <2>1
  <2> QED
    BY <1>4, <2>1, <2>2
<1>8. ASSUME \/ \E path \in Names, headers \in Arrivals : Arrive(g, path, headers)
             \/ Return(g) \/ Panic(g) \/ UnwindRequest(g)
      PROVE  Good /\ Placed
  <2>1. /\ resp' = resp /\ stage[g] # "return"
        /\ stage'[g] # "free"
    BY <1>1, <1>8 DEF Arrive, Return, Panic, UnwindRequest, StageMoves
  <2> QED
    BY <1>1, <1>2, <2>1
<1>9. ASSUME HandlerSpan(g) \/ JobSpan(g) \/ BridgeSpan(g) \/ Unwind(g)
      PROVE  Good /\ Placed
  <2>1. resp' = resp /\ stage' = stage
    BY <1>9 DEF HandlerSpan, JobSpan, BridgeSpan, Unwind, request
  <2> QED
    BY <1>1, <1>2, <2>1
<1>10. Good /\ Placed
  BY <1>5, <1>6, <1>7, <1>8, <1>9 DEF RequestStep
<1>11. resp' \in [Goroutines -> Responses]
  BY <1>1, <1>10
<1>12. \A h \in Goroutines : h # g => resp'[h] = resp[h] /\ stage'[h] = stage[h]
  BY OneRequest
<1> HIDE DEF Good, Placed
<1>13. ASSUME NEW h \in Goroutines
       PROVE  /\ Truthful(resp'[h])
              /\ stage'[h] # "return" => resp'[h].sent <= MaxSent
              /\ stage'[h] = "free" => resp'[h] = Fresh
  BY <1>10, <1>12 DEF WrappersTruthful, Good
<1> QED
  BY <1>11, <1>13 DEF WrappersTruthful

LEMMA ArriveBegins ==
  ASSUME TypeOK, TypeOK', SpansSound', NEW g \in Goroutines, NEW path \in Names,
         NEW headers \in Arrivals, Arrive(g, path, headers)
  PROVE  Top(open'[g]).id \in Ids \ {0}
<1>1. \E s : open' = [open EXCEPT ![g] = Append(@, s)]
  BY DEF Arrive, Resume, StartSpan, LocalStart, OTelStart, Opens
<1>2. /\ open \in [Goroutines -> Seq(Span)] /\ open' \in [Goroutines -> Seq(Span)]
  BY DEF TypeOK
<1>3. open'[g] \in Seq(Span) /\ open'[g] # <<>>
  <2>1. PICK s : open'[g] = Append(open[g], s)
    BY <1>1, <1>2
  <2>2. Len(Append(open[g], s)) = Len(open[g]) + 1 /\ Len(open[g]) \in Nat
    BY <1>2
  <2>3. Len(open'[g]) # 0
    BY <2>1, <2>2
  <2> QED
    BY <1>2, <2>3
<1>4. Len(open'[g]) \in Nat \ {0}
  BY <1>3, EmptySeq
<1>5. Top(open'[g]) = open'[g][Len(open'[g])] /\ Top(open'[g]) \in Span
  BY <1>3, FrontOf DEF Top
<1>6. open'[g][Len(open'[g])].id # 0
  BY <1>4 DEF SpansSound, SpanSound
<1> QED
  BY <1>5, <1>6 DEF Span

LEMMA IdInContextStep ==
  ASSUME TypeOK, TypeOK', SpansSound', RequestTypes, IdInContext,
         NEW g \in Goroutines, RequestStep(g)
  PROVE  IdInContext' /\ ctxID' \in [Goroutines -> Ids]
<1>1. /\ stage \in [Goroutines -> {"free", "serve", "return", "panic", "unwound"}]
      /\ ctxID \in [Goroutines -> Ids]
  BY DEF RequestTypes
<1>2. 0 \in Ids
  BY TracingAssumption DEF Ids
<1>3. ASSUME NEW path \in Names, NEW headers \in Arrivals, Arrive(g, path, headers)
      PROVE  (stage'[g] # "free" => ctxID'[g] # 0) /\ ctxID' \in [Goroutines -> Ids]
  <2>1. Top(open'[g]).id \in Ids \ {0}
    BY <1>3, ArriveBegins
  <2>2. ctxID' = [ctxID EXCEPT ![g] = Top(open'[g]).id]
    BY <1>3 DEF Arrive
  <2> QED
    BY <1>1, <2>1, <2>2
<1>4. ASSUME EndRequest(g) \/ RecoverOutside(g) \/ Abort(g)
      PROVE  (stage'[g] # "free" => ctxID'[g] # 0) /\ ctxID' \in [Goroutines -> Ids]
  BY <1>1, <1>2, <1>4 DEF EndRequest, RecoverOutside, Abort, StageMoves, Forget
<1>5. ASSUME \/ Respond(g) \/ HandlerSpan(g) \/ JobSpan(g) \/ BridgeSpan(g)
             \/ Return(g) \/ Panic(g) \/ Unwind(g) \/ RecoverInside(g) \/ UnwindRequest(g)
      PROVE  (stage'[g] # "free" => ctxID'[g] # 0) /\ ctxID' \in [Goroutines -> Ids]
  <2>1. ctxID' = ctxID /\ (stage'[g] # "free" => stage[g] # "free")
    BY <1>1, <1>5 DEF Respond, HandlerSpan, JobSpan, BridgeSpan, Return, Panic, Unwind,
       RecoverInside, UnwindRequest, StageMoves, request
  <2> QED
    BY <1>1, <2>1 DEF IdInContext
<1>6. (stage'[g] # "free" => ctxID'[g] # 0) /\ ctxID' \in [Goroutines -> Ids]
  BY <1>3, <1>4, <1>5 DEF RequestStep
<1>7. \A h \in Goroutines : h # g => ctxID'[h] = ctxID[h] /\ stage'[h] = stage[h]
  BY OneRequest
<1> QED
  BY <1>6, <1>7 DEF IdInContext

(* The top of the stack, for a goroutine that alone had spans.              *)
LEMMA OwnTop ==
  ASSUME Shape, OwnOnTop, ~overlapped, NEW g \in Goroutines, Alone(g), pc[g] # "pop",
         open[g] # <<>> \/ left = 0
  PROVE  GetActiveTraceID = Innermost(g).id
<1>1. HeldSound
  BY HeldIsSound DEF Shape
<1>2. HeldBy(g) = Len(open[g]) /\ Len(open[g]) \in Nat
  BY <1>1 DEF HeldSound
<1>3. /\ Len(traceStack) = left + Len(open[g])
      /\ \A i \in 1..Len(open[g]) : traceStack[left + i] = open[g][i].id
  BY <1>2 DEF OwnOnTop, OwnStack
<1>4. left \in Nat
  BY DEF Shape, TypeOK
<1>5. CASE open[g] # <<>>
  <2>1. /\ Len(open[g]) \in Nat \ {0}
        /\ Innermost(g) = open[g][Len(open[g])]
    BY <1>5, TopIs DEF Shape
  <2>2. traceStack[Len(traceStack)] = Innermost(g).id /\ Len(traceStack) > 0
    BY <1>3, <1>4, <2>1
  <2> QED
    BY <2>2 DEF GetActiveTraceID, Top
<1>6. CASE open[g] = <<>>
  <2>1. Len(traceStack) = 0
    BY <1>3, <1>6
  <2> QED
    BY <1>6, <2>1 DEF GetActiveTraceID, Innermost, NoSpan
<1> QED
  BY <1>5, <1>6

LEMMA PanicEntryStep ==
  ASSUME Shape, OwnOnTop, RequestTypes, IdInContext, UnwoundEnded, PanicEntryTrace,
         NEW g \in Goroutines, RequestStep(g)
  PROVE  /\ PanicEntryTrace'
         /\ lastPanic' \in [id : {"own", "other", "none", "no entry"}, calm : BOOLEAN]
<1>1. lastPanic \in [id : {"own", "other", "none", "no entry"}, calm : BOOLEAN]
  BY DEF RequestTypes
<1>2. recovery' = recovery
  BY DEF RequestStep, Arrive, Respond, HandlerSpan, JobSpan, BridgeSpan, Return,
     EndRequest, Panic, Unwind, RecoverInside, UnwindRequest, RecoverOutside, Abort, StageMoves
<1>3. ASSUME RecoverInside(g)
      PROVE  /\ PanicEntryTrace'
             /\ lastPanic' \in [id : {"own", "other", "none", "no entry"}, calm : BOOLEAN]
  <2>1. ctxID[g] # 0 /\ recovery = "inside"
    BY <1>3 DEF RecoverInside, StageMoves, IdInContext
  <2>2. ResolveTraceID(ctxID[g]) = ctxID[g]
    BY <2>1 DEF ResolveTraceID
  <2> DEFINE calm == Alone(g) /\ ~overlapped /\ left = 0
  <2>3. lastPanic' = [id |-> "own", calm |-> calm]
    BY <1>3, <2>1, <2>2 DEF RecoverInside, PanicLogged
  <2>4. calm \in BOOLEAN
    OBVIOUS
  <2> HIDE DEF calm
  <2> QED
    BY <1>2, <2>1, <2>3, <2>4 DEF PanicEntryTrace
<1>4. ASSUME RecoverOutside(g)
      PROVE  /\ PanicEntryTrace'
             /\ lastPanic' \in [id : {"own", "other", "none", "no entry"}, calm : BOOLEAN]
  <2> DEFINE calm == Alone(g) /\ ~overlapped /\ left = 0
             id == ResolveTraceID(0)
             who == IF id = 0 THEN "none" ELSE IF id = ctxID[g] THEN "own" ELSE "other"
  <2>1. /\ recovery = "outside" /\ stage[g] = "unwound" /\ pc[g] = "run"
        /\ PanicLogged(g, id)
    BY <1>4 DEF RecoverOutside, StageMoves
  <2>2. lastPanic' = [id |-> who, calm |-> calm]
    BY <2>1 DEF PanicLogged
  <2>3. ASSUME calm
        PROVE  who = "none"
    <3>1. open[g] = <<>>
      BY <2>1 DEF UnwoundEnded
    <3>2. GetActiveTraceID = Innermost(g).id
      BY <2>1, <2>3, OwnTop
    <3>3. Innermost(g).id = 0
      BY <3>1 DEF Innermost, NoSpan
    <3> QED
      BY <3>2, <3>3 DEF ResolveTraceID
  <2>4. who \in {"own", "other", "none"} /\ calm \in BOOLEAN
    OBVIOUS
  <2> HIDE DEF calm, who
  <2> QED
    BY <1>2, <2>1, <2>2, <2>3, <2>4 DEF PanicEntryTrace
<1>5. ASSUME lastPanic' = lastPanic
      PROVE  /\ PanicEntryTrace'
             /\ lastPanic' \in [id : {"own", "other", "none", "no entry"}, calm : BOOLEAN]
  BY <1>1, <1>2, <1>5 DEF PanicEntryTrace
<1> QED
  BY <1>3, <1>4, <1>5 DEF RequestStep, Arrive, Respond, HandlerSpan, JobSpan, BridgeSpan,
     Return, EndRequest, Panic, Unwind, UnwindRequest, Abort

LEMMA StageStep ==
  ASSUME RequestTypes, NEW g \in Goroutines, RequestStep(g)
  PROVE  /\ stage' \in [Goroutines -> {"free", "serve", "return", "panic", "unwound"}]
         /\ recovery' \in {"inside", "outside", "no"}
  BY DEF RequestTypes, RequestStep, Arrive, Respond, HandlerSpan, JobSpan, BridgeSpan,
     Return, EndRequest, Panic, Unwind, RecoverInside, UnwindRequest, RecoverOutside,
     Abort, StageMoves, request

LEMMA PipelineInvInit ==
  ASSUME PipelineInit
  PROVE  PipelineInv
<1>1. TracingInv
  BY TracingInvInit DEF PipelineInit
<1>2. MaxPayload \in Nat \ {0} /\ MaxSent \in Nat /\ 0 \in Ids
  BY PipelineAssumption, TracingAssumption DEF Ids
<1>3. Fresh \in Responses /\ Truthful(Fresh) /\ Fresh.sent <= MaxSent
  BY <1>2 DEF Fresh, Responses, Truthful
<1>4. RequestTypes
  BY <1>2, <1>3 DEF PipelineInit, RequestTypes
<1>5. WrappersTruthful
  BY <1>3 DEF PipelineInit, WrappersTruthful
<1>6. IdInContext /\ UnwoundEnded
  BY DEF PipelineInit, IdInContext, UnwoundEnded
<1>7. PanicEntryTrace
  BY DEF PipelineInit, PanicEntryTrace
<1> QED
  BY <1>1, <1>4, <1>5, <1>6, <1>7 DEF PipelineInv, RequestInv

LEMMA PipelineInvStep ==
  ASSUME PipelineInv, [PipelineNext]_pipelineVars
  PROVE  PipelineInv'
<1>1. TracingInv'
  BY PipelineStepIsTracing, TracingInvStep DEF PipelineInv, TracingInv, Shape
<1>2. CASE PipelineNext
  <2>1. PICK g \in Goroutines : RequestStep(g)
    BY <1>2 DEF PipelineNext, RequestStep
  <2>2. /\ TypeOK /\ Shape /\ OwnOnTop /\ RequestTypes /\ WrappersTruthful
        /\ IdInContext /\ UnwoundEnded /\ PanicEntryTrace
    BY DEF PipelineInv, TracingInv, Shape, RequestInv
  <2>3. TypeOK' /\ SpansSound'
    BY <1>1 DEF TracingInv, Shape
  <2>4. UnwoundEnded'
    BY <2>1, <2>2, <2>3, UnwoundEndedStep
  <2>5. WrappersTruthful' /\ resp' \in [Goroutines -> Responses]
    BY <2>1, <2>2, WrappersTruthfulStep
  <2>6. IdInContext' /\ ctxID' \in [Goroutines -> Ids]
    BY <2>1, <2>2, <2>3, IdInContextStep
  <2>7. /\ PanicEntryTrace'
        /\ lastPanic' \in [id : {"own", "other", "none", "no entry"}, calm : BOOLEAN]
    BY <2>1, <2>2, PanicEntryStep
  <2>8. RequestTypes'
    BY <2>1, <2>2, <2>5, <2>6, <2>7, StageStep DEF RequestTypes
  <2> QED
    BY <1>1, <2>4, <2>5, <2>6, <2>7, <2>8 DEF PipelineInv, RequestInv
<1>3. CASE UNCHANGED pipelineVars
  <2>1. RequestInv'
    BY <1>3 DEF pipelineVars, vars, request, PipelineInv, RequestInv, RequestTypes,
       WrappersTruthful, IdInContext, UnwoundEnded, PanicEntryTrace
  <2> QED
    BY <1>1, <2>1 DEF PipelineInv
<1> QED
  BY <1>2, <1>3

LEMMA PipelineInvariant == PipelineSpec => []PipelineInv
  BY PipelineInvInit, PipelineInvStep, PTL DEF PipelineSpec

(* PipelineIsTracing: whatever a handler or a middleware does to spans, it  *)
(* does by StartTrace, EndTrace and resumeTrace: every step of a request    *)
(* is a step of Tracing, or leaves its variables alone.                     *)
THEOREM PipelineIsTracing == PipelineSpec => Spec
<1>1. PipelineInit => Init
  BY DEF PipelineInit
<1>2. PipelineInv => TypeOK
  BY DEF PipelineInv, TracingInv, Shape
<1> QED
  BY <1>1, <1>2, PipelineStepIsTracing, PipelineInvariant, PTL DEF PipelineSpec, Spec

-----------------------------------------------------------------------------
(* Every state of requests and spans has its type: no id is empty on the    *)
(* stack, no span is ended that was not created, and the bridge leaves no   *)
(* more ids behind than requests were resumed.                              *)
THEOREM PipelineTypeCorrect == PipelineSpec => []PipelineTypeOK
<1>1. PipelineInv => PipelineTypeOK
  BY DEF PipelineInv, TracingInv, Shape, RequestInv, RequestTypes, PipelineTypeOK, Responses
<1> QED
  BY <1>1, PipelineInvariant, PTL

(* tracer.go: pushes and pops balance, however goroutines, requests and     *)
(* panics interleave: but for the ids the bridge leaves behind, the stack   *)
(* is as deep as there are spans in progress.                               *)
THEOREM StackBalances == PipelineSpec => []DepthMatchesOpen
<1>1. PipelineInv => DepthMatchesOpen
  BY DEF PipelineInv, TracingInv, Depth
<1> QED
  BY <1>1, PipelineInvariant, PTL

(* otel_bridge.go: a key has as many spans on file as goroutines have open  *)
(* under it, siblings of one name included, less those that resumed         *)
(* requests ended in a call that came back; all on file run, and every      *)
(* span that was created is ended, on file or about to be.                  *)
THEOREM RegistryMatches == PipelineSpec => []RegistryMatchesOpen
<1>1. PipelineInv => RegistryMatchesOpen
  BY RegistryHolds DEF PipelineInv, TracingInv, Files
<1> QED
  BY <1>1, PipelineInvariant, PTL

(* propagation.go, transport.go: an outbound call carries the innermost id  *)
(* of its goroutine and the next service reads it up to its first dash, as  *)
(* long as no spans overlapped.                                             *)
THEOREM OutboundOwn == PipelineSpec => []OutboundCarriesOwn
<1>1. ASSUME PipelineInv
      PROVE  OutboundCarriesOwn
  <2>1. Shape /\ OwnOnTop
    BY <1>1 DEF PipelineInv, TracingInv
  <2> SUFFICES ASSUME ~overlapped, NEW g \in Goroutines, Alone(g), pc[g] # "pop",
                      open[g] # <<>> \/ left = 0
               PROVE  /\ GetActiveTraceID = Innermost(g).id
                      /\ ExtractTraceID(OutboundHeaders, Wide) =
                           SubSeq(Text(Innermost(g).id), 1,
                                  IF open[g] = <<>> THEN 0 ELSE 1)
    BY DEF OutboundCarriesOwn
  <2> DEFINE id == Innermost(g).id
  <2>2. GetActiveTraceID = id
    BY <2>1, OwnTop
  <2>3. CASE open[g] = <<>>
    <3>1. id = 0 /\ 0 \in Ids
      BY <2>3, TracingAssumption DEF Innermost, NoSpan, Ids
    <3> HIDE DEF id
    <3>2. ExtractTraceID(OutboundHeaders, Wide) = <<>>
      BY <2>2, <3>1, ExtractsInjected DEF OutboundHeaders, RoundTrip
    <3>3. SubSeq(Text(id), 1, 0) = <<>>
      BY <3>1 DEF Text, Absent
    <3> QED
      BY <2>2, <2>3, <3>2, <3>3 DEF id
  <2>4. CASE open[g] # <<>>
    <3>1. /\ Len(open[g]) \in Nat \ {0} /\ Innermost(g) = open[g][Len(open[g])]
          /\ Innermost(g) \in Span
      BY <2>1, <2>4, TopIs DEF Shape
    <3>2. id \in Ids /\ id # 0
      BY <2>1, <3>1 DEF Shape, SpansSound, SpanSound, Span
    <3> HIDE DEF id
    <3>3. ExtractTraceID(OutboundHeaders, Wide) = <<UpToDash(id)>>
      BY <2>2, <3>2, ExtractsInjected DEF OutboundHeaders, RoundTrip
    <3>4. /\ Text(id) \in Seq(Int) /\ Len(Text(id)) \in {1, 2}
          /\ Text(id)[1] = UpToDash(id)
      BY <3>2, TextIs
    <3>5. SubSeq(Text(id), 1, 1) = <<UpToDash(id)>>
      BY <3>4, FirstOf
    <3> QED
      BY <2>2, <2>4, <3>3, <3>5 DEF id
  <2> QED
    BY <2>3, <2>4
<1> QED
  BY <1>1, PipelineInvariant, PTL

(* panic_middleware.go: the entry about a panic carries the id of its       *)
(* request when the recovery is inside HTTPMiddleware, and none when it is  *)
(* around it and nobody else has spans.                                     *)
THEOREM PanicEntryHolds == PipelineSpec => []PanicEntryTrace
<1>1. PipelineInv => PanicEntryTrace
  BY DEF PipelineInv, RequestInv
<1> QED
  BY <1>1, PipelineInvariant, PTL

(* middleware.go: responseWriterWrapper reports the payload the client got, *)
(* up to MaxPayload, and the status it got unless one was set after the     *)
(* response had begun.                                                      *)
THEOREM ResponsesReported == PipelineSpec => []ResponseReported
<1>1. PipelineInv => ResponseReported
  BY DEF PipelineInv, RequestInv, WrappersTruthful, Truthful, ResponseReported
<1> QED
  BY <1>1, PipelineInvariant, PTL
=============================================================================
