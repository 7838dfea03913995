------------------------- MODULE Sigma16PythonProofs -------------------------
(***************************************************************************)
(* What Python code may do with the emulator object never takes a machine  *)
(* from under a running execution, nor changes the instruction a callback  *)
(* was shown: proofs about Sigma16Python, for any number of machines, any  *)
(* depth of executions and any length of a session.                        *)
(***************************************************************************)
EXTENDS Sigma16Python, SequenceTheorems, TLAPS

-----------------------------------------------------------------------------
(* The innermost element of a stack, and the stack with another one in its *)
(* place.                                                                  *)
LEMMA Innermost ==
  ASSUME NEW S, NEW s \in Seq(S), s # << >>, NEW f \in S
  PROVE  LET o == SubSeq(s, 1, Len(s) - 1)
         IN  /\ Len(s) \in Nat /\ Len(s) > 0 /\ s[Len(s)] \in S
             /\ o \in Seq(S) /\ Len(o) = Len(s) - 1
             /\ \A k \in 1..(Len(s) - 1) : o[k] = s[k]
             /\ Append(o, f) \in Seq(S) /\ Len(Append(o, f)) = Len(s)
             /\ \A k \in 1..(Len(s) - 1) : Append(o, f)[k] = s[k]
             /\ Append(o, f)[Len(s)] = f
<1> DEFINE o == SubSeq(s, 1, Len(s) - 1)
<1>1. Len(s) \in Nat /\ Len(s) > 0 /\ s[Len(s)] \in S
  <2>1. Len(s) \in Nat \ {0}
    BY EmptySeq
  <2> QED BY <2>1
<1>2. /\ o \in Seq(S) /\ Len(o) = Len(s) - 1
      /\ \A k \in 1..(Len(s) - 1) : o[k] = s[k]
  <2> DEFINE m == Len(s) - 1
  <2>1. m \in Nat /\ \A k \in 1..m : s[k] \in S
    BY <1>1
  <2>2. /\ o \in Seq(S) /\ Len(o) = IF 1 <= m THEN m - 1 + 1 ELSE 0
        /\ \A k \in 1..(m - 1 + 1) : o[k] = s[1 + k - 1]
    <3> HIDE DEF m
    <3>1. o = SubSeq(s, 1, m)
      BY DEF m
    <3> HIDE DEF o
    <3> QED BY <2>1, <3>1, SubSeqProperties
  <2>3. m - 1 + 1 = m /\ \A k \in 1..m : 1 + k - 1 = k
    BY <2>1
  <2> QED BY <2>1, <2>2, <2>3
<1> HIDE DEF o
<1>3. /\ Append(o, f) \in Seq(S) /\ Len(Append(o, f)) = Len(s)
      /\ \A k \in 1..(Len(s) - 1) : Append(o, f)[k] = s[k]
      /\ Append(o, f)[Len(s)] = f
  BY <1>1, <1>2
<1> QED BY <1>1, <1>2, <1>3 DEF o

(* A stack is what is below its innermost element, and that element. *)
LEMMA LastInPlace ==
  ASSUME NEW S, NEW s \in Seq(S), s # << >>
  PROVE  s = Append(SubSeq(s, 1, Len(s) - 1), s[Len(s)])
<1> DEFINE t == Append(SubSeq(s, 1, Len(s) - 1), s[Len(s)])
<1>1. s[Len(s)] \in S
  BY EmptySeq
<1>2. /\ t \in Seq(S) /\ Len(t) = Len(s) /\ Len(s) \in Nat
      /\ \A k \in 1..(Len(s) - 1) : t[k] = s[k]
      /\ t[Len(s)] = s[Len(s)]
  BY <1>1, Innermost
<1> HIDE DEF t
<1>3. \A k \in 1..Len(s) : t[k] = s[k]
  BY <1>2
<1>4. t = s
  BY <1>2, <1>3, SeqEqual
<1> QED BY <1>4 DEF t

-----------------------------------------------------------------------------
(***************************************************************************)
(* The inductive invariant.  Two executions of the same machine may be     *)
(* active at once: the callback of the outer one has then run it, and is   *)
(* not promised anything.                                                  *)
(***************************************************************************)
Nested ==
  \A j, k \in 1..Len(stack) :
    j < k /\ stack[j].vm = stack[k].vm => stack[j].ran

Ready(f, v) == v[f.vm].state = "ready"

Shown(f, v) == f.at # "dispatch" /\ ~f.ran => v[f.vm].ir = f.inst

Cause == pending => \E k \in 1..Len(stack) : stack[k].raised

CallTypes ==
  /\ emu \in [executable : Files \cup {NULL}, vm : Vms \cup {NULL},
              trace_handler : Handlers \cup {NULL}]
  /\ vms \in [Vms -> Machine]
  /\ stack \in Seq(Frame)
  /\ pending \in BOOLEAN
  /\ decoded \in Nat

CallsOK ==
  /\ CallTypes
  /\ \A k \in 1..Len(stack) : Ready(stack[k], vms) /\ Shown(stack[k], vms)
  /\ Nested
  /\ Cause

(* The import counts the references of the types up to the one it adds.    *)
Held(k) == 1 + (IF k <= added THEN 1 ELSE 0)

ImportsOK ==
  /\ status \in Status
  /\ added \in 0..4 /\ typeRefs \in [1..4 -> Nat]
  /\ status = "importing" => added < 4
  /\ status # "import failed" => \A k \in 1..4 : typeRefs[k] = Held(k)
  /\ TypesCounted

PyInv == ImportsOK /\ CallsOK

-----------------------------------------------------------------------------
(***************************************************************************)
(* The import.                                                             *)
(***************************************************************************)
LEMMA ImportKeeps ==
  ASSUME ImportsOK, PyInit_sigma16
  PROVE  ImportsOK'
<1>1. CASE PyModule_AddObject
  <2>1. /\ added < 4 /\ added' = added + 1 /\ added \in 0..4
        /\ typeRefs' = [typeRefs EXCEPT ![added'] = @ + 1]
        /\ typeRefs \in [1..4 -> Nat]
        /\ \A k \in 1..4 : typeRefs[k] = Held(k)
        /\ status' = IF added' = 4 THEN "running" ELSE "importing"
    BY <1>1 DEF PyModule_AddObject, ImportsOK
  <2>2. added' \in 1..4 /\ typeRefs' \in [1..4 -> Nat]
    BY <2>1
  <2>3. \A k \in 1..4 : typeRefs'[k] = Held(k)'
    BY <2>1 DEF Held
  <2>4. status' \in {"running", "importing"} /\ (status' = "importing" => added' < 4)
    BY <2>1, <2>2
  <2>5. TypesCounted'
    BY <2>3 DEF TypesCounted, Held
  <2>6. added' \in 0..4
    BY <2>2
  <2>7. status' \in Status
    BY <2>4 DEF Status
  <2> QED BY <2>2, <2>3, <2>4, <2>5, <2>6, <2>7 DEF ImportsOK
<1>2. CASE PyInit_fails
  <2>1. /\ added < 4 /\ added \in 0..4 /\ added' = 0 /\ status' = "import failed"
        /\ \A k \in 1..4 : typeRefs[k] = Held(k)
        /\ typeRefs' = [k \in 1..4 |->
             typeRefs[k] - (IF k <= added THEN 1 ELSE 0)
                         - (IF k = 1 /\ added > 0 THEN 1 ELSE 0)]
    BY <1>2 DEF PyInit_fails, ImportsOK
  <2> DEFINE own(k) == IF k <= added THEN 1 ELSE 0
             twice(k) == IF k = 1 /\ added > 0 THEN 1 ELSE 0
  <2>2. \A k \in 1..4 : typeRefs[k] = 1 + own(k)
    BY <2>1 DEF Held
  <2>3. \A k \in 1..4 : typeRefs'[k] = 1 + 0 \/ (k = 1 /\ typeRefs'[k] = 0)
    <3>1. SUFFICES ASSUME NEW k \in 1..4
                   PROVE  typeRefs'[k] = 1 + 0 \/ (k = 1 /\ typeRefs'[k] = 0)
      OBVIOUS
    <3>2. typeRefs'[k] = typeRefs[k] - own(k) - twice(k)
      BY <2>1
    <3>3. own(k) = 0 \/ own(k) = 1
      OBVIOUS
    <3>4. twice(k) = 0 \/ (twice(k) = 1 /\ k = 1)
      OBVIOUS
    <3> HIDE DEF own, twice
    <3>5. typeRefs[k] = 1 + own(k)
      BY <2>2
    <3>6. typeRefs'[k] = 1 - twice(k)
      BY <3>2, <3>3, <3>4, <3>5
    <3> QED BY <3>4, <3>6
  <2>4. typeRefs' = [k \in 1..4 |-> typeRefs'[k]]
    BY <2>1
  <2>5. typeRefs' \in [1..4 -> Nat]
    BY <2>3, <2>4
  <2>0. added' = 0
    BY <1>2, Zenon DEF PyInit_fails
  <2>6. TypesCounted'
    <3>1. \A k \in 1..4 : ~(k <= added')
      BY <2>0
    <3>2. status' = "import failed"
      BY <2>1
    <3>3. \A k \in 1..4 : (IF k <= added' THEN 1 ELSE 0) = 0
      BY <3>1
    <3> QED BY <2>3, <3>2, <3>3, Zenon DEF TypesCounted
  <2>7. added' \in 0..4
    BY <2>0
  <2>8. status' \in Status
    BY <2>1 DEF Status
  <2> QED BY <2>1, <2>5, <2>6, <2>7, <2>8 DEF ImportsOK
<1> QED BY <1>1, <1>2 DEF PyInit_sigma16

(* Nothing after the import touches the type objects. *)
LEMMA ImportsStay ==
  ASSUME ImportsOK, UNCHANGED importVars,
         \/ status' = status
         \/ status = "running" /\ status' \in {"crashed", "deleted"}
  PROVE  ImportsOK'
BY DEF ImportsOK, importVars, Status, TypesCounted, Held

-----------------------------------------------------------------------------
(***************************************************************************)
(* The calls.                                                              *)
(***************************************************************************)
(* The innermost call goes on as f, and its machine becomes m.  An outer   *)
(* call of this machine is one whose callback has run it.                  *)
LEMMA ContinueKeeps ==
  ASSUME CallsOK, stack # << >>, NEW f \in Frame, NEW m \in Machine,
         Continue(f), f.vm = Top.vm, Top.raised => f.raised,
         m.state = vms[Top.vm].state,
         f.at # "dispatch" /\ ~f.ran => m.ir = f.inst,
         vms' = [vms EXCEPT ![Top.vm] = m],
         pending' \in BOOLEAN, pending' => pending \/ f.raised,
         emu' = emu, decoded' \in Nat
  PROVE  CallsOK'
<1> DEFINE n == Len(stack)
<1>1. /\ n \in Nat /\ n > 0 /\ Top \in Frame /\ Top = stack[n]
      /\ stack' \in Seq(Frame) /\ Len(stack') = n /\ stack'[n] = f
      /\ \A k \in 1..(n - 1) : stack'[k] = stack[k]
  BY Innermost DEF CallsOK, CallTypes, Continue, Outer, Top
<1>2. /\ vms \in [Vms -> Machine] /\ Top.vm \in Vms /\ Ready(Top, vms)
      /\ stack \in Seq(Frame)
  BY <1>1 DEF CallsOK, CallTypes, Frame
<1>3. /\ vms' \in [Vms -> Machine]
      /\ \A v \in Vms : vms'[v].state = vms[v].state
      /\ \A v \in Vms : v # Top.vm => vms'[v] = vms[v]
      /\ vms'[Top.vm] = m
  BY <1>2
<1>4. CallTypes'
  BY <1>1, <1>3 DEF CallsOK, CallTypes
<1>5. ASSUME NEW k \in 1..n
      PROVE  Ready(stack'[k], vms') /\ Shown(stack'[k], vms')
  <2>1. CASE k = n
    BY <2>1, <1>1, <1>2, <1>3 DEF Ready, Shown
  <2>2. CASE k # n
    <3>1. k \in 1..(n - 1) /\ stack'[k] = stack[k] /\ stack[k] \in Frame
      BY <2>2, <1>1, <1>2
    <3>2. stack[k].vm \in Vms /\ Ready(stack[k], vms) /\ Shown(stack[k], vms)
      BY <3>1 DEF CallsOK, Frame
    <3>3. stack[k].vm = Top.vm => stack[k].ran
      BY <3>1, <1>1 DEF CallsOK, Nested
    <3> QED BY <3>1, <3>2, <3>3, <1>3 DEF Ready, Shown
  <2> QED BY <2>1, <2>2
<1>6. Nested'
  <2>1. SUFFICES ASSUME NEW j \in 1..n, NEW k \in 1..n, j < k,
                        stack'[j].vm = stack'[k].vm
                 PROVE  stack'[j].ran
    BY <1>1 DEF Nested
  <2>2. j \in 1..(n - 1) /\ stack'[j] = stack[j] /\ stack'[k].vm = stack[k].vm
    BY <2>1, <1>1
  <2> QED BY <2>1, <2>2 DEF CallsOK, Nested
<1>7. Cause'
  <2>1. SUFFICES ASSUME pending' PROVE \E k \in 1..n : stack'[k].raised
    BY <1>1 DEF Cause
  <2>2. CASE f.raised
    BY <2>2, <1>1
  <2>3. CASE ~f.raised
    <3>1. PICK k \in 1..n : stack[k].raised
      BY <2>1, <2>3 DEF CallsOK, Cause
    <3>2. k # n
      BY <3>1, <2>3, <1>1
    <3> QED BY <3>1, <3>2, <1>1
  <2> QED BY <2>2, <2>3
<1> QED BY <1>1, <1>4, <1>5, <1>6, <1>7 DEF CallsOK

(* A machine that is not in use by a call may change. *)
LEMMA OtherMachineKeeps ==
  ASSUME CallsOK, NEW v \in Vms, vms[v].state # "ready", NEW m \in Machine,
         vms' = [vms EXCEPT ![v] = m] \/ vms' = vms,
         UNCHANGED <<stack, pending, decoded>>,
         emu' \in [executable : Files \cup {NULL}, vm : Vms \cup {NULL},
                   trace_handler : Handlers \cup {NULL}]
  PROVE  CallsOK'
<1>1. vms \in [Vms -> Machine] /\ stack \in Seq(Frame)
  BY DEF CallsOK, CallTypes
<1>2. vms' \in [Vms -> Machine] /\ \A u \in Vms : u # v => vms'[u] = vms[u]
  BY <1>1
<1>3. CallTypes'
  BY <1>2 DEF CallsOK, CallTypes
<1>4. ASSUME NEW k \in 1..Len(stack)
      PROVE  Ready(stack[k], vms') /\ Shown(stack[k], vms')
  <2>1. stack[k].vm \in Vms
    <3>1. stack[k] \in Frame
      BY <1>1
    <3> QED BY <3>1 DEF Frame
  <2>2. Ready(stack[k], vms) /\ Shown(stack[k], vms)
    BY DEF CallsOK
  <2>3. stack[k].vm # v
    BY <2>2 DEF Ready
  <2> QED BY <2>1, <2>2, <2>3, <1>2 DEF Ready, Shown
<1> QED BY <1>3, <1>4 DEF CallsOK, Nested, Cause

(* Executing: a new innermost call, of a machine that is ready. *)
LEMMA ExecuteKeeps ==
  ASSUME CallsOK, Emulator_execute
  PROVE  CallsOK'
<1> USE DEF CallTypes
<1>1. CASE ~Usable(emu.vm)
  BY <1>1 DEF Emulator_execute, CallsOK, Nested, Cause
<1>2. CASE Usable(emu.vm)
  <2> DEFINE n  == Len(stack)
             g  == [k \in DOMAIN stack |->
                      [stack[k] EXCEPT !.ran = @ \/ stack[k].vm = emu.vm]]
             f  == [vm |-> emu.vm, at |-> "dispatch", word |-> Unread,
                    inst |-> 0, ran |-> FALSE, raised |-> FALSE]
  <2>1. stack \in Seq(Frame) /\ n \in Nat /\ DOMAIN stack = 1..n
    BY DEF CallsOK
  <2>2. emu.vm \in Vms /\ vms[emu.vm].state = "ready"
    BY <1>2 DEF Usable, CallsOK
  <2>3. f \in Frame
    BY <2>2 DEF Frame, Words, Unread
  <2>4. \A k \in 1..n : /\ g[k] \in Frame /\ g[k].vm = stack[k].vm
                        /\ g[k].at = stack[k].at /\ g[k].inst = stack[k].inst
                        /\ g[k].raised = stack[k].raised
                        /\ g[k].ran <=> stack[k].ran \/ stack[k].vm = emu.vm
    <3>1. SUFFICES ASSUME NEW k \in 1..n
                   PROVE  /\ g[k] \in Frame /\ g[k].vm = stack[k].vm
                          /\ g[k].at = stack[k].at /\ g[k].inst = stack[k].inst
                          /\ g[k].raised = stack[k].raised
                          /\ g[k].ran <=> stack[k].ran \/ stack[k].vm = emu.vm
      OBVIOUS
    <3>2. stack[k] \in Frame /\ k \in DOMAIN stack
      BY <2>1
    <3>3. g[k] = [stack[k] EXCEPT !.ran = @ \/ stack[k].vm = emu.vm]
      BY <3>2
    <3> HIDE DEF g
    <3> QED BY <3>2, <3>3 DEF Frame
  <2>5. g \in Seq(Frame) /\ Len(g) = n
    <3>1. DOMAIN g = 1..n
      BY <2>1
    <3>2. g \in [1..n -> Frame]
      BY <3>1, <2>4
    <3> HIDE DEF g
    <3> QED BY <2>1, <3>1, <3>2
  <2>6. stack' = Append(g, f) /\ UNCHANGED <<emu, vms, pending, decoded>>
    BY <1>2 DEF Emulator_execute
  <2> HIDE DEF g, f
  <2>7. /\ stack' \in Seq(Frame) /\ Len(stack') = n + 1 /\ stack'[n + 1] = f
        /\ \A k \in 1..n : stack'[k] = g[k]
    BY <2>1, <2>3, <2>5, <2>6
  <2>8. ASSUME NEW k \in 1..(n + 1)
        PROVE  Ready(stack'[k], vms') /\ Shown(stack'[k], vms')
    <3>1. CASE k = n + 1
      BY <3>1, <2>2, <2>6, <2>7 DEF Ready, Shown, f
    <3>2. CASE k \in 1..n
      <4>1. Ready(stack[k], vms) /\ Shown(stack[k], vms)
        BY <3>2 DEF CallsOK
      <4> QED BY <3>2, <4>1, <2>4, <2>6, <2>7 DEF Ready, Shown
    <3> QED BY <3>1, <3>2, <2>1
  <2>9. Nested'
    <3>1. SUFFICES ASSUME NEW j \in 1..(n + 1), NEW k \in 1..(n + 1), j < k,
                          stack'[j].vm = stack'[k].vm
                   PROVE  stack'[j].ran
      BY <2>7 DEF Nested
    <3>2. j \in 1..n /\ stack'[j] = g[j]
      BY <3>1, <2>1, <2>7
    <3>3. CASE k = n + 1
      BY <3>1, <3>2, <3>3, <2>4, <2>7 DEF f
    <3>4. CASE k \in 1..n
      <4>1. stack[j].vm = stack[k].vm
        BY <3>1, <3>2, <3>4, <2>4, <2>7
      <4>2. stack[j].ran
        BY <4>1, <3>1, <3>2, <3>4 DEF CallsOK, Nested
      <4> QED BY <4>2, <3>2, <2>4
    <3> QED BY <3>3, <3>4, <2>1
  <2>10. Cause'
    <3>1. SUFFICES ASSUME pending' PROVE \E k \in 1..(n + 1) : stack'[k].raised
      BY <2>7 DEF Cause
    <3>2. PICK k \in 1..n : stack[k].raised
      BY <3>1, <2>6 DEF CallsOK, Cause
    <3>3. k \in 1..(n + 1) /\ stack'[k].raised
      BY <3>2, <2>1, <2>4, <2>7
    <3> QED BY <3>3
  <2>11. CallTypes'
    BY <2>6, <2>7 DEF CallsOK
  <2> QED BY <2>7, <2>8, <2>9, <2>10, <2>11 DEF CallsOK
<1> QED BY <1>1, <1>2

(* The innermost call is over, and with it the exception. *)
LEMMA ReturnKeeps ==
  ASSUME CallsOK, stack # << >>, Return, NEW m \in Machine,
         m.state = vms[Top.vm].state, vms' = [vms EXCEPT ![Top.vm] = m],
         emu' = emu, decoded' \in Nat
  PROVE  CallsOK'
<1> DEFINE n == Len(stack)
<1>1. stack # << >> /\ stack \in Seq(Frame)
  BY DEF CallsOK, CallTypes
<1>2. /\ n \in Nat /\ n > 0 /\ Top \in Frame /\ Top = stack[n]
      /\ Outer \in Seq(Frame) /\ Len(Outer) = n - 1
      /\ \A k \in 1..(n - 1) : Outer[k] = stack[k]
  <2>1. stack[Len(stack)] \in Frame
    BY <1>1, EmptySeq
  <2> QED BY <1>1, <2>1, Innermost DEF Outer, Top
<1>3. vms \in [Vms -> Machine] /\ Top.vm \in Vms
  BY <1>2 DEF CallsOK, CallTypes, Frame
<1>4. stack' = Outer /\ pending' = FALSE
  BY DEF Return
<1>5. /\ vms' \in [Vms -> Machine]
      /\ \A v \in Vms : vms'[v].state = vms[v].state
      /\ \A v \in Vms : v # Top.vm => vms'[v] = vms[v]
  BY <1>3
<1>6. CallTypes'
  BY <1>2, <1>4, <1>5 DEF CallsOK, CallTypes
<1>7. ASSUME NEW k \in 1..(n - 1)
      PROVE  Ready(stack'[k], vms') /\ Shown(stack'[k], vms')
  <2>1. k \in 1..n /\ k < n /\ stack'[k] = stack[k] /\ stack[k] \in Frame
    BY <1>1, <1>2, <1>4
  <2>2. stack[k].vm \in Vms /\ Ready(stack[k], vms) /\ Shown(stack[k], vms)
    BY <2>1 DEF CallsOK, Frame
  <2>3. stack[k].vm = Top.vm => stack[k].ran
    BY <2>1, <1>2 DEF CallsOK, Nested
  <2> QED BY <2>1, <2>2, <2>3, <1>5 DEF Ready, Shown
<1>8. Nested'
  <2>1. SUFFICES ASSUME NEW j \in 1..(n - 1), NEW k \in 1..(n - 1), j < k,
                        stack'[j].vm = stack'[k].vm
                 PROVE  stack'[j].ran
    BY <1>2, <1>4 DEF Nested
  <2>2. j \in 1..n /\ k \in 1..n /\ stack'[j] = stack[j] /\ stack'[k] = stack[k]
    BY <1>2, <1>4
  <2> QED BY <2>1, <2>2 DEF CallsOK, Nested
<1> QED BY <1>2, <1>4, <1>6, <1>7, <1>8 DEF CallsOK, Cause

-----------------------------------------------------------------------------
(***************************************************************************)
(* The invariant holds initially, and every step keeps it.                 *)
(***************************************************************************)
LEMMA PythonInitInv == PythonInit => PyInv
<1> SUFFICES ASSUME PythonInit PROVE PyInv
  OBVIOUS
<1>1. ImportsOK
  <2>1. added = 0 /\ typeRefs = [k \in 1..4 |-> 1] /\ status = "importing"
    BY DEF PythonInit
  <2>2. \A k \in 1..4 : typeRefs[k] = Held(k)
    BY <2>1 DEF Held
  <2>3. added \in 0..4 /\ added < 4 /\ typeRefs \in [1..4 -> Nat]
    BY <2>1
  <2>4. TypesCounted
    BY <2>2 DEF TypesCounted, Held
  <2>5. status \in Status
    BY <2>1 DEF Status
  <2> QED BY <2>2, <2>3, <2>4, <2>5 DEF ImportsOK
<1>2. CallsOK
  <2>1. stack = << >> /\ Len(stack) = 0 /\ stack \in Seq(Frame)
    BY DEF PythonInit
  <2>2. vms \in [Vms -> Machine]
    BY DEF PythonInit, Loaded, Machine, Words, Unread
  <2>3. CallTypes
    BY <2>1, <2>2 DEF PythonInit, CallTypes
  <2>4. ~pending
    BY DEF PythonInit
  <2> QED BY <2>1, <2>3, <2>4 DEF CallsOK, Nested, Cause
<1> QED BY <1>1, <1>2 DEF PyInv

(* The object may be given other fields while nothing else changes. *)
LEMMA FieldsKeep ==
  ASSUME CallsOK, UNCHANGED <<vms, stack, pending, decoded>>,
         emu' \in [executable : Files \cup {NULL}, vm : Vms \cup {NULL},
                   trace_handler : Handlers \cup {NULL}]
  PROVE  CallsOK'
BY DEF CallsOK, CallTypes, Nested, Cause, Ready, Shown

LEMMA InitKeeps ==
  ASSUME CallsOK, NEW file \in Files, NEW handler \in Handlers \cup {NULL},
         Emulator_init(file, handler)
  PROVE  CallsOK'
<1>1. PICK v \in Vms, o \in sigma16_vm_init :
        /\ vms[v].state = "unused"
        /\ emu' = [Fields(file, handler) EXCEPT
                     !.vm = IF o.vm = "null" THEN NULL ELSE v]
        /\ vms' = IF o.vm = "null" THEN vms
                     ELSE [vms EXCEPT ![v] = Loaded(o.vm)]
  BY DEF Emulator_init
<1>2. o.vm \in Pointee
  BY DEF sigma16_vm_init, Pointee
<1>3. Loaded(o.vm) \in Machine
  BY <1>2 DEF Loaded, Machine, Words, Unread
<1>4. emu' \in [executable : Files \cup {NULL}, vm : Vms \cup {NULL},
                trace_handler : Handlers \cup {NULL}]
  BY <1>1 DEF Fields, CallsOK, CallTypes
<1>5. UNCHANGED <<stack, pending, decoded>>
  BY DEF Emulator_init
<1> QED BY <1>1, <1>3, <1>4, <1>5, OtherMachineKeeps

(* A callback ends: the innermost call goes on, and its machine is left    *)
(* alone.                                                                  *)
LEMMA StepOverKeeps ==
  ASSUME CallsOK, stack # << >>, NEW f \in Frame, Continue(f),
         f.vm = Top.vm, Top.raised => f.raised, Top.at # "dispatch",
         f.ran = Top.ran /\ f.inst = Top.inst,
         pending' \in BOOLEAN, pending' => pending \/ f.raised,
         UNCHANGED <<emu, vms, decoded>>
  PROVE  CallsOK'
<1> DEFINE m == vms[Top.vm]
<1>1. /\ Top \in Frame /\ Len(stack) \in Nat /\ Len(stack) > 0
      /\ Top = stack[Len(stack)]
  BY Innermost DEF CallsOK, CallTypes, Top
<1>2. Shown(Top, vms)
  BY <1>1 DEF CallsOK
<1>3. Top.vm \in Vms /\ vms \in [Vms -> Machine] /\ decoded \in Nat
  BY <1>1 DEF Frame, CallsOK, CallTypes
<1>4. m \in Machine /\ vms' = [vms EXCEPT ![Top.vm] = m]
  BY <1>3
<1>5. f.at # "dispatch" /\ ~f.ran => m.ir = f.inst
  BY <1>2 DEF Shown
<1>6. m.state = vms[Top.vm].state
  OBVIOUS
<1> HIDE DEF m
<1> QED BY <1>3, <1>4, <1>5, <1>6, ContinueKeeps

LEMMA CallbackKeeps ==
  ASSUME CallsOK, CallbackReturns \/ CallbackRaises
  PROVE  CallsOK'
<1>1. stack # << >> /\ UNCHANGED <<emu, vms, decoded>>
  BY DEF CallbackReturns, CallbackRaises
<1>2. Top \in Frame /\ pending \in BOOLEAN
  BY <1>1, Innermost DEF CallsOK, CallTypes, Top
<1>3. CASE CallbackReturns
  <2> DEFINE f == [Top EXCEPT !.at = "body"]
  <2>1. /\ f \in Frame /\ f.vm = Top.vm /\ f.raised = Top.raised
        /\ f.ran = Top.ran /\ f.inst = Top.inst
    BY <1>2 DEF Frame
  <2>2. Top.at # "dispatch"
    BY <1>1, <1>3 DEF CallbackReturns, InPython
  <2>3. Continue(f) /\ (pending' = FALSE \/ pending' = pending)
    BY <1>3 DEF CallbackReturns
  <2> HIDE DEF f
  <2>4. pending' \in BOOLEAN
    BY <1>2, <2>3
  <2>5. pending' => pending
    BY <2>3, Zenon
  <2> QED BY <1>1, <2>1, <2>2, <2>3, <2>4, <2>5, StepOverKeeps
<1>4. CASE CallbackRaises
  <2> DEFINE f == [Top EXCEPT !.at = "body", !.raised = TRUE]
  <2>1. /\ f \in Frame /\ f.vm = Top.vm /\ f.raised
        /\ f.ran = Top.ran /\ f.inst = Top.inst
    BY <1>2 DEF Frame
  <2>2. Top.at # "dispatch"
    BY <1>1, <1>4 DEF CallbackRaises, InPython
  <2>3. Continue(f) /\ pending' = TRUE
    BY <1>4 DEF CallbackRaises
  <2> HIDE DEF f
  <2> QED BY <1>1, <2>1, <2>2, <2>3, StepOverKeeps
<1> QED BY <1>3, <1>4

(* The innermost call and its machine.                                     *)
LEMMA RunningMachine ==
  ASSUME CallsOK, InC
  PROVE  /\ stack # << >> /\ Top \in Frame /\ Top.vm \in Vms
         /\ vms[Top.vm] \in Machine /\ pending \in BOOLEAN /\ decoded \in Nat
<1>1. stack # << >> /\ stack \in Seq(Frame) /\ vms \in [Vms -> Machine]
  BY DEF InC, CallsOK, CallTypes
<1>2. Top \in Frame
  BY <1>1, Innermost DEF Top
<1> QED BY <1>1, <1>2 DEF Frame, CallsOK, CallTypes

LEMMA BodyKeeps ==
  ASSUME CallsOK, Body
  PROVE  CallsOK'
<1> DEFINE f == [Top EXCEPT !.at = "dispatch"]
           m == [vms[Top.vm] EXCEPT !.next = Unread]
<1>1. /\ InC /\ Continue(f) /\ vms' = [vms EXCEPT ![Top.vm] = m]
      /\ pending' = pending /\ emu' = emu /\ decoded' = decoded
  BY DEF Body
<1>2. /\ stack # << >> /\ Top \in Frame /\ vms[Top.vm] \in Machine
      /\ pending \in BOOLEAN /\ decoded \in Nat
  BY <1>1, RunningMachine
<1>3. /\ f \in Frame /\ f.vm = Top.vm /\ f.raised = Top.raised
      /\ f.at = "dispatch"
  BY <1>2 DEF Frame
<1>4. m \in Machine /\ m.state = vms[Top.vm].state
  BY <1>2 DEF Machine, Words, Unread
<1> HIDE DEF f, m
<1> QED BY <1>1, <1>2, <1>3, <1>4, ContinueKeeps

(* A word is met at pc: its number is the next one or one given before.    *)
LEMMA WordsAtPc ==
  ASSUME CallsOK, InC, NEW w \in WordAtPc, Decode(w)
  PROVE  LET m == [vms[Top.vm] EXCEPT !.ir = IrAfter(w), !.next = w]
         IN  /\ w \in Words /\ IrAfter(w) \in Nat /\ decoded' \in Nat
             /\ m \in Machine /\ m.state = vms[Top.vm].state
             /\ m.ir = IrAfter(w) /\ vms' = [vms EXCEPT ![Top.vm] = m]
<1>1. vms[Top.vm] \in Machine /\ decoded \in Nat
  BY RunningMachine
<1>2. w \in Words
  <2>1. CASE vms[Top.vm].next # Unread
    BY <2>1, <1>1 DEF WordAtPc, Machine
  <2>2. CASE vms[Top.vm].next = Unread
    BY <2>2, <1>1 DEF WordAtPc, Words, Kinds
  <2> QED BY <2>1, <2>2
<1>3. w.number \in Nat
  BY <1>2 DEF Words
<1>4. IrAfter(w) \in Nat
  BY <1>1, <1>3 DEF IrAfter, Machine
<1>5. decoded' \in Nat
  BY <1>1, <1>3 DEF Decode
<1> QED BY <1>1, <1>2, <1>4, <1>5 DEF Decode, Machine

(* An execution ends at a trap, or at an illegal word.                     *)
LEMMA EndKeeps ==
  ASSUME CallsOK, Halt \/ do_bad_op
  PROVE  CallsOK'
<1>1. InC /\ Return /\ emu' = emu
  BY DEF Halt, do_bad_op
<1>2. /\ stack # << >> /\ Top.vm \in Vms /\ vms[Top.vm] \in Machine
      /\ decoded \in Nat
  BY <1>1, RunningMachine
<1>3. CASE Halt
  <2> DEFINE m == vms[Top.vm]
  <2>1. vms \in [Vms -> Machine] /\ vms' = vms /\ decoded' = decoded
    BY <1>3 DEF Halt, CallsOK, CallTypes
  <2>2. /\ m \in Machine /\ m.state = vms[Top.vm].state
        /\ vms' = [vms EXCEPT ![Top.vm] = m]
    BY <1>2, <2>1
  <2> HIDE DEF m
  <2> QED BY <1>1, <1>2, <2>1, <2>2, ReturnKeeps
<1>4. CASE do_bad_op
  <2>1. PICK w \in WordAtPc : Decode(w)
    BY <1>4 DEF do_bad_op
  <2> DEFINE m == [vms[Top.vm] EXCEPT !.ir = IrAfter(w), !.next = w]
  <2>2. /\ decoded' \in Nat /\ m \in Machine /\ m.state = vms[Top.vm].state
        /\ vms' = [vms EXCEPT ![Top.vm] = m]
    BY <1>1, <2>1, WordsAtPc
  <2> HIDE DEF m
  <2> QED BY <1>1, <1>2, <2>2, ReturnKeeps
<1> QED BY <1>3, <1>4

(* An instruction is decoded and shown.  When the object for it cannot be  *)
(* made the call may crash, and then it is still at its dispatch.          *)
LEMMA TraceKeeps ==
  ASSUME CallsOK, vm_trace_compat
  PROVE  CallsOK'
<1>1. PICK w \in WordAtPc, instruction \in FromBytes :
        LET at == IF emu.trace_handler = NULL THEN "body" ELSE "callback"
            f  == [Top EXCEPT !.at = at, !.word = w,
                              !.inst = IrAfter(w), !.ran = FALSE]
        IN  /\ Decode(w)
            /\ \/ /\ instruction = "object"
                  /\ Continue(f)
                  /\ UNCHANGED <<status, pending>>
               \/ /\ instruction = "null" /\ at = "body"
                  /\ Continue([f EXCEPT !.raised = TRUE])
                  /\ pending' = TRUE
                  /\ UNCHANGED status
               \/ /\ instruction = "null" /\ at = "callback"
                  /\ status' = "crashed"
                  /\ UNCHANGED <<stack, pending>>
  BY DEF vm_trace_compat
<1> DEFINE at == IF emu.trace_handler = NULL THEN "body" ELSE "callback"
           f  == [Top EXCEPT !.at = at, !.word = w,
                             !.inst = IrAfter(w), !.ran = FALSE]
           m  == [vms[Top.vm] EXCEPT !.ir = IrAfter(w), !.next = w]
<1>2. InC /\ Top.at = "dispatch" /\ emu' = emu
  BY DEF vm_trace_compat
<1>3. stack # << >> /\ Top \in Frame /\ pending \in BOOLEAN
  BY <1>2, RunningMachine
<1>4. stack \in Seq(Frame)
  BY DEF CallsOK, CallTypes
<1>5. /\ w \in Words /\ IrAfter(w) \in Nat /\ decoded' \in Nat
      /\ m \in Machine /\ m.state = vms[Top.vm].state
      /\ m.ir = IrAfter(w) /\ vms' = [vms EXCEPT ![Top.vm] = m]
  BY <1>1, <1>2, WordsAtPc
<1>6. at \in {"callback", "body"}
  OBVIOUS
<1>8. \/ Continue(f) /\ pending' = pending
      \/ Continue([f EXCEPT !.raised = TRUE]) /\ pending' = TRUE
      \/ stack' = stack /\ pending' = pending
  BY <1>1
<1> HIDE DEF at, m
<1>9. /\ f \in Frame /\ f.vm = Top.vm /\ f.raised = Top.raised
      /\ f.inst = m.ir
  BY <1>3, <1>5, <1>6 DEF Frame
<1>10. /\ [f EXCEPT !.raised = TRUE] \in Frame
       /\ [f EXCEPT !.raised = TRUE].vm = Top.vm
       /\ [f EXCEPT !.raised = TRUE].raised
       /\ [f EXCEPT !.raised = TRUE].inst = m.ir
  BY <1>9 DEF Frame
<1> HIDE DEF f
<1>11. CASE Continue(f) /\ pending' = pending
  BY <1>2, <1>3, <1>5, <1>9, <1>11, ContinueKeeps
<1>12. CASE Continue([f EXCEPT !.raised = TRUE]) /\ pending' = TRUE
  <2> DEFINE g == [f EXCEPT !.raised = TRUE]
  <2>1. /\ g \in Frame /\ g.vm = Top.vm /\ g.raised /\ g.inst = m.ir
        /\ Continue(g)
    BY <1>10, <1>12
  <2> HIDE DEF g
  <2> QED BY <1>2, <1>3, <1>5, <1>12, <2>1, ContinueKeeps
<1>13. CASE stack' = stack /\ pending' = pending
  <2>1. Continue(Top)
    BY <1>3, <1>4, <1>13, LastInPlace DEF Continue, Outer, Top
  <2> QED BY <1>2, <1>3, <1>5, <1>13, <2>1, ContinueKeeps
<1> QED BY <1>8, <1>11, <1>12, <1>13

LEMMA PythonStepInv == PyInv /\ [PythonNext]_vars => PyInv'
<1> SUFFICES ASSUME PyInv, [PythonNext]_vars PROVE PyInv'
  OBVIOUS
<1>0. ImportsOK /\ CallsOK
  BY DEF PyInv
<1>1. CASE PyInit_sigma16
  <2>1. ImportsOK'
    BY <1>0, <1>1, ImportKeeps
  <2>2. CallsOK'
    BY <1>0, <1>1, FieldsKeep DEF PyInit_sigma16, CallsOK, CallTypes
  <2> QED BY <2>1, <2>2 DEF PyInv
<1>2. ASSUME NEW file \in Files, NEW handler \in Handlers \cup {NULL},
             Emulator_init(file, handler)
      PROVE  PyInv'
  <2>1. ImportsOK'
    BY <1>0, <1>2, ImportsStay DEF Emulator_init
  <2>2. CallsOK'
    BY <1>0, <1>2, InitKeeps
  <2> QED BY <2>1, <2>2 DEF PyInv
<1>3. ASSUME NEW handler \in Handlers \cup {NULL},
             Emulator_init_no_file(handler)
      PROVE  PyInv'
  <2>1. ImportsOK'
    BY <1>0, <1>3, ImportsStay DEF Emulator_init_no_file, InPython
  <2>2. emu' \in [executable : Files \cup {NULL}, vm : Vms \cup {NULL},
                  trace_handler : Handlers \cup {NULL}]
    BY <1>0, <1>3 DEF Emulator_init_no_file, Fields, CallsOK, CallTypes
  <2>3. CallsOK'
    BY <1>0, <1>3, <2>2, FieldsKeep DEF Emulator_init_no_file
  <2> QED BY <2>1, <2>3 DEF PyInv
<1>4. ASSUME NEW file \in Files, NEW handler \in Handlers \cup {NULL},
             Emulator_members(file, handler)
      PROVE  PyInv'
  <2>1. ImportsOK'
    BY <1>0, <1>4, ImportsStay DEF Emulator_members
  <2>2. emu' \in [executable : Files \cup {NULL}, vm : Vms \cup {NULL},
                  trace_handler : Handlers \cup {NULL}]
    BY <1>0, <1>4 DEF Emulator_members, CallsOK, CallTypes
  <2>3. CallsOK'
    BY <1>0, <1>4, <2>2, FieldsKeep DEF Emulator_members
  <2> QED BY <2>1, <2>3 DEF PyInv
<1>5. CASE Emulator_execute
  <2>1. UNCHANGED importVars /\ status = "running"
        /\ (status' = status \/ status' = "crashed")
    BY <1>5 DEF Emulator_execute, InPython
  <2>2. ImportsOK'
    BY <1>0, <2>1, ImportsStay
  <2> QED BY <1>0, <1>5, <2>2, ExecuteKeeps DEF PyInv
<1>6. CASE Emulator_dealloc
  <2>1. ImportsOK'
    BY <1>0, <1>6, ImportsStay DEF Emulator_dealloc, InPython
  <2>2. CallsOK'
    BY <1>0, <1>6, FieldsKeep DEF Emulator_dealloc, CallsOK, CallTypes
  <2> QED BY <2>1, <2>2 DEF PyInv
<1>7. CASE CallbackReturns \/ CallbackRaises \/ Body
  <2>1. UNCHANGED <<status, importVars>>
    BY <1>7 DEF CallbackReturns, CallbackRaises, Body
  <2>2. CallsOK'
    BY <1>0, <1>7, CallbackKeeps, BodyKeeps
  <2> QED BY <1>0, <2>1, <2>2, ImportsStay DEF PyInv
<1>8. CASE vm_trace_compat
  <2>1. UNCHANGED importVars /\ status = "running"
        /\ (status' = status \/ status' = "crashed")
    BY <1>8 DEF vm_trace_compat, InC
  <2>2. ImportsOK'
    BY <1>0, <2>1, ImportsStay
  <2> QED BY <1>0, <1>8, <2>2, TraceKeeps DEF PyInv
<1>9. CASE Halt \/ do_bad_op
  <2>1. UNCHANGED <<status, importVars>>
    BY <1>9 DEF Halt, do_bad_op
  <2> QED BY <1>0, <1>9, <2>1, ImportsStay, EndKeeps DEF PyInv
<1>10. CASE UNCHANGED vars
  <2>1. UNCHANGED <<status, importVars, emu, vms, stack, pending, decoded>>
    BY <1>10 DEF vars
  <2>2. CallsOK'
    BY <1>0, <2>1, FieldsKeep DEF CallsOK, CallTypes
  <2> QED BY <1>0, <2>1, <2>2, ImportsStay DEF PyInv
<1> QED BY <1>1, <1>2, <1>3, <1>4, <1>5, <1>6, <1>7, <1>8, <1>9, <1>10
     DEF PythonNext, PythonCode, Interpreter, Ended

THEOREM PythonInvariant == PythonSpec => []PyInv
BY PythonInitInv, PythonStepInv, PTL DEF PythonSpec

-----------------------------------------------------------------------------
(***************************************************************************)
(* The variables keep their types: in particular no reference count of a   *)
(* type object goes below zero, however the import fails.                  *)
(***************************************************************************)
THEOREM PythonTypeCorrect == PythonSpec => []PythonTypeOK
<1>1. PyInv => PythonTypeOK
  BY DEF PyInv, ImportsOK, CallsOK, CallTypes, PythonTypeOK
<1> QED BY <1>1, PythonInvariant, PTL

(***************************************************************************)
(* However deep callbacks execute and initialise the emulator, the machine *)
(* of every active sigma16_vm_exec stays allocated and mapped.             *)
(***************************************************************************)
THEOREM RunningMachineStays == PythonSpec => []RunningVmReady
<1>1. PyInv => RunningVmReady
  <2>1. SUFFICES ASSUME PyInv, NEW k \in DOMAIN stack
                 PROVE  vms[stack[k].vm].state = "ready"
    BY DEF RunningVmReady
  <2>2. k \in 1..Len(stack)
    BY <2>1 DEF PyInv, CallsOK, CallTypes
  <2> QED BY <2>1, <2>2 DEF PyInv, CallsOK, Ready
<1> QED BY <1>1, PythonInvariant, PTL

(***************************************************************************)
(* The instruction that executes after a callback is the one it was shown, *)
(* unless the callback ran the same machine: the exact condition under     *)
(* which the README's promise holds.                                       *)
(***************************************************************************)
THEOREM ShownInstructionStays == PythonSpec => []ShownUnlessRanAgain
<1>1. PyInv => ShownUnlessRanAgain
  <2>1. SUFFICES ASSUME PyInv, NEW k \in DOMAIN stack,
                        stack[k].at # "dispatch", ~stack[k].ran
                 PROVE  vms[stack[k].vm].ir = stack[k].inst
    BY DEF ShownUnlessRanAgain
  <2>2. k \in 1..Len(stack)
    BY <2>1 DEF PyInv, CallsOK, CallTypes
  <2> QED BY <2>1, <2>2 DEF PyInv, CallsOK, Shown
<1> QED BY <1>1, PythonInvariant, PTL

(***************************************************************************)
(* An exception that is set has its cause in an execution still active:    *)
(* vm_trace_compat drops the result of the callback, and no exception gets *)
(* out of the execution it belongs to.                                     *)
(***************************************************************************)
THEOREM ExceptionsHaveCause == PythonSpec => []PendingHasCause
<1>1. PyInv => PendingHasCause
  <2>1. SUFFICES ASSUME PyInv, pending
                 PROVE  \E k \in DOMAIN stack : stack[k].raised
    BY DEF PendingHasCause
  <2>2. PICK k \in 1..Len(stack) : stack[k].raised
    BY <2>1 DEF PyInv, CallsOK, Cause
  <2>3. k \in DOMAIN stack
    BY <2>1, <2>2 DEF PyInv, CallsOK, CallTypes
  <2> QED BY <2>2, <2>3
<1> QED BY <1>1, PythonInvariant, PTL

(***************************************************************************)
(* PyInit_sigma16 counts the references of the static type objects right,  *)
(* wherever it fails, but for Emulator, which it releases twice.           *)
(***************************************************************************)
THEOREM TypesAreCounted == PythonSpec => []TypesCounted
<1>1. PyInv => TypesCounted
  BY DEF PyInv, ImportsOK
<1> QED BY <1>1, PythonInvariant, PTL
=============================================================================
