--------------------------- MODULE EventLoopProofs ---------------------------
(***************************************************************************)
(* Proof that no event and no handle reaches a registration it was not     *)
(* made for, and that the kernel's set is exactly the active records, for  *)
(* every number of descriptors, slots, events and loops.  Neither is       *)
(* inductive by itself.  A stale token must not be issued again, so every  *)
(* token in a handle or in the batch is at most the serial of its loop     *)
(* (HandlesSound, BatchSound) and every handle's loop is one already       *)
(* created; the slot a registration takes must be inactive, so the free    *)
(* chain holds each slot once and only vacant ones (FreeSound); and a      *)
(* change in the kernel must hit one record only, so active records have   *)
(* different descriptor numbers (RecordsSound).                            *)
(***************************************************************************)
EXTENDS EventLoop, FiniteSetTheorems, SequenceTheorems, TLAPS

Slot == 1 .. RegistrationCapacity
Descriptors == (Fds \cup {0}) \X Nat
Tokens == Nat \X Nat
Records == [active : BOOLEAN, fd : Descriptors, interests : SUBSET Interests, token : Tokens]
Handles == [id : Nat, token : Tokens, fd : Descriptors]
Entries == [token : Tokens, events : SUBSET (Events \cup {"READ"}), fd : Descriptors]

Loops == [held : SUBSET Range(Resources), id : Nat, records : {<<>>} \cup [Slot -> Records],
          free : Seq(Slot), serial : 0 .. SERIAL_MAX, running : BOOLEAN, stop : BOOLEAN]

\* The state has its types, serials and identities stay within their limits, and
\* without a loop nothing is left of it.
TypeOK ==
    /\ loop \in Loops
    /\ IF Alive THEN loop.records \in [Slot -> Records] /\ loop.id > 0 ELSE loop = NoLoop
    /\ identity \in 0 .. IdMax /\ loop.id <= identity
    /\ uses \in [Fds -> Nat]
    /\ handles \subseteq Handles /\ batch \in Seq(Entries)
    /\ pc \in {"idle", "check", "wait", "scan", "dispatch", "callback"}
    /\ loop.running <=> pc # "idle"
    /\ pc = "idle" => batch = <<>>

Active(i) == loop.records[i].active
Entry(i) == [fd |-> loop.records[i].fd, interests |-> loop.records[i].interests,
             token |-> loop.records[i].token]

\* An active record carries a token of its slot that was issued, and no other
\* active record has its descriptor number.
RecordsSound ==
    /\ \A i \in Slot : Active(i) =>
         loop.records[i].token[2] = i /\ loop.records[i].token[1] \in 1 .. loop.serial
    /\ \A i, j \in Slot : Active(i) /\ Active(j) /\ loop.records[i].fd[1] = loop.records[j].fd[1] => i = j

\* The free chain holds a slot at most once, and only vacant ones.
FreeSound ==
    /\ \A a, b \in 1 .. Len(loop.free) : loop.free[a] = loop.free[b] => a = b
    /\ \A a \in 1 .. Len(loop.free) : ~Active(loop.free[a])

\* A token leads to the descriptor fd, or to nothing any more.
Leads(token, fd) ==
    Active(token[2]) /\ loop.records[token[2]].token = token => loop.records[token[2]].fd = fd

\* Handles are of loops that exist or existed, and lead to their own registration.
HandlesSound ==
    \A h \in handles :
        /\ h.id \in 1 .. identity /\ h.token[1] > 0 /\ h.token[2] \in Slot
        /\ Alive /\ h.id = loop.id => h.token[1] <= loop.serial /\ Leads(h.token, h.fd)

\* So do the events of the batch.
BatchSound ==
    \A a \in 1 .. Len(batch) : batch[a].token # NoToken =>
        /\ batch[a].token[2] \in Slot /\ batch[a].token[1] <= loop.serial
        /\ Leads(batch[a].token, batch[a].fd)

\* The inductive invariant.
IInv ==
    /\ TypeOK /\ HandlesSound /\ NoStaleUse /\ KernelAgrees
    /\ Alive => RecordsSound /\ FreeSound /\ BatchSound

-----------------------------------------------------------------------------
\* A creation that fails at any step gives everything back.
LEMMA RollsBack == ASSUME NEW n \in 1 .. Len(Resources) PROVE RolledBack(n) = {}
<1>1. Len(Resources) = 8
  BY DEF Resources
<1>2. n = 1 \/ n = 2 \/ n = 3 \/ n = 4 \/ n = 5 \/ n = 6 \/ n = 7 \/ n = 8
  BY <1>1
<1> QED BY <1>2 DEF RolledBack, EpollCreate, release_resources, Resources

\* A loop that was created holds its resources.
LEMMA Created == Range(Resources) # {}
<1>1. Resources[1] \in Range(Resources)
  BY DEF Range, Resources
<1> QED BY <1>1

\* No loop is of the type of loops.
LEMMA NothingTyped == NoLoop \in Loops
<1>1. <<>> \in Seq(Slot)
  OBVIOUS
<1> QED BY BoundsAssumption, <1>1 DEF NoLoop, Loops

\* The parts of a state with its types.
LEMMA Typed ==
    ASSUME TypeOK
    PROVE  /\ loop.id \in Nat /\ loop.serial \in Nat /\ identity \in Nat
           /\ loop.free \in Seq(Slot) /\ Len(loop.free) \in Nat /\ Len(batch) \in Nat
           /\ \A h \in handles : h.id \in Nat /\ h.token \in Tokens /\ h.token[1] \in Nat
           /\ \A a \in 1 .. Len(batch) :
                batch[a] \in Entries /\ batch[a].token \in Tokens /\ batch[a].token[1] \in Nat
           /\ Alive => \A i \in Slot : /\ loop.records[i] \in Records
                                       /\ loop.records[i].token \in Tokens
                                       /\ loop.records[i].token[1] \in Nat
<1>1. loop.id \in Nat /\ loop.serial \in Nat /\ identity \in Nat /\ loop.free \in Seq(Slot)
  BY BoundsAssumption DEF TypeOK, Loops
<1>2. Len(loop.free) \in Nat /\ Len(batch) \in Nat
  BY <1>1, LenProperties DEF TypeOK
<1>3. \A t \in Tokens : t[1] \in Nat
  BY DEF Tokens
<1>4. \A h \in handles : h.id \in Nat /\ h.token \in Tokens
  BY DEF TypeOK, Handles
<1>5. \A a \in 1 .. Len(batch) : batch[a] \in Entries
  BY <1>2, ElementOfSeq DEF TypeOK
<1>6. \A e \in Entries : e.token \in Tokens
  BY DEF Entries
<1>7. Alive => \A i \in Slot : loop.records[i] \in Records
  BY DEF TypeOK
<1>8. \A r \in Records : r.token \in Tokens
  BY DEF Records
<1> QED BY <1>1, <1>2, <1>3, <1>4, <1>5, <1>6, <1>7, <1>8

\* The kernel's set, entry by entry.
LEMMA KernelEntries ==
    ASSUME KernelAgrees, Alive
    PROVE  \A k : k \in kernel <=> \E i \in Slot : Active(i) /\ k = Entry(i)
BY DEF KernelAgrees, Active, Entry, Slot

\* A step that leaves records, kernel and handles alone and takes nothing new into
\* the batch.
LEMMA Frame ==
    ASSUME IInv, TypeOK', own', UNCHANGED <<kernel, handles, identity>>,
           loop'.held = loop.held, loop'.id = loop.id, loop'.records = loop.records,
           loop'.free = loop.free, loop'.serial = loop.serial,
           \A a \in 1 .. Len(batch') : \E b \in 1 .. Len(batch) : batch'[a] = batch[b]
    PROVE  IInv'
<1>1. Alive' <=> Alive
  BY DEF Alive
<1>2. /\ \A i : Active(i)' <=> Active(i)
      /\ \A token, fd : Leads(token, fd)' <=> Leads(token, fd)
  BY DEF Active, Leads
<1>3. HandlesSound'
  BY <1>1, <1>2 DEF IInv, HandlesSound
<1>4. Alive' => RecordsSound' /\ FreeSound'
  BY <1>1, <1>2 DEF IInv, RecordsSound, FreeSound
<1>5. KernelAgrees'
  BY <1>1 DEF IInv, KernelAgrees
<1>6. Alive' => BatchSound'
  BY <1>1, <1>2 DEF IInv, BatchSound
<1> QED BY <1>3, <1>4, <1>5, <1>6 DEF IInv, NoStaleUse

\* The first state.
LEMMA AtFirst == ASSUME Init PROVE IInv
<1>1. ~Alive /\ loop.records = <<>>
  BY DEF Init, Alive, NoLoop
<1>2. TypeOK
  BY BoundsAssumption, <1>1, NothingTyped DEF Init, TypeOK, NoLoop, Handles, Entries
<1> QED BY <1>1, <1>2 DEF Init, IInv, HandlesSound, NoStaleUse, KernelAgrees

\* Creating a loop: no handle is of the new loop yet.
LEMMA CreateStep == ASSUME IInv, Create PROVE IInv'
<1>1. ~Alive /\ loop = NoLoop /\ kernel = {} /\ batch = <<>> /\ pc = "idle"
  BY DEF IInv, TypeOK, KernelAgrees, Create
<1>2. UNCHANGED <<uses, pc, batch, handles, own>>
  BY DEF Create
<1>3. CASE UNCHANGED <<loop, identity, kernel>>
  <2>1. TypeOK'
    BY <1>2, <1>3 DEF IInv, TypeOK, Alive
  <2> QED BY <1>2, <1>3, <2>1, Frame DEF IInv, NoStaleUse
<1>4. CASE identity' = identity + 1 /\ kernel' = kernel /\ identity # IdMax
           /\ \E n \in 1 .. Len(Resources) : loop' = [NoLoop EXCEPT !.held = RolledBack(n)]
  <2>1. loop' = NoLoop
    BY <1>4, RollsBack DEF NoLoop
  <2>2. identity' \in 0 .. IdMax
    BY BoundsAssumption, <1>4 DEF IInv, TypeOK
  <2>3. ~Alive'
    BY <2>1 DEF Alive, NoLoop
  <2>4. TypeOK'
    BY <1>1, <1>2, <2>1, <2>2, <2>3, NothingTyped DEF IInv, TypeOK, NoLoop
  <2>5. HandlesSound'
    BY <1>2, <1>4, <2>2, <2>3 DEF IInv, TypeOK, HandlesSound
  <2> QED BY <1>1, <1>2, <1>4, <2>3, <2>4, <2>5 DEF IInv, NoStaleUse, KernelAgrees
<1>5. CASE /\ identity' = identity + 1 /\ kernel' = {} /\ identity # IdMax
           /\ loop' = [NoLoop EXCEPT !.held = Range(Resources), !.id = identity',
                                     !.records = [i \in 1..RegistrationCapacity |-> Vacant],
                                     !.free = [i \in 1..RegistrationCapacity |-> i]]
  <2>1. /\ Alive' /\ loop'.id = identity + 1 /\ loop'.serial = 0 /\ ~loop'.running
        /\ loop'.records = [i \in Slot |-> Vacant] /\ loop'.free = [i \in Slot |-> i]
    BY <1>5, Created DEF NoLoop, Alive, Slot
  <2>2. identity' \in 0 .. IdMax
    BY BoundsAssumption, <1>5 DEF IInv, TypeOK
  <2>3. /\ loop'.records \in [Slot -> Records] /\ loop'.free \in Seq(Slot)
        /\ Len(loop'.free) = RegistrationCapacity
    BY BoundsAssumption, <2>1 DEF Vacant, Records, Descriptors, Tokens, NoToken, Slot
  <2>4. TypeOK'
    <3>1. loop'.id \in Nat /\ loop'.id <= identity' /\ loop'.id > 0
      BY <1>5, <2>1 DEF IInv, TypeOK
    <3>2. loop' \in Loops
      <4>1. PICK R \in [Slot -> Records], F \in Seq(Slot), N \in Nat :
              R = loop'.records /\ F = loop'.free /\ N = loop'.id
        BY <2>3, <3>1
      <4>2. loop' = [held |-> Range(Resources), id |-> N, records |-> R, free |-> F,
                     serial |-> 0, running |-> FALSE, stop |-> FALSE]
        BY <1>5, <4>1 DEF NoLoop
      <4>3. 0 \in 0 .. SERIAL_MAX
        BY BoundsAssumption
      <4> QED BY <4>2, <4>3 DEF Loops
    <3> QED BY <1>1, <1>2, <2>1, <2>2, <2>3, <3>1, <3>2 DEF IInv, TypeOK
  <2>5. \A i \in Slot : ~Active(i)'
    BY <2>1 DEF Active, Vacant
  <2>6. RecordsSound' /\ FreeSound'
    BY <2>1, <2>3, <2>5 DEF RecordsSound, FreeSound, Slot
  <2>7. BatchSound'
    BY <1>1, <1>2 DEF BatchSound
  <2>8. KernelAgrees'
    BY <1>5, <2>1, <2>5 DEF KernelAgrees, Active, Slot
  <2>9. HandlesSound'
    BY <1>2, <1>5, <2>1, <2>2 DEF IInv, TypeOK, HandlesSound
  <2> QED BY <1>2, <2>4, <2>6, <2>7, <2>8, <2>9 DEF IInv, NoStaleUse
<1> QED BY <1>3, <1>4, <1>5, <1>1 DEF Create, claim_identity

\* Destroying it: its handles stay behind and lead nowhere.
LEMMA DestroyStep == ASSUME IInv, Destroy PROVE IInv'
<1>1. UNCHANGED <<identity, uses, pc, batch, handles, own>>
  BY DEF Destroy
<1>2. CASE UNCHANGED <<loop, kernel>>
  <2>1. TypeOK'
    BY <1>1, <1>2 DEF IInv, TypeOK, Alive
  <2> QED BY <1>1, <1>2, <2>1, Frame DEF IInv, NoStaleUse
<1>3. CASE ~loop.running /\ loop' = [NoLoop EXCEPT !.held = release_resources(loop.held)] /\ kernel' = {}
  <2>1. loop' = NoLoop /\ ~Alive'
    BY <1>3 DEF NoLoop, Alive, release_resources
  <2>0. pc = "idle" /\ batch = <<>>
    BY <1>3 DEF IInv, TypeOK
  <2>2. TypeOK'
    BY BoundsAssumption, <1>1, <2>0, <2>1, NothingTyped DEF IInv, TypeOK, NoLoop
  <2>3. HandlesSound'
    BY <1>1, <2>1 DEF IInv, HandlesSound
  <2> QED BY <1>1, <1>3, <2>1, <2>2, <2>3 DEF IInv, NoStaleUse, KernelAgrees
<1> QED BY <1>2, <1>3 DEF Destroy

\* Adding a registration: the slot was vacant, the token is new, and nobody else has
\* the descriptor's number.
LEMMA Registers ==
    ASSUME IInv, Alive, NEW fd \in Descriptors, NEW interests \in SUBSET Interests,
           NEW index, loop.free # <<>>, index = Head(loop.free), NEW token,
           token = <<loop.serial + 1, index>>, loop.serial + 1 <= SERIAL_MAX,
           \A i \in Slot : Active(i) => loop.records[i].fd[1] # fd[1],
           loop' = [loop EXCEPT !.serial = @ + 1, !.free = Tail(@),
                                !.records[index] = Record(fd, interests, token)],
           epoll_add(fd, interests, token),
           handles' = handles \cup {[id |-> loop.id, token |-> token, fd |-> fd]},
           UNCHANGED <<identity, uses, pc, batch, own>>
    PROVE  IInv'
<1>0. /\ loop.free \in Seq(Slot) /\ loop.records \in [Slot -> Records] /\ loop.serial \in Nat
      /\ RecordsSound /\ FreeSound /\ BatchSound
  BY Typed DEF IInv, TypeOK
<1>1. /\ index \in Slot /\ index = loop.free[1] /\ Tail(loop.free) \in Seq(Slot)
      /\ Len(loop.free) \in Nat \ {0} /\ Len(Tail(loop.free)) = Len(loop.free) - 1
      /\ \A a \in 1 .. Len(Tail(loop.free)) : Tail(loop.free)[a] = loop.free[a + 1]
  BY <1>0, HeadTailProperties, LenProperties
<1>2. /\ ~Active(index)
      /\ \A a \in 1 .. Len(Tail(loop.free)) : a + 1 \in 1 .. Len(loop.free) /\ Tail(loop.free)[a] # index
  BY <1>0, <1>1 DEF FreeSound
<1>3. token \in Tokens /\ token[1] = loop.serial + 1 /\ token[2] = index
  BY BoundsAssumption, <1>0, <1>1 DEF Tokens, Slot
<1>4. /\ Record(fd, interests, token) \in Records
      /\ [id |-> loop.id, token |-> token, fd |-> fd] \in Handles
  BY <1>3, Typed DEF IInv, Records, Record, Handles
<1>5. /\ loop'.id = loop.id /\ loop'.free = Tail(loop.free)
      /\ loop'.serial = loop.serial + 1 /\ loop'.running = loop.running /\ loop'.held = loop.held
      /\ loop'.records = [loop.records EXCEPT ![index] = Record(fd, interests, token)]
  BY DEF IInv, TypeOK, Loops
<1>6. Alive'
  BY <1>5 DEF Alive
<1>7. loop'.records \in [Slot -> Records]
  BY <1>0, <1>4, <1>5
<1>8. TypeOK'
  <2>1. loop' \in Loops
    <3>1. loop' = [held |-> loop.held, id |-> loop.id, records |-> loop'.records,
                   free |-> Tail(loop.free), serial |-> loop.serial + 1,
                   running |-> loop.running, stop |-> loop.stop]
      BY DEF IInv, TypeOK, Loops
    <3>2. /\ loop.held \in SUBSET Range(Resources) /\ loop.id \in Nat
          /\ loop.running \in BOOLEAN /\ loop.stop \in BOOLEAN
      BY DEF IInv, TypeOK, Loops
    <3>3. loop.serial + 1 \in 0 .. SERIAL_MAX
      BY <1>0
    <3>4. Tail(loop.free) \in Seq(Slot)
      BY <1>1
    <3> QED BY <1>7, <3>1, <3>2, <3>3, <3>4 DEF Loops
  <2>2. handles' \subseteq Handles
    BY <1>4 DEF IInv, TypeOK
  <2> QED BY <1>5, <1>6, <1>7, <2>1, <2>2 DEF IInv, TypeOK
<1>9. /\ \A i \in Slot : i # index => (Active(i)' <=> Active(i)) /\ loop'.records[i] = loop.records[i]
      /\ loop'.records[index] = Record(fd, interests, token)
  BY <1>0, <1>1, <1>5 DEF Active
<1>10. /\ Active(index)' /\ loop'.records[index].token = token /\ loop'.records[index].fd = fd
       /\ loop'.records[index].interests = interests
  BY <1>9 DEF Active, Record
<1>11. RecordsSound'
  <2>1. \A i \in Slot : loop.records[i].token[1] \in Nat
    BY Typed DEF IInv
  <2>2. ASSUME NEW i \in Slot, Active(i)'
        PROVE  loop'.records[i].token[2] = i /\ loop'.records[i].token[1] \in 1 .. loop'.serial
    <3>1. CASE i = index
      BY <1>0, <1>3, <1>5, <1>10, <3>1
    <3>2. CASE i # index
      BY <1>0, <1>5, <1>9, <2>1, <2>2, <3>2 DEF RecordsSound
    <3> QED BY <3>1, <3>2
  <2>3. ASSUME NEW i \in Slot, NEW j \in Slot, Active(i)', Active(j)',
               loop'.records[i].fd[1] = loop'.records[j].fd[1]
        PROVE  i = j
    BY <1>0, <1>9, <1>10, <2>3 DEF RecordsSound
  <2> QED BY <2>2, <2>3 DEF RecordsSound
<1>12. FreeSound'
  <2>1. \A a \in 1 .. Len(Tail(loop.free)) : Tail(loop.free)[a] \in Slot
    BY <1>1, ElementOfSeq
  <2>2. ASSUME NEW a \in 1 .. Len(loop'.free), NEW b \in 1 .. Len(loop'.free), loop'.free[a] = loop'.free[b]
        PROVE  a = b
    <3>1. a \in Nat /\ b \in Nat /\ a + 1 = b + 1
      BY <1>0, <1>1, <1>2, <1>5, <2>2 DEF FreeSound
    <3> QED BY <3>1
  <2>3. ASSUME NEW a \in 1 .. Len(loop'.free) PROVE ~loop'.records[loop'.free[a]].active
    <3>1. /\ loop'.free[a] \in Slot /\ loop'.free[a] # index
          /\ a + 1 \in 1 .. Len(loop.free) /\ loop'.free[a] = loop.free[a + 1]
      BY <1>1, <1>2, <1>5, <2>1
    <3>2. ~Active(loop.free[a + 1])
      BY <1>0, <3>1 DEF FreeSound
    <3> QED BY <1>9, <3>1, <3>2 DEF Active
  <2> QED BY <2>2, <2>3 DEF FreeSound, Active
<1>13. \A t \in Tokens : \A f : t[2] \in Slot /\ t[1] <= loop.serial /\ Leads(t, f) => Leads(t, f)'
  <2>1. \A t \in Tokens : t[1] \in Nat
    BY DEF Tokens
  <2> QED BY <1>0, <1>3, <1>9, <1>10, <2>1 DEF Leads
<1>14. HandlesSound'
  <2>1. ASSUME NEW h \in handles
        PROVE  /\ h.id \in 1 .. identity' /\ h.token[1] > 0 /\ h.token[2] \in Slot
               /\ h.id = loop'.id => h.token[1] <= loop'.serial /\ Leads(h.token, h.fd)'
    BY <1>0, <1>5, <1>13, Typed DEF IInv, HandlesSound
  <2> DEFINE new == [id |-> loop.id, token |-> token, fd |-> fd]
  <2>2. loop.id \in 1 .. identity'
    BY Typed DEF IInv, TypeOK
  <2>3. Leads(token, fd)'
    BY <1>3, <1>10 DEF Leads
  <2>4. /\ new.id \in 1 .. identity' /\ new.token[1] > 0 /\ new.token[2] \in Slot
        /\ new.token[1] <= loop'.serial /\ Leads(new.token, new.fd)'
    BY <1>0, <1>1, <1>3, <1>5, <2>2, <2>3
  <2> QED BY <2>1, <2>4 DEF HandlesSound
<1>15. BatchSound'
  BY <1>0, <1>5, <1>13, Typed DEF IInv, BatchSound
<1>16. KernelAgrees'
  <2>1. \A k : k \in kernel <=> \E i \in Slot : Active(i) /\ k = Entry(i)
    BY KernelEntries DEF IInv
  <2>2. /\ \A i \in Slot : i # index => Entry(i)' = Entry(i)
        /\ Entry(index)' = [fd |-> fd, interests |-> interests, token |-> token]
    BY <1>9, <1>10 DEF Entry
  <2>3. \A k : k \in kernel' <=> \E i \in Slot : Active(i)' /\ k = Entry(i)'
    BY <1>1, <1>2, <1>9, <1>10, <2>1, <2>2 DEF epoll_add
  <2> QED BY <1>6, <2>3 DEF KernelAgrees, Active, Entry, Slot
<1> QED BY <1>8, <1>11, <1>12, <1>14, <1>15, <1>16 DEF IInv, NoStaleUse

\* Adding a registration, refused, failed or done.
LEMMA AddStep ==
    ASSUME IInv, NEW n \in Fds, NEW interests \in SUBSET Interests, Add(n, interests)
    PROVE  IInv'
<1> DEFINE fd == <<n, uses[n]>>
           index == Head(loop.free)
           token == <<loop.serial + 1, index>>
<1>0. Alive /\ UNCHANGED <<identity, uses, pc, batch, own>>
  BY DEF Add, Callable
<1>1. CASE UNCHANGED <<loop, kernel, handles>>
  <2>1. TypeOK'
    BY <1>0, <1>1 DEF IInv, TypeOK, Alive
  <2> QED BY <1>0, <1>1, <2>1, Frame DEF IInv, NoStaleUse
<1>2. ASSUME AddResult(fd) = "OK"
      PROVE  /\ loop.serial + 1 \in 0 .. SERIAL_MAX /\ loop.free # <<>>
             /\ \A i \in Slot : Active(i) => loop.records[i].fd[1] # fd[1]
  BY BoundsAssumption, <1>2 DEF IInv, TypeOK, Loops, AddResult, Slot, Active
<1>3. CASE AddResult(fd) = "OK" /\ loop' = [loop EXCEPT !.serial = @ + 1] /\ UNCHANGED <<kernel, handles>>
  <2>1. /\ loop'.id = loop.id /\ loop'.records = loop.records /\ loop'.free = loop.free
        /\ loop'.serial = loop.serial + 1 /\ loop'.running = loop.running /\ loop'.held = loop.held
    BY <1>3 DEF IInv, TypeOK, Loops
  <2>2. Alive'
    BY <1>0, <2>1 DEF Alive
  <2>3. TypeOK'
    <3>1. loop' \in Loops
      BY <1>2, <1>3 DEF IInv, TypeOK, Loops
    <3> QED BY <1>0, <1>3, <2>1, <2>2, <3>1 DEF IInv, TypeOK
  <2>4. /\ \A i : Active(i)' <=> Active(i)
        /\ \A tk, f : Leads(tk, f)' <=> Leads(tk, f)
    BY <2>1 DEF Active, Leads
  <2>5. HandlesSound'
    BY <1>0, <1>3, <2>1, <2>4, Typed DEF IInv, HandlesSound
  <2>6. RecordsSound' /\ FreeSound'
    <3>1. RecordsSound'
      BY <1>0, <2>1, <2>4, Typed DEF IInv, RecordsSound
    <3>2. FreeSound'
      BY <1>0, <2>1, <2>4 DEF IInv, FreeSound
    <3> QED BY <3>1, <3>2
  <2>7. BatchSound'
    BY <1>0, <2>1, <2>4, Typed DEF IInv, BatchSound
  <2>8. KernelAgrees'
    BY <1>0, <1>3, <2>1, <2>2 DEF IInv, KernelAgrees
  <2> QED BY <1>0, <2>3, <2>5, <2>6, <2>7, <2>8 DEF IInv, NoStaleUse
<1>4. CASE /\ AddResult(fd) = "OK"
           /\ loop' = [loop EXCEPT !.serial = @ + 1, !.free = Tail(@),
                                   !.records[index] = Record(fd, interests, token)]
           /\ epoll_add(fd, interests, token)
           /\ handles' = handles \cup {[id |-> loop.id, token |-> token, fd |-> fd]}
  <2>1. fd \in Descriptors
    BY DEF IInv, TypeOK, Descriptors
  <2>2. PICK f, ix, tk : f = fd /\ ix = index /\ tk = token
    OBVIOUS
  <2>3. /\ f \in Descriptors /\ ix = Head(loop.free) /\ tk = <<loop.serial + 1, ix>>
        /\ loop.free # <<>> /\ loop.serial + 1 <= SERIAL_MAX
        /\ \A i \in Slot : Active(i) => loop.records[i].fd[1] # f[1]
    BY <1>2, <1>4, <2>1, <2>2
  <2>4. /\ loop' = [loop EXCEPT !.serial = @ + 1, !.free = Tail(@),
                                !.records[ix] = Record(f, interests, tk)]
        /\ epoll_add(f, interests, tk)
        /\ handles' = handles \cup {[id |-> loop.id, token |-> tk, fd |-> f]}
    BY <1>4, <2>2
  <2> QED BY <1>0, <2>3, <2>4, Registers
<1> QED BY <1>0, <1>1, <1>3, <1>4 DEF Add

\* A handle that find_registration accepts is of this loop and its record's token.
LEMMA Found ==
    ASSUME IInv, Alive, NEW h \in handles, find_registration(Key(h)) = "OK"
    PROVE  /\ h.token[2] \in Slot /\ Active(h.token[2])
           /\ loop.records[h.token[2]].token = h.token /\ loop.records[h.token[2]].fd = h.fd
<1>1. h.token[2] \in Slot
  BY DEF IInv, HandlesSound
<1>2. /\ h.id = loop.id
      /\ loop.records[h.token[2]].active /\ loop.records[h.token[2]].token = h.token
  BY DEF find_registration, Key
<1> QED BY <1>1, <1>2 DEF IInv, HandlesSound, Leads, Active

\* Changing the interests of a registration changes its own kernel entry and no other.
LEMMA ModStep ==
    ASSUME IInv, NEW h \in handles, NEW interests \in SUBSET Interests, Mod(h, interests)
    PROVE  IInv'
<1>0. Alive /\ UNCHANGED <<identity, uses, pc, batch, handles>>
  BY DEF Mod, Callable
<1>1. CASE UNCHANGED <<loop, kernel, own>>
  <2>1. TypeOK'
    BY <1>0, <1>1 DEF IInv, TypeOK, Alive
  <2> QED BY <1>0, <1>1, <2>1, Frame DEF IInv, NoStaleUse
<1>2. ASSUME find_registration(Key(h)) = "OK", Reached(h)
      PROVE  own'
  BY <1>0, <1>2, Found DEF Reached
<1>3. CASE find_registration(Key(h)) = "OK" /\ Reached(h) /\ UNCHANGED <<loop, kernel>>
  <2>1. TypeOK'
    BY <1>0, <1>3 DEF IInv, TypeOK, Alive
  <2> QED BY <1>0, <1>2, <1>3, <2>1, Frame DEF IInv, NoStaleUse
<1>4. CASE /\ find_registration(Key(h)) = "OK" /\ Reached(h)
           /\ epoll_mod(loop.records[h.token[2]].fd, interests)
           /\ loop' = [loop EXCEPT !.records[h.token[2]].interests = interests]
  <2>0. PICK slot \in Slot : slot = h.token[2] /\ Active(slot)
    BY <1>0, <1>4, Found
  <2>1. loop.records \in [Slot -> Records] /\ loop.records[slot] \in Records
    BY <1>0 DEF IInv, TypeOK
  <2>2. PICK rec \in Records : /\ rec = [loop.records[slot] EXCEPT !.interests = interests]
                               /\ rec.active = loop.records[slot].active
                               /\ rec.fd = loop.records[slot].fd /\ rec.token = loop.records[slot].token
                               /\ rec.interests = interests
    <3>1. [loop.records[slot] EXCEPT !.interests = interests] \in Records
      BY <2>1 DEF Records
    <3> QED BY <2>1, <3>1 DEF Records
  <2>3. /\ loop'.id = loop.id /\ loop'.free = loop.free
        /\ loop'.serial = loop.serial /\ loop'.running = loop.running /\ loop'.held = loop.held
        /\ loop'.records = [loop.records EXCEPT ![slot] = rec]
        /\ loop' = [loop EXCEPT !.records = loop'.records]
    BY <1>4, <2>0, <2>2 DEF IInv, TypeOK, Loops
  <2>4. Alive'
    BY <1>0, <2>3 DEF Alive
  <2>5. loop'.records \in [Slot -> Records]
    BY <2>1, <2>3
  <2>6. TypeOK'
    <3>1. loop' \in Loops
      BY <2>3, <2>5 DEF IInv, TypeOK, Loops
    <3> QED BY <1>0, <2>3, <2>4, <2>5, <3>1 DEF IInv, TypeOK
  <2>7. \A i \in Slot : /\ Active(i)' <=> Active(i)
                        /\ loop'.records[i].fd = loop.records[i].fd
                        /\ loop'.records[i].token = loop.records[i].token
                        /\ i # slot => loop'.records[i] = loop.records[i]
    BY <2>1, <2>2, <2>3 DEF Active
  <2>8. RecordsSound'
    BY <1>0, <2>3, <2>7 DEF IInv, RecordsSound
  <2>9. FreeSound'
    <3>1. \A a \in 1 .. Len(loop.free) : loop.free[a] \in Slot
      BY Typed, ElementOfSeq DEF IInv
    <3> QED BY <1>0, <2>3, <2>7, <3>1 DEF IInv, FreeSound
  <2>10. \A t, f : t[2] \in Slot => (Leads(t, f)' <=> Leads(t, f))
    BY <2>7 DEF Leads
  <2>11. HandlesSound'
    BY <1>0, <2>3, <2>10 DEF IInv, HandlesSound
  <2>12. BatchSound'
    BY <1>0, <2>3, <2>10 DEF IInv, BatchSound
  <2>13. KernelAgrees'
    <3>1. \A k : k \in kernel <=> \E i \in Slot : Active(i) /\ k = Entry(i)
      BY <1>0, KernelEntries DEF IInv
    <3>2. /\ \A i \in Slot : i # slot => Entry(i)' = Entry(i)
          /\ Entry(slot)' = [Entry(slot) EXCEPT !.interests = interests]
      BY <2>2, <2>3, <2>1, <2>7 DEF Entry
    <3>3. \A i \in Slot : Active(i) => (Entry(i).fd = loop.records[slot].fd <=> i = slot)
      BY <1>0, <2>0 DEF IInv, RecordsSound, Entry
    <3>4. \A k : k \in kernel' <=> \E i \in Slot : Active(i) /\ k = Entry(i)'
      BY <1>4, <2>0, <3>1, <3>2, <3>3 DEF epoll_mod
    <3> QED BY <2>4, <2>7, <3>4 DEF KernelAgrees, Active, Entry, Slot
  <2> QED BY <1>2, <1>4, <2>6, <2>8, <2>9, <2>11, <2>12, <2>13 DEF IInv, NoStaleUse
<1> QED BY <1>0, <1>1, <1>3, <1>4 DEF Mod

\* Removing a registration: its slot becomes vacant and goes to the head of the chain.
LEMMA DelStep ==
    ASSUME IInv, NEW h \in handles, NEW keepsCopy, Del(h, keepsCopy)
    PROVE  IInv'
<1>0. Alive /\ UNCHANGED <<identity, uses, pc, batch>>
  BY DEF Del, Callable
<1>1. CASE UNCHANGED <<loop, kernel, handles, own>>
  <2>1. TypeOK'
    BY <1>0, <1>1 DEF IInv, TypeOK, Alive
  <2> QED BY <1>0, <1>1, <2>1, Frame DEF IInv, NoStaleUse
<1>2. ASSUME find_registration(Key(h)) = "OK", Reached(h)
      PROVE  own'
  BY <1>0, <1>2, Found DEF Reached
<1>3. CASE find_registration(Key(h)) = "OK" /\ Reached(h) /\ UNCHANGED <<loop, kernel, handles>>
  <2>1. TypeOK'
    BY <1>0, <1>3 DEF IInv, TypeOK, Alive
  <2> QED BY <1>0, <1>2, <1>3, <2>1, Frame DEF IInv, NoStaleUse
<1>4. CASE /\ find_registration(Key(h)) = "OK" /\ Reached(h)
           /\ epoll_del(loop.records[h.token[2]].fd)
           /\ loop' = [loop EXCEPT !.records[h.token[2]] = Vacant, !.free = <<h.token[2]>> \o @]
           /\ handles' = IF keepsCopy THEN handles ELSE handles \ {h}
  <2>0. PICK slot \in Slot : slot = h.token[2] /\ Active(slot)
    BY <1>0, <1>4, Found
  <2>1. loop.records \in [Slot -> Records] /\ loop.free \in Seq(Slot) /\ Len(loop.free) \in Nat
    BY <1>0, Typed DEF IInv, TypeOK
  <2>2. Vacant \in Records /\ ~Vacant.active
    BY DEF Vacant, Records, Descriptors, Tokens, NoToken
  <2>3. /\ loop'.id = loop.id /\ loop'.free = <<slot>> \o loop.free
        /\ loop'.serial = loop.serial /\ loop'.running = loop.running /\ loop'.held = loop.held
        /\ loop'.records = [loop.records EXCEPT ![slot] = Vacant]
        /\ loop' = [loop EXCEPT !.records = loop'.records, !.free = loop'.free]
    BY <1>4, <2>0 DEF IInv, TypeOK, Loops
  <2>4. Alive' /\ handles' \subseteq handles
    BY <1>0, <1>4, <2>3 DEF Alive
  <2>5. loop'.records \in [Slot -> Records]
    BY <2>1, <2>2, <2>3
  <2>6. /\ loop'.free \in Seq(Slot) /\ Len(loop'.free) = Len(loop.free) + 1
        /\ loop'.free[1] = slot
        /\ \A a \in 2 .. Len(loop.free) + 1 : loop'.free[a] = loop.free[a - 1]
    <3>1. <<slot>> \in Seq(Slot) /\ Len(<<slot>>) = 1 /\ <<slot>>[1] = slot
      OBVIOUS
    <3> QED BY <2>1, <2>3, <3>1, ConcatProperties
  <2>7. TypeOK'
    <3>1. loop' \in Loops
      BY <2>3, <2>5, <2>6 DEF IInv, TypeOK, Loops
    <3> QED BY <1>0, <2>3, <2>4, <2>5, <3>1 DEF IInv, TypeOK
  <2>8. /\ \A i \in Slot : i # slot => (Active(i)' <=> Active(i)) /\ loop'.records[i] = loop.records[i]
        /\ ~Active(slot)'
    BY <2>1, <2>2, <2>3 DEF Active
  <2>9. RecordsSound'
    BY <1>0, <2>3, <2>8 DEF IInv, RecordsSound
  <2>10. FreeSound'
    <3>1. \A a \in 1 .. Len(loop.free) : /\ loop.free[a] \in Slot /\ loop.free[a] # slot
                                         /\ ~Active(loop.free[a])
      BY <1>0, <2>0, <2>1, ElementOfSeq DEF IInv, FreeSound
    <3>2. \A a \in 2 .. Len(loop.free) + 1 : a - 1 \in 1 .. Len(loop.free)
      BY <2>1
    <3>3. \A a \in 1 .. Len(loop'.free) : a = 1 \/ a \in 2 .. Len(loop.free) + 1
      BY <2>1, <2>6
    <3>4. ASSUME NEW a \in 1 .. Len(loop'.free), NEW b \in 1 .. Len(loop'.free), loop'.free[a] = loop'.free[b]
          PROVE  a = b
      <4>1. a = 1 <=> b = 1
        BY <2>6, <3>1, <3>2, <3>3, <3>4
      <4>2. a # 1 /\ b # 1 => a - 1 = b - 1
        BY <1>0, <2>6, <3>2, <3>3, <3>4 DEF IInv, FreeSound
      <4> QED BY <4>1, <4>2, <2>1, <2>6
    <3>5. ASSUME NEW a \in 1 .. Len(loop'.free) PROVE ~loop'.records[loop'.free[a]].active
      BY <2>6, <2>8, <3>1, <3>2, <3>3 DEF Active
    <3> QED BY <3>4, <3>5 DEF FreeSound, Active
  <2>11. \A t, f : t[2] \in Slot /\ Leads(t, f) => Leads(t, f)'
    BY <2>8 DEF Leads
  <2>12. HandlesSound'
    BY <1>0, <2>3, <2>4, <2>11 DEF IInv, HandlesSound
  <2>13. BatchSound'
    BY <1>0, <2>3, <2>11 DEF IInv, BatchSound
  <2>14. KernelAgrees'
    <3>1. \A k : k \in kernel <=> \E i \in Slot : Active(i) /\ k = Entry(i)
      BY <1>0, KernelEntries DEF IInv
    <3>2. \A i \in Slot : i # slot => Entry(i)' = Entry(i)
      BY <2>8 DEF Entry
    <3>3. \A i \in Slot : Active(i) => (Entry(i).fd = loop.records[slot].fd <=> i = slot)
      BY <1>0, <2>0 DEF IInv, RecordsSound, Entry
    <3>4. \A k : k \in kernel' <=> \E i \in Slot : Active(i)' /\ k = Entry(i)'
      BY <1>4, <2>0, <2>8, <3>1, <3>2, <3>3 DEF epoll_del
    <3> QED BY <2>4, <3>4 DEF KernelAgrees, Active, Entry, Slot
  <2> QED BY <1>2, <1>4, <2>7, <2>9, <2>10, <2>12, <2>13, <2>14 DEF IInv, NoStaleUse
<1> QED BY <1>0, <1>1, <1>3, <1>4 DEF Del

\* The thread starts, goes on or returns, another thread asks it to stop, a descriptor
\* is opened again: no registration is touched.
LEMMA QuietStep ==
    ASSUME IInv,
           \/ \E n \in Fds : Reopen(n)
           \/ \E m \in {"once", "run"} : Start(m)
           \/ Check \/ WaitFails \/ Scan \/ CallbackReturns \/ RoundEnds
           \/ RequestStop \/ WriteStopByte \/ StopAgain
    PROVE  IInv'
<1>1. UNCHANGED <<kernel, handles, identity, own>> /\ (batch' = batch \/ batch' = <<>>)
  BY DEF Reopen, Start, Check, WaitFails, Return, Scan, CallbackReturns, RoundEnds, RequestStop,
         WriteStopByte, StopAgain
<1>2. \/ loop' = loop \/ loop' = [loop EXCEPT !.running = TRUE]
      \/ loop' = [loop EXCEPT !.running = FALSE] \/ loop' = [loop EXCEPT !.stop = TRUE]
  BY DEF Reopen, Start, Check, WaitFails, Return, Scan, CallbackReturns, RoundEnds, RequestStop,
         WriteStopByte, StopAgain
<1>3. /\ loop'.held = loop.held /\ loop'.id = loop.id /\ loop'.records = loop.records
      /\ loop'.free = loop.free /\ loop'.serial = loop.serial /\ loop' \in Loops
  BY <1>2 DEF IInv, TypeOK, Loops
<1>4. uses' \in [Fds -> Nat]
  BY DEF IInv, TypeOK, Reopen, Start, Check, WaitFails, Scan, CallbackReturns, RoundEnds,
         RequestStop, WriteStopByte, StopAgain
<1>5. /\ pc' \in {"idle", "check", "wait", "scan", "dispatch", "callback"}
      /\ loop'.running <=> pc' # "idle"
      /\ pc' = "idle" => batch' = <<>>
  BY DEF IInv, TypeOK, Loops, Callable, Reopen, Start, Check, WaitFails, Return, Scan, CallbackReturns,
         RoundEnds, RequestStop, WriteStopByte, StopAgain
<1>6. Alive' <=> Alive
  BY <1>3 DEF Alive
<1>7. ~Alive => loop' = loop
  BY DEF IInv, TypeOK, NoLoop, Callable, Reopen, Start, Check, WaitFails, Return, Scan,
         CallbackReturns, RoundEnds, RequestStop, WriteStopByte, StopAgain
<1>8. TypeOK'
  <2>1. batch' \in Seq(Entries)
    <3>1. <<>> \in Seq(Entries)
      OBVIOUS
    <3> QED BY <1>1, <3>1 DEF IInv, TypeOK
  <2>2. IF Alive' THEN loop'.records \in [Slot -> Records] /\ loop'.id > 0 ELSE loop' = NoLoop
    BY <1>3, <1>6, <1>7 DEF IInv, TypeOK
  <2> QED BY <1>1, <1>3, <1>4, <1>5, <2>1, <2>2 DEF IInv, TypeOK
<1>9. \A a \in 1 .. Len(batch') : \E b \in 1 .. Len(batch) : batch'[a] = batch[b]
  BY <1>1
<1> QED BY <1>1, <1>3, <1>8, <1>9, Frame DEF IInv, NoStaleUse

\* An event is passed over, or calls back the registration it was taken for.
LEMMA DispatchStep == ASSUME IInv, Dispatch PROVE IInv'
<1>1. /\ UNCHANGED <<loop, identity, kernel, uses, handles>> /\ pc = "dispatch"
      /\ batch # <<>> /\ batch' = Tail(batch) /\ pc' \in {"dispatch", "callback"}
  BY DEF Dispatch
<1>2. /\ batch \in Seq(Entries) /\ Len(batch) \in Nat \ {0} /\ Head(batch) = batch[1]
      /\ Tail(batch) \in Seq(Entries) /\ Len(Tail(batch)) = Len(batch) - 1
      /\ \A a \in 1 .. Len(Tail(batch)) : Tail(batch)[a] = batch[a + 1]
  BY <1>1, HeadTailProperties, LenProperties DEF IInv, TypeOK
<1>3. Alive
  BY <1>1 DEF IInv, TypeOK, NoLoop
<1>4. own'
  <2>1. CASE own' = own
    BY <2>1 DEF IInv, NoStaleUse
  <2>2. CASE Deliverable(Head(batch)) /\ own' = (Head(batch).fd = loop.records[Head(batch).token[2]].fd)
    <3>1. PICK e : e = batch[1]
      OBVIOUS
    <3>2. 1 \in 1 .. Len(batch) /\ BatchSound
      BY <1>2, <1>3 DEF IInv
    <3>3. e.token # NoToken => Leads(e.token, e.fd)
      BY <3>1, <3>2 DEF BatchSound
    <3>4. Deliverable(e) /\ own' = (e.fd = loop.records[e.token[2]].fd)
      BY <1>2, <2>2, <3>1
    <3> QED BY <3>3, <3>4 DEF Leads, Active, Deliverable
  <2> QED BY <2>1, <2>2 DEF Dispatch
<1>5. TypeOK'
  BY <1>1, <1>2 DEF IInv, TypeOK, Alive
<1>6. \A a \in 1 .. Len(batch') : \E b \in 1 .. Len(batch) : batch'[a] = batch[b]
  <2>1. \A a \in 1 .. Len(Tail(batch)) : a + 1 \in 1 .. Len(batch)
    BY <1>2
  <2> QED BY <1>1, <1>2, <2>1
<1> QED BY <1>1, <1>4, <1>5, <1>6, Frame

\* An event of the batch carries the token of the record it was taken for.
LEMMA WaitStep == ASSUME IInv, Wait PROVE IInv'
<1>1. /\ UNCHANGED <<loop, identity, kernel, uses, handles, own>> /\ pc = "wait" /\ pc' = "scan"
  BY DEF Wait
<1>2. Alive
  BY <1>1 DEF IInv, TypeOK, NoLoop
<1>3. \A k : k \in kernel <=> \E i \in Slot : Active(i) /\ k = Entry(i)
  BY <1>2, KernelEntries DEF IInv
<1>4. PICK picked \in SUBSET kernel, wake \in BOOLEAN : \E events \in [picked -> SUBSET Events] :
        LET entries == {EventOf(k, events[k]) : k \in picked} \cup (IF wake THEN {Wake} ELSE {})
        IN  batch' \in SetToSeqs(entries)
  BY DEF Wait
<1>5. PICK events \in [picked -> SUBSET Events] :
        LET entries == {EventOf(k, events[k]) : k \in picked} \cup (IF wake THEN {Wake} ELSE {})
        IN  batch' \in SetToSeqs(entries)
  BY <1>4
<1> DEFINE ofKernel == {EventOf(k, events[k]) : k \in picked}
           entries == ofKernel \cup (IF wake THEN {Wake} ELSE {})
<1>6. IsFiniteSet(kernel)
  <2> DEFINE S == {i \in Slot : Active(i)}
             f == [i \in S |-> Entry(i)]
  <2>1. IsFiniteSet(S)
    <3>1. IsFiniteSet(Slot)
      BY BoundsAssumption, FS_Interval DEF Slot
    <3> QED BY <3>1, FS_Subset
  <2>2. f \in Surjection(S, kernel)
    BY <1>3 DEF Surjection
  <2> QED BY <2>1, <2>2, FS_Surjection
<1>7. IsFiniteSet(ofKernel)
  <2> DEFINE g == [k \in picked |-> EventOf(k, events[k])]
  <2>1. IsFiniteSet(picked)
    BY <1>6, FS_Subset
  <2>2. g \in Surjection(picked, ofKernel)
    BY DEF Surjection
  <2> QED BY <2>1, <2>2, FS_Surjection
<1>8. Cardinality(entries) \in Nat
  <2>1. IsFiniteSet(IF wake THEN {Wake} ELSE {})
    BY FS_EmptySet, FS_Singleton
  <2> QED BY <1>7, <2>1, FS_Union, FS_CardinalityType
<1>9. ASSUME NEW e \in entries
      PROVE  /\ e \in Entries
             /\ e.token # NoToken =>
                  \E i \in Slot : Active(i) /\ e.token = loop.records[i].token /\ e.fd = loop.records[i].fd
  <2>1. CASE e = Wake
    BY <2>1 DEF Wake, Entries, Tokens, NoToken, Descriptors
  <2>2. ASSUME NEW k \in picked, e = EventOf(k, events[k])
        PROVE  \E i \in Slot : /\ Active(i) /\ e \in Entries
                               /\ e.token = loop.records[i].token /\ e.fd = loop.records[i].fd
    <3>1. PICK i \in Slot : Active(i) /\ k = Entry(i)
      BY <1>3, <2>2
    <3>2. loop.records[i].fd \in Descriptors /\ loop.records[i].token \in Tokens
      BY <1>2, Typed DEF IInv, Records
    <3>3. e.token = loop.records[i].token /\ e.fd = loop.records[i].fd
      BY <2>2, <3>1 DEF EventOf, Entry
    <3>4. e \in Entries
      BY <2>2, <3>1, <3>2 DEF EventOf, Entry, Entries
    <3> QED BY <3>1, <3>3, <3>4
  <2> QED BY <2>1, <2>2
<1> HIDE DEF entries
<1>10. batch' \in [1 .. Cardinality(entries) -> entries]
  BY <1>5 DEF SetToSeqs, entries
<1>11. batch' \in Seq(Entries) /\ Len(batch') = Cardinality(entries)
  BY <1>8, <1>9, <1>10
<1>12. TypeOK'
  BY <1>1, <1>2, <1>11 DEF IInv, TypeOK, Alive
<1>13. BatchSound'
  <2>1. ASSUME NEW a \in 1 .. Len(batch'), batch'[a].token # NoToken
        PROVE  /\ batch'[a].token[2] \in Slot /\ batch'[a].token[1] <= loop.serial
               /\ Leads(batch'[a].token, batch'[a].fd)
    <3>1. batch'[a] \in entries
      BY <1>10, <1>11
    <3>2. PICK i \in Slot : /\ Active(i) /\ batch'[a].token = loop.records[i].token
                            /\ batch'[a].fd = loop.records[i].fd
      BY <1>9, <2>1, <3>1
    <3>3. loop.records[i].token[2] = i /\ loop.records[i].token[1] \in 1 .. loop.serial
      BY <1>2, <3>2 DEF IInv, RecordsSound
    <3> QED BY <3>2, <3>3, Typed DEF IInv, Leads
  <2>2. \A t, f : Leads(t, f)' <=> Leads(t, f)
    BY <1>1 DEF Leads, Active
  <2> QED BY <1>1, <2>1, <2>2 DEF BatchSound
<1>14. /\ HandlesSound' /\ NoStaleUse' /\ KernelAgrees' /\ Alive'
       /\ RecordsSound' /\ FreeSound'
  BY <1>1, <1>2 DEF IInv, HandlesSound, NoStaleUse, KernelAgrees, Alive, RecordsSound, FreeSound, Leads, Active
<1> QED BY <1>12, <1>13, <1>14 DEF IInv

-----------------------------------------------------------------------------
\* Every step keeps the invariant.
LEMMA Step == ASSUME IInv, [Next]_vars PROVE IInv'
<1>1. CASE UNCHANGED vars
  <2>1. TypeOK'
    BY <1>1 DEF IInv, TypeOK, Alive, vars
  <2> QED BY <1>1, <2>1, Frame DEF IInv, NoStaleUse, vars
<1>2. CASE Next
  BY <1>2, CreateStep, DestroyStep, AddStep, ModStep, DelStep, QuietStep, DispatchStep, WaitStep
     DEF Next, Loop
<1> QED BY <1>1, <1>2

\* The invariant holds throughout a run.
THEOREM Invariance == Spec => []IInv
<1>1. Init => IInv
  BY AtFirst
<1>2. IInv /\ [Next]_vars => IInv'
  BY Step
<1> QED BY <1>1, <1>2, PTL DEF Spec

\* The loop keeps its types: serials and loop identities stay within their limits, and a
\* creation that fails leaves no loop behind (event_loop.c, create and release_resources).
THEOREM TypeCorrect == Spec => []TypeOK
<1>1. IInv => TypeOK
  BY DEF IInv
<1> QED BY <1>1, Invariance, PTL

\* However callbacks add, remove and re-add registrations and reuse descriptors, a handle
\* or an event of the batch reaches only the registration it was made for
\* (find_registration, run_round), and the kernel's set is exactly the active records.
THEOREM NoStaleEventCorrect == Spec => []NoStaleEvent
<1>1. IInv => NoStaleEvent
  BY DEF IInv, NoStaleEvent
<1> QED BY <1>1, Invariance, PTL
=============================================================================
