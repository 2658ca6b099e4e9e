------------------------------ MODULE IopProofs ------------------------------
(***************************************************************************)
(* Proofs about the IOP: a handler of the core returns to what it          *)
(* interrupted and stores land where they should; the drive answers each   *)
(* command with what the ones before it have stored; each halfword of a    *)
(* sound transfer is in its place when the SPU2 asks for data again; and   *)
(* the interrupt of the serial interfaces announces every answer, in order.*)
(***************************************************************************)
EXTENDS IopDevices, TranslationCacheProofs, SequenceTheorems

Slots == [current_slot : 0..2, branch_pc : 0..Addresses - 1]
Owed == [pc : 0..Addresses - 1, ie : BOOLEAN]

(* The program counter's arithmetic.                                       *)
LEMMA WrapType ==
  ASSUME IopCoreAssumption, NEW a \in Int
  PROVE  Wrap(a) \in 0..Addresses - 1
BY DEF Wrap, IopCoreAssumption

LEMMA WrapBack ==
  ASSUME IopCoreAssumption, NEW a \in 0..Addresses - 1
  PROVE  Wrap(Wrap(a + 1) - 1) = a
<1>1. Addresses \in Nat \ {0}
  BY DEF IopCoreAssumption
<1>2. \A n \in Nat \ {0} : \A i \in 0..n - 1 : i % n = i /\ n % n = 0 /\ (0 - 1) % n = n - 1
  OBVIOUS
<1>3. CASE a + 1 < Addresses
  BY <1>1, <1>2, <1>3 DEF Wrap
<1>4. CASE a + 1 = Addresses
  BY <1>1, <1>2, <1>4 DEF Wrap
<1> QED
  BY <1>1, <1>3, <1>4

LEMMA PageOf ==
  ASSUME IopCoreAssumption
  PROVE  Pages \subseteq Nat /\ \A address \in 0..Addresses - 1 : Page(address) \in Pages
<1>1. Addresses \in Nat \ {0} /\ PageLen \in Nat \ {0} /\ Addresses % PageLen = 0
  BY DEF IopCoreAssumption
<1>2. \A a \in Nat, b \in Nat \ {0} : a \div b \in Nat /\ a = b * (a \div b) + (a % b) /\ a % b \in 0..b - 1
  OBVIOUS
<1> DEFINE n == Addresses \div PageLen
<1>3. n \in Nat /\ Addresses = PageLen * n
  BY <1>1, <1>2
<1>4. ASSUME NEW address \in 0..Addresses - 1 PROVE Page(address) \in 0..n - 1
  <2> DEFINE q == address \div PageLen
  <2>1. q \in Nat /\ PageLen * q <= address
    BY <1>1, <1>2
  <2>2. ~(q >= n)
    <3>1. \A b, x, y \in Nat : x >= y => b * x >= b * y
      OBVIOUS
    <3> HIDE DEF q, n
    <3> QED
      BY <1>1, <1>3, <2>1, <3>1
  <2> HIDE DEF n
  <2> QED
    BY <1>3, <2>1, <2>2 DEF Page
<1> QED
  BY <1>3, <1>4 DEF Pages
-----------------------------------------------------------------------------
(* Where a page leads.                                                     *)
LEMMA DirectFrame ==
  ASSUME IopCoreAssumption, NEW page \in Pages
  PROVE  Direct(page) \in Nat
BY PageOf DEF Direct, IopCoreAssumption

LEMMA FallbackIs ==
  ASSUME IopCoreAssumption, NEW page \in Pages, NEW kind
  PROVE  /\ Fallback(page, kind) \in {Direct(page), Nothing, Throws}
         /\ Fallback(page, kind) >= 0 => Fallback(page, kind) = Direct(page)
         /\ Fallback(page, kind) = Throws <=> ~InKernel
         /\ InKernel /\ ~Bypasses(kind) => Fallback(page, kind) = Direct(page)
BY DirectFrame DEF Fallback, Nothing, Throws, Bypasses

(* What a hit finds.                                                       *)
LEMMA CachedFrame ==
  ASSUME NEW cache, CacheTyped(cache, Pages), Agrees(cache), NEW page, Hit(cache, page)
  PROVE  Cached(cache, page) = Direct(page)
<1>1. PICK j \in 1..Len(cache.entries) : /\ cache.entries[j].key = page
                                         /\ cache.entries[j].value = Cached(cache, page)
  BY TouchedKeeps
<1> QED
  BY <1>1 DEF Agrees

(* A lookup leaves a cache that is as good as it was.                      *)
LEMMA AfterLookup ==
  ASSUME IopCoreAssumption, NEW cache, CacheTyped(cache, Pages), Agrees(cache),
         NEW page \in Pages, NEW kind
  PROVE  CacheTyped(After(cache, page, kind), Pages) /\ Agrees(After(cache, page, kind))
<1> DEFINE new == After(cache, page, kind)
<1>1. CASE Hit(cache, page)
  <2>1. CacheTyped(Touched(cache, page), Pages) /\ Kept(Touched(cache, page), cache)
    BY <1>1, TouchedKeeps
  <2> QED
    BY <1>1, <2>1 DEF After, Kept, Agrees
<1>2. CASE ~Hit(cache, page) /\ Fallback(page, kind) < 0
  BY <1>2 DEF After
<1>3. CASE ~Hit(cache, page) /\ ~(Fallback(page, kind) < 0)
  <2>1. Fallback(page, kind) = Direct(page) /\ Direct(page) \in Nat /\ Size \in Nat
    BY <1>3, FallbackIs, DirectFrame DEF IopCoreAssumption, Nothing, Throws
  <2>2. new = Inserted(cache, page, Direct(page))
    BY <1>3, <2>1 DEF After
  <2> HIDE DEF new
  <2>3. /\ CacheTyped(new, Pages)
        /\ \A i \in 1..Len(new.entries) :
             \/ new.entries[i].key = page /\ new.entries[i].value = Direct(page)
             \/ \E j \in 1..Len(cache.entries) : /\ new.entries[i].key = cache.entries[j].key
                                               /\ new.entries[i].value = cache.entries[j].value
    BY <2>1, <2>2, InsertedKeeps
  <2>4. Agrees(new)
    BY <2>3 DEF Agrees
  <2> QED
    BY <2>3, <2>4 DEF new
<1> QED
  BY <1>1, <1>2, <1>3

LEMMA FlushedAgrees ==
  ASSUME IopCoreAssumption
  PROVE  CacheTyped(Flushed, Pages) /\ Agrees(Flushed) /\ \A page : ~Hit(Flushed, page)
<1>1. Size \in Nat
  BY DEF IopCoreAssumption
<1>2. CacheTyped(Flushed, Pages) /\ Len(Flushed.entries) = 0
  BY <1>1, FlushedTyped
<1> QED
  BY <1>2 DEF Agrees, Hit, Places
-----------------------------------------------------------------------------
LEMMA VectorType ==
  ASSUME IopCoreAssumption, NEW b \in BOOLEAN
  PROVE  Vectors[b] \in 0..Addresses - 1
BY DEF IopCoreAssumption

(* A sequence, its last element and what is before it.                     *)
LEMMA LastOf ==
  ASSUME NEW S, NEW s \in Seq(S), s # <<>>
  PROVE  /\ Len(s) \in 1..Len(s) /\ s[Len(s)] \in S
         /\ SubSeq(s, 1, Len(s) - 1) \in Seq(S) /\ Len(SubSeq(s, 1, Len(s) - 1)) = Len(s) - 1
         /\ \A m \in 1..Len(s) - 1 : SubSeq(s, 1, Len(s) - 1)[m] = s[m]
<1> DEFINE n == Len(s)
<1>1. n \in Nat \ {0} /\ s \in [1..n -> S]
  OBVIOUS
<1> HIDE DEF n
<1>2. n \in 1..n /\ s[n] \in S
  BY <1>1
<1>3. SubSeq(s, 1, n - 1) = [m \in 1..n - 1 |-> s[m]]
  BY <1>1
<1>4. SubSeq(s, 1, n - 1) \in Seq(S) /\ Len(SubSeq(s, 1, n - 1)) = n - 1
  BY <1>1, <1>3
<1> QED
  BY <1>2, <1>3, <1>4 DEF n

(* The three levels of the stack.                                          *)
LEMMA StackOf ==
  ASSUME NEW a \in Levels, NEW b \in Levels, NEW c \in Levels
  PROVE  /\ <<a, b, c>> \in [1..3 -> Levels]
         /\ <<a, b, c>>[1] = a /\ <<a, b, c>>[2] = b /\ <<a, b, c>>[3] = c
OBVIOUS

LEMMA InitCore ==
  ASSUME IopCoreAssumption, Init
  PROVE  IopCoreInv
<1>1. 0 \in 0..Addresses - 1
  BY DEF IopCoreAssumption
<1>2. pc \in 0..Addresses - 1
  BY VectorType DEF Init
<1>3. program \in Programs /\ program.nesting \in 0..2
  BY DEF Init, IopCoreAssumption
<1>4. bdelay \in Slots /\ bdelay.current_slot = 0
  BY <1>1 DEF Init, NoBranch, Slots
<1>5. stack \in [1..3 -> Levels] /\ \A n \in 1..3 : ~stack[n].ie /\ ~stack[n].ku
  BY DEF Init, Level, Levels
<1>6. saved = <<>> /\ owed = <<>> /\ Len(owed) = 0 /\ Len(saved) = 0
  BY DEF Init
<1>7. TypeOK
  <2>1. CacheTyped(data_cache, Pages) /\ CacheTyped(inst_cache, Pages)
    BY FlushedAgrees DEF Init
  <2>2. {pc, epc, branch} \subseteq 0..Addresses - 1
    BY <1>1, <1>2 DEF Init
  <2>3. {isc, bev, source, returning, raised} \subseteq BOOLEAN /\ lines = {} /\ phase = "check"
    BY DEF Init
  <2>4. saved \in Seq(0..Addresses - 1) /\ owed \in Seq([pc : 0..Addresses - 1, ie : BOOLEAN])
    BY <1>6
  <2> QED
    BY <1>3, <1>4, <1>5, <2>1, <2>2, <2>3, <2>4 DEF TypeOK, Slots
<1>8. ReturnsToOwed
  BY <1>3, <1>5, <1>6 DEF ReturnsToOwed, InterruptsMasked, EpcSaved
<1>9. Returning /\ BeforeHandler /\ StoresLand /\ CachesAgree /\ SlotFollowsBranch
  BY <1>4, FlushedAgrees DEF Init, SlotFollowsBranch, BeforeHandler, StoresLand, CachesAgree, Returning
<1>10. FailsInUser
  BY <1>5 DEF Init, FailsInUser, InKernel
<1> QED
  BY <1>7, <1>8, <1>9, <1>10 DEF IopCoreInv
-----------------------------------------------------------------------------
(* An exception leaves the handler's address, or the one before it, in the *)
(* PC, what it owes in EPC and the level of the interrupted program below  *)
(* its own.  Not more than two run at a time, so no level is lost.         *)
LEMMA Exception ==
  ASSUME IopCoreAssumption, IopCoreInv, NEW exception, HandleException(exception),
         ~raised, ~returning, phase # "advance", phase' \in {"fetch", "advance"},
         exception # "interrupt" => phase' = "advance",
         EpcSaved, Len(owed) < program.nesting,
         UNCHANGED <<program, lines, source, saved, returning, branch, stored>>
  PROVE  IopCoreInv'
<1> DEFINE entry == [pc |-> IF IsBranchPending(bdelay) THEN branch ELSE pc, ie |-> stack[1].ie]
<1>1. /\ bdelay \in Slots /\ bdelay.current_slot # 2 /\ bev \in BOOLEAN
      /\ pc \in 0..Addresses - 1 /\ branch \in 0..Addresses - 1
  BY DEF IopCoreInv, TypeOK, SlotFollowsBranch, Slots
<1>2. entry.pc \in 0..Addresses - 1 /\ entry \in Owed
  BY <1>1 DEF IopCoreInv, TypeOK, Levels, Owed
<1>3. epc' = entry.pc
  BY <1>1 DEF HandleException, IopCoreInv, SlotFollowsBranch, IsBranchPending, Slots
<1>4. pc' \in 0..Addresses - 1 /\ (exception # "interrupt" => pc' = Wrap(Vectors[bev'] - 1))
  <2> DEFINE target == Vectors[bev]
  <2>1. target \in 0..Addresses - 1
    BY <1>1, VectorType
  <2>2. pc' = (IF exception = "interrupt" THEN target ELSE Wrap(target - 1)) /\ bev' = bev
    BY DEF HandleException
  <2> HIDE DEF target
  <2>3. Wrap(target - 1) \in 0..Addresses - 1
    <3>1. target - 1 \in Int
      BY <2>1
    <3> QED
      BY <3>1, WrapType
  <2> QED
    BY <2>1, <2>2, <2>3 DEF target
<1>5. bdelay' \in Slots /\ bdelay'.current_slot = 0
  <2>1. 0 \in 0..Addresses - 1
    BY DEF IopCoreAssumption
  <2> QED
    BY <1>1, <2>1 DEF HandleException, StopBranch, NoBranch, IsBranchPending, Slots
<1>6. /\ stack' \in [1..3 -> Levels] /\ ~stack'[1].ie /\ ~stack'[1].ku
      /\ stack'[2] = stack[1] /\ stack'[3] = stack[2]
  <2>1. stack[1] \in Levels /\ stack[2] \in Levels
    BY DEF IopCoreInv, TypeOK
  <2>2. stack' = <<Level(FALSE, FALSE), stack[1], stack[2]>>
    BY DEF HandleException, PushExceptionStack
  <2>3. Level(FALSE, FALSE) \in Levels /\ ~Level(FALSE, FALSE).ie /\ ~Level(FALSE, FALSE).ku
    BY DEF Level, Levels
  <2> QED
    BY <2>1, <2>2, <2>3, StackOf
<1>7. owed \in Seq(Owed) /\ owed' = Append(owed, entry) /\ raised' = (exception # "interrupt")
  BY DEF HandleException, IopCoreInv, TypeOK, Owed
<1> HIDE DEF entry
<1>8. /\ owed' \in Seq(Owed) /\ Len(owed') = Len(owed) + 1 /\ owed'[Len(owed')] = entry
      /\ \A n \in 1..Len(owed) : owed'[n] = owed[n]
  BY <1>2, <1>7
<1>9. CacheTyped(data_cache, Pages)' /\ CacheTyped(inst_cache, Pages)' /\ CachesAgree'
      /\ data_cache' = Flushed /\ inst_cache' = Flushed
  BY FlushedAgrees DEF HandleException, CachesAgree, Agrees, CacheTyped
<1>10. program.nesting \in 0..2 /\ Len(owed) \in 0..1 /\ Len(saved) = Len(owed)
  <2>1. program \in Programs
    BY DEF IopCoreInv, TypeOK
  <2>2. program.nesting \in 0..2
    BY <2>1 DEF IopCoreAssumption
  <2> QED
    BY <1>7, <2>2 DEF EpcSaved
<1>11. TypeOK'
  <2>1. raised' \in BOOLEAN
    BY <1>7
  <2>2. isc' = isc /\ bev' = bev
    BY DEF HandleException
  <2> QED
    BY <1>2, <1>3, <1>4, <1>5, <1>6, <1>8, <1>9, <2>1, <2>2 DEF IopCoreInv, TypeOK, Slots, Owed
<1>12. ReturnsToOwed'
  <2>1. \A n \in 1..Len(owed') : stack'[Len(owed') - n + 2].ie = owed'[n].ie
    <3>1. CASE Len(owed) = 0
      BY <1>6, <1>8, <3>1 DEF entry
    <3>2. CASE Len(owed) = 1
      <4>1. stack[2].ie = owed[1].ie
        BY <3>2 DEF IopCoreInv, ReturnsToOwed
      <4>2. 1..Len(owed') = {1, 2} /\ owed'[1] = owed[1] /\ owed'[2] = entry /\ Len(owed') = 2
        BY <1>8, <3>2
      <4> QED
        BY <1>6, <4>1, <4>2 DEF entry
    <3> QED
      BY <1>10, <3>1, <3>2
  <2>2. \A n \in 1..Len(saved') : saved'[n] = owed'[n].pc
    BY <1>8, <1>10 DEF IopCoreInv, ReturnsToOwed
  <2>3. Len(owed') <= program'.nesting /\ Len(saved') = Len(owed') - 1
    BY <1>8, <1>10
  <2>4. epc' = owed'[Len(owed')].pc /\ InterruptsMasked'
    BY <1>3, <1>6, <1>8 DEF InterruptsMasked
  <2> QED
    BY <2>1, <2>2, <2>3, <2>4 DEF ReturnsToOwed
<1>13. Returning' /\ SlotFollowsBranch' /\ StoresLand' /\ BeforeHandler'
  <2>1. ~returning' /\ SlotFollowsBranch'
    BY <1>5 DEF SlotFollowsBranch
  <2>2. StoresLand'
    BY DEF StoresLand, IopCoreInv, Direct
  <2>3. BeforeHandler'
    <3> SUFFICES ASSUME raised' PROVE BeforeHandler'
      BY DEF BeforeHandler
    <3>1. exception # "interrupt"
      BY <1>7
    <3>2. phase' = "advance" /\ pc' = Wrap(Vectors[bev'] - 1)
      BY <1>4, <3>1
    <3>3. ~IsBranchPending(bdelay)'
      BY <1>5 DEF IsBranchPending
    <3> QED
      BY <3>2, <3>3 DEF BeforeHandler
  <2> QED
    BY <2>1, <2>2, <2>3 DEF Returning
<1>14. FailsInUser'
  <2>1. \A n \in 1..3 : stack'[n].ku => "user" \in program.kinds
    BY <1>6 DEF IopCoreInv, FailsInUser
  <2> QED
    BY <1>6, <2>1 DEF FailsInUser, InKernel
<1> QED
  BY <1>9, <1>11, <1>12, <1>13, <1>14 DEF IopCoreInv
-----------------------------------------------------------------------------
(* A step that leaves the control alone may only go on to the next phase.  *)
LEMMA Onwards ==
  ASSUME IopCoreAssumption, IopCoreInv,
         UNCHANGED <<program, pc, bdelay, stack, isc, bev, epc, saved, returning, branch, owed, raised>>,
         phase' \in {"check", "fetch", "run", "advance", "failed"},
         phase = "advance" => phase' = "advance",
         phase' # phase => ~raised /\ (phase' = "advance" => ~returning),
         phase' = "failed" => ~InKernel,
         ~InKernel => phase' # "run" /\ inst_cache' = Flushed,
         CacheTyped(data_cache, Pages)', CacheTyped(inst_cache, Pages)', CachesAgree', StoresLand',
         lines' \subseteq {"irq"}, source' \in BOOLEAN
  PROVE  IopCoreInv'
<1>1. TypeOK'
  BY DEF IopCoreInv, TypeOK
<1>2. ReturnsToOwed'
  BY DEF IopCoreInv, ReturnsToOwed, EpcSaved, InterruptsMasked
<1>3. Returning'
  BY DEF IopCoreInv, Returning, EpcSaved, InterruptsMasked, IsBranchPending
<1>4. SlotFollowsBranch' /\ BeforeHandler'
  BY DEF IopCoreInv, SlotFollowsBranch, BeforeHandler, IsBranchPending
<1>5. FailsInUser'
  BY DEF IopCoreInv, FailsInUser, InKernel
<1> QED
  BY <1>1, <1>2, <1>3, <1>4, <1>5 DEF IopCoreInv

(* What the invariant says of the caches and of the last store.            *)
LEMMA CachesHold ==
  ASSUME IopCoreInv
  PROVE  /\ CacheTyped(data_cache, Pages) /\ Agrees(data_cache)
         /\ CacheTyped(inst_cache, Pages) /\ Agrees(inst_cache)
         /\ data_cache' = data_cache => CacheTyped(data_cache, Pages)' /\ Agrees(data_cache)'
         /\ inst_cache' = inst_cache => CacheTyped(inst_cache, Pages)' /\ Agrees(inst_cache)'
         /\ stored' = stored => StoresLand'
         /\ lines \subseteq {"irq"} /\ source \in BOOLEAN
         /\ ~InKernel => phase # "run" /\ inst_cache = Flushed
<1>1. /\ CacheTyped(data_cache, Pages) /\ Agrees(data_cache)
      /\ CacheTyped(inst_cache, Pages) /\ Agrees(inst_cache)
  BY DEF IopCoreInv, TypeOK, CachesAgree
<1>2. data_cache' = data_cache => CacheTyped(data_cache, Pages)' /\ Agrees(data_cache)'
  BY <1>1 DEF CacheTyped, Agrees
<1>3. inst_cache' = inst_cache => CacheTyped(inst_cache, Pages)' /\ Agrees(inst_cache)'
  BY <1>1 DEF CacheTyped, Agrees
<1>4. stored' = stored => StoresLand'
  BY DEF IopCoreInv, StoresLand
<1>5. lines \subseteq {"irq"} /\ source \in BOOLEAN /\ (~InKernel => phase # "run" /\ inst_cache = Flushed)
  BY DEF IopCoreInv, TypeOK, FailsInUser
<1> QED
  BY <1>1, <1>2, <1>3, <1>4, <1>5

LEMMA InterruptCheckInv ==
  ASSUME IopCoreAssumption, IopCoreInv, InterruptCheck
  PROVE  IopCoreInv'
<1>1. /\ phase = "check" /\ phase' = "fetch" /\ ~raised
      /\ UNCHANGED <<program, lines, source, saved, returning>>
  BY DEF InterruptCheck, IopCoreInv, BeforeHandler, interrupts
<1>2. CASE ~InterruptsMasked /\ HandleException("interrupt") /\ UNCHANGED <<branch, stored>>
  <2>1. EpcSaved /\ ~returning
    BY <1>2 DEF IopCoreInv, ReturnsToOwed, Returning
  <2>2. Len(owed) < program.nesting
    <3>1. program \in Programs /\ owed \in Seq(Owed)
      BY DEF IopCoreInv, TypeOK, Owed
    <3>2. program.nesting \in 0..2 /\ Len(owed) \in Nat
      BY <3>1 DEF IopCoreAssumption
    <3> QED
      BY <1>2, <3>2 DEF IopCoreInv, ReturnsToOwed
  <2> QED
    BY <1>1, <1>2, <2>1, <2>2, Exception
<1>3. CASE UNCHANGED <<control, status, epc, caches, history>>
  BY <1>1, <1>3, Onwards, CachesHold DEF control, status, caches, history, CachesAgree
<1> QED
  BY <1>2, <1>3 DEF InterruptCheck

(* Outside of the kernel nothing is fetched.                               *)
LEMMA FetchInv ==
  ASSUME IopCoreAssumption, IopCoreInv, Fetch
  PROVE  IopCoreInv'
<1> DEFINE page == Page(pc)
<1>1. /\ phase = "fetch" /\ ~raised
      /\ UNCHANGED <<program, pc, bdelay, stack, isc, bev, epc, data_cache, lines, source, saved,
                     returning, branch, owed, stored, raised>>
  BY DEF Fetch, IopCoreInv, BeforeHandler, control, status, interrupts, history
<1>2. page \in Pages
  <2>1. pc \in 0..Addresses - 1
    BY DEF IopCoreInv, TypeOK
  <2> QED
    BY <2>1, PageOf
<1> HIDE DEF page
<1>3. Lookup(inst_cache, page, "READ") = Throws <=> ~InKernel
  <2>1. CASE Hit(inst_cache, page)
    <3>1. Lookup(inst_cache, page, "READ") \in Nat
      BY <1>2, <2>1, CachesHold, CachedFrame, DirectFrame DEF Lookup
    <3>2. InKernel
      BY <2>1, CachesHold, FlushedAgrees
    <3> QED
      BY <3>1, <3>2 DEF Throws
  <2>2. CASE ~Hit(inst_cache, page)
    BY <1>2, <2>2, FallbackIs DEF Lookup
  <2> QED
    BY <2>1, <2>2
<1>4. CASE Lookup(inst_cache, page, "READ") = Throws
  <2>1. phase' = "failed" /\ inst_cache' = inst_cache
    BY <1>4 DEF Fetch, page
  <2> QED
    BY <1>1, <1>3, <1>4, <2>1, Onwards, CachesHold DEF CachesAgree
<1>5. CASE Lookup(inst_cache, page, "READ") # Throws
  <2>1. phase' = "run" /\ inst_cache' = After(inst_cache, page, "READ")
    BY <1>5 DEF Fetch, page
  <2>2. CacheTyped(inst_cache', Pages) /\ Agrees(inst_cache')
    BY <1>2, <2>1, AfterLookup, CachesHold
  <2>3. CacheTyped(inst_cache, Pages)' /\ Agrees(inst_cache)'
    BY <2>2 DEF CacheTyped, Agrees
  <2> QED
    BY <1>1, <1>3, <1>5, <2>1, <2>3, Onwards, CachesHold DEF CachesAgree
<1> QED
  BY <1>4, <1>5

(* What an instruction finds.                                              *)
LEMMA Running ==
  ASSUME IopCoreInv, NEW kind, Runs(kind)
  PROVE  /\ phase = "run" /\ phase' = "advance" /\ ~raised /\ ~returning /\ InKernel
         /\ bdelay \in Slots /\ bdelay.current_slot # 2 /\ pc \in 0..Addresses - 1
BY DEF IopCoreInv, TypeOK, Runs, BeforeHandler, SlotFollowsBranch, FailsInUser, Slots

LEMMA PlainInv ==
  ASSUME IopCoreAssumption, IopCoreInv, Plain
  PROVE  IopCoreInv'
<1>1. Runs("plain")
  BY DEF Plain
<1>2. /\ UNCHANGED <<program, pc, bdelay, stack, isc, bev, epc, saved, returning, branch, owed, raised>>
      /\ UNCHANGED <<lines, source, data_cache, inst_cache, stored>>
  BY DEF Plain, Continues, interrupts, control, status, caches, history
<1> QED
  BY <1>1, <1>2, Running, Onwards, CachesHold DEF CachesAgree

(* Loads and stores look into the data cache.                              *)
LEMMA DataLookup ==
  ASSUME IopCoreAssumption, InKernel, NEW cache, CacheTyped(cache, Pages), Agrees(cache),
         NEW page \in Pages, NEW kind
  PROVE  /\ CacheTyped(DataAfter(cache, page, kind), Pages)
         /\ Agrees(DataAfter(cache, page, kind))
         /\ DataFrame(cache, page, kind) =
              IF Bypasses(kind) /\ page < UserPages THEN Nothing ELSE Direct(page)
<1>1. CASE Bypasses(kind)
  BY <1>1 DEF DataAfter, DataFrame, Fallback, Bypasses
<1>2. CASE ~Bypasses(kind)
  <2>1. CacheTyped(After(cache, page, kind), Pages) /\ Agrees(After(cache, page, kind))
    BY AfterLookup
  <2>2. Lookup(cache, page, kind) = Direct(page)
    BY <1>2, CachedFrame, FallbackIs DEF Lookup
  <2> QED
    BY <1>2, <2>1, <2>2 DEF DataAfter, DataFrame
<1> QED
  BY <1>1, <1>2

LEMMA LoadInv ==
  ASSUME IopCoreAssumption, IopCoreInv, Load
  PROVE  IopCoreInv'
<1>1. Runs("memory")
  BY DEF Load
<1>2. /\ UNCHANGED <<program, pc, bdelay, stack, isc, bev, epc, saved, returning, branch, owed, raised>>
      /\ UNCHANGED <<lines, source, inst_cache, stored>>
  BY DEF Load, Continues, interrupts, control, status, history
<1>3. PICK page \in Pages : data_cache' = DataAfter(data_cache, page, "READ")
  BY DEF Load
<1>4. CacheTyped(data_cache', Pages) /\ Agrees(data_cache')
  BY <1>1, <1>3, Running, CachesHold, DataLookup
<1>5. CacheTyped(data_cache, Pages)' /\ Agrees(data_cache)'
  BY <1>4 DEF CacheTyped, Agrees
<1> QED
  BY <1>1, <1>2, <1>5, Running, Onwards, CachesHold DEF CachesAgree

LEMMA StoreInv ==
  ASSUME IopCoreAssumption, IopCoreInv, Store
  PROVE  IopCoreInv'
<1>1. Runs("memory")
  BY DEF Store
<1>2. /\ UNCHANGED <<program, pc, bdelay, stack, isc, bev, epc, saved, returning, branch, owed, raised>>
      /\ UNCHANGED <<lines, source, inst_cache>>
  BY DEF Store, Continues, interrupts, control, status
<1>3. PICK page \in Pages, part \in BOOLEAN :
        LET before == IF part THEN DataAfter(data_cache, page, "READ") ELSE data_cache
        IN  /\ data_cache' = DataAfter(before, page, "WRITE")
            /\ stored' = [page |-> page, isolated |-> isc, frame |-> DataFrame(before, page, "WRITE")]
  BY DEF Store
<1> DEFINE before == IF part THEN DataAfter(data_cache, page, "READ") ELSE data_cache
<1>4. CacheTyped(before, Pages) /\ Agrees(before)
  BY <1>1, Running, CachesHold, DataLookup
<1>5. /\ data_cache' = DataAfter(before, page, "WRITE")
      /\ stored' = [page |-> page, isolated |-> isc, frame |-> DataFrame(before, page, "WRITE")]
  BY <1>3
<1> HIDE DEF before
<1>6. /\ CacheTyped(data_cache', Pages) /\ Agrees(data_cache')
      /\ stored'.frame = IF isc /\ page < UserPages THEN Nothing ELSE Direct(page)
  BY <1>1, <1>4, <1>5, Running, DataLookup DEF Bypasses
<1>7. CacheTyped(data_cache, Pages)' /\ Agrees(data_cache)'
  BY <1>6 DEF CacheTyped, Agrees
<1>8. StoresLand'
  BY <1>5, <1>6 DEF StoresLand, Direct
<1> QED
  BY <1>1, <1>2, <1>7, <1>8, Running, Onwards, CachesHold DEF CachesAgree

LEMMA TrapInv ==
  ASSUME IopCoreAssumption, IopCoreInv, Trap
  PROVE  IopCoreInv'
<1>1. Runs("trap") /\ UNCHANGED <<program, lines, source>>
  BY DEF Trap, Continues, interrupts
<1> QED
  BY <1>1, Running, Exception DEF Trap

LEMMA IrqInv ==
  ASSUME IopCoreAssumption, IopCoreInv, Irq
  PROVE  IopCoreInv'
<1>1. UNCHANGED <<program, phase, pc, bdelay, stack, isc, bev, epc, saved, returning, branch, owed,
                  raised, data_cache, inst_cache, stored>>
  BY DEF Irq, control, status, caches, history
<1>2. lines' \subseteq {"irq"} /\ source' \in BOOLEAN
  BY DEF Irq, IopCoreInv, TypeOK
<1>3. phase \in {"check", "fetch", "run", "advance", "failed"} /\ (phase = "failed" => ~InKernel)
  BY DEF IopCoreInv, TypeOK, FailsInUser
<1> QED
  BY <1>1, <1>2, <1>3, Onwards, CachesHold DEF CachesAgree
-----------------------------------------------------------------------------
(* What no instruction of the handlers and of the branches touches.        *)
LEMMA RestHolds ==
  ASSUME IopCoreInv, phase' = "advance", ~raised, UNCHANGED <<data_cache, inst_cache, raised, stored>>,
         \A n \in 1..3 : stack'[n].ku => "user" \in program'.kinds,
         ~InKernel' => inst_cache = Flushed
  PROVE  /\ BeforeHandler' /\ StoresLand' /\ CachesAgree' /\ FailsInUser'
         /\ CacheTyped(data_cache, Pages)' /\ CacheTyped(inst_cache, Pages)'
<1>1. StoresLand' /\ CachesAgree'
  BY CachesHold DEF CachesAgree
<1>2. CacheTyped(data_cache, Pages)' /\ CacheTyped(inst_cache, Pages)'
  BY CachesHold
<1>3. BeforeHandler' /\ FailsInUser'
  BY DEF BeforeHandler, FailsInUser
<1> QED
  BY <1>1, <1>2, <1>3

LEMMA StackKnown ==
  ASSUME IopCoreInv
  PROVE  /\ stack \in [1..3 -> Levels] /\ owed \in Seq(Owed) /\ saved \in Seq(0..Addresses - 1)
         /\ program \in Programs /\ \A n \in 1..3 : stack[n].ku => "user" \in program.kinds
         /\ IopCoreAssumption => program.nesting \in 0..2
<1>1. /\ stack \in [1..3 -> Levels] /\ owed \in Seq(Owed) /\ saved \in Seq(0..Addresses - 1)
      /\ program \in Programs
  BY DEF IopCoreInv, TypeOK, Owed
<1>2. \A n \in 1..3 : stack[n].ku => "user" \in program.kinds
  BY DEF IopCoreInv, FailsInUser
<1> QED
  BY <1>1, <1>2 DEF IopCoreAssumption

(* A sequence with one element more.                                       *)
LEMMA Appended ==
  ASSUME NEW S, NEW s \in Seq(S), NEW e \in S
  PROVE  /\ Append(s, e) \in Seq(S) /\ Len(Append(s, e)) = Len(s) + 1
         /\ Append(s, e)[Len(s) + 1] = e
         /\ \A n \in 1..Len(s) : Append(s, e)[n] = s[n]
OBVIOUS

(* A handler saves what it has to return to before it may be interrupted.  *)
LEMMA SaveEpcInv ==
  ASSUME IopCoreAssumption, IopCoreInv, SaveEpc
  PROVE  IopCoreInv'
<1>1. Runs("status") /\ ~EpcSaved /\ saved' = Append(saved, epc)
      /\ UNCHANGED <<program, pc, bdelay, stack, isc, bev, epc, returning>>
      /\ UNCHANGED <<branch, owed, raised, stored>>
      /\ UNCHANGED <<lines, source, data_cache, inst_cache>>
  BY DEF SaveEpc, Continues, interrupts, control, status, caches, history
<1>2. /\ phase = "run" /\ phase' = "advance" /\ ~raised /\ ~returning /\ InKernel
      /\ bdelay.current_slot # 2
  BY <1>1, Running
<1>3. epc \in 0..Addresses - 1 /\ Len(saved) = Len(owed) - 1 /\ epc = owed[Len(owed)].pc /\ InterruptsMasked
  BY <1>1 DEF IopCoreInv, ReturnsToOwed, EpcSaved, TypeOK
<1>4. /\ saved' \in Seq(0..Addresses - 1) /\ Len(saved') = Len(owed)
      /\ \A n \in 1..Len(saved') : saved'[n] = owed[n].pc
  <2>1. \A n \in 1..Len(saved) : saved[n] = owed[n].pc
    BY DEF IopCoreInv, ReturnsToOwed
  <2>2. saved \in Seq(0..Addresses - 1) /\ owed \in Seq(Owed) /\ Len(saved) \in Nat /\ Len(owed) \in Nat
    BY StackKnown
  <2>3. /\ saved' \in Seq(0..Addresses - 1) /\ Len(saved') = Len(saved) + 1
        /\ saved'[Len(saved) + 1] = epc
        /\ \A n \in 1..Len(saved) : saved'[n] = saved[n]
    BY <1>1, <1>3, <2>2, Appended
  <2>4. ASSUME NEW n \in 1..Len(saved')
        PROVE  saved'[n] = owed[n].pc
    <3>1. CASE n = Len(saved) + 1
      BY <1>3, <2>2, <2>3, <3>1
    <3>2. CASE n \in 1..Len(saved)
      BY <2>1, <2>3, <3>2
    <3> QED
      BY <2>2, <2>3, <3>1, <3>2
  <2> QED
    BY <1>3, <2>2, <2>3, <2>4
<1>5. /\ BeforeHandler' /\ StoresLand' /\ CachesAgree' /\ FailsInUser'
      /\ CacheTyped(data_cache, Pages)' /\ CacheTyped(inst_cache, Pages)'
  BY <1>1, <1>2, StackKnown, RestHolds DEF InKernel
<1>6. TypeOK'
  BY <1>1, <1>2, <1>4, <1>5 DEF IopCoreInv, TypeOK
<1>7. ReturnsToOwed'
  BY <1>1, <1>3, <1>4 DEF IopCoreInv, ReturnsToOwed, EpcSaved, InterruptsMasked
<1>8. Returning' /\ SlotFollowsBranch'
  BY <1>1, <1>2 DEF IopCoreInv, Returning, SlotFollowsBranch
<1> QED
  BY <1>5, <1>6, <1>7, <1>8 DEF IopCoreInv

(* A program changes its own level and that of the program it returns to.  *)
LEMMA WriteStatusInv ==
  ASSUME IopCoreAssumption, IopCoreInv, WriteStatus
  PROVE  IopCoreInv'
<1>1. Runs("status") /\ EpcSaved
      /\ UNCHANGED <<program, pc, bdelay, epc, returning, branch, owed, saved, raised, stored>>
      /\ UNCHANGED <<lines, source, data_cache, inst_cache>>
  BY DEF WriteStatus, Continues, interrupts, control, caches, history
<1>2. /\ phase = "run" /\ phase' = "advance" /\ ~raised /\ ~returning /\ InKernel
      /\ bdelay.current_slot # 2
  BY <1>1, Running
<1>3. PICK enabled, isolated, boot, user \in BOOLEAN :
        /\ enabled => Len(owed) < program.nesting
        /\ user => "user" \in program.kinds
        /\ stack' = [stack EXCEPT ![1].ie = enabled, ![2].ku = user]
        /\ isc' = isolated /\ bev' = boot
  BY DEF WriteStatus
<1>4. stack' \in [1..3 -> Levels]
  <2>1. stack \in [1..3 -> Levels]
    BY StackKnown
  <2>2. [stack[1] EXCEPT !.ie = enabled] \in Levels /\ [stack[2] EXCEPT !.ku = user] \in Levels
    BY <2>1 DEF Levels
  <2>3. stack' = [stack EXCEPT ![1] = [stack[1] EXCEPT !.ie = enabled],
                               ![2] = [stack[2] EXCEPT !.ku = user]]
    BY <1>3, <2>1
  <2> QED
    BY <2>1, <2>2, <2>3
<1>5. /\ stack'[1].ie = enabled /\ stack'[1].ku = stack[1].ku
      /\ stack'[2].ie = stack[2].ie /\ stack'[2].ku = user /\ stack'[3] = stack[3]
  BY <1>3, StackKnown DEF Levels
<1>6. /\ BeforeHandler' /\ StoresLand' /\ CachesAgree' /\ FailsInUser'
      /\ CacheTyped(data_cache, Pages)' /\ CacheTyped(inst_cache, Pages)'
  <2>1. \A n \in 1..3 : stack'[n].ku => "user" \in program'.kinds
    BY <1>1, <1>3, <1>5, StackKnown
  <2>2. InKernel'
    BY <1>2, <1>5 DEF InKernel
  <2> QED
    BY <1>1, <1>2, <2>1, <2>2, RestHolds
<1>7. TypeOK'
  BY <1>1, <1>2, <1>3, <1>4, <1>6 DEF IopCoreInv, TypeOK
<1>8. ReturnsToOwed'
  <2>1. \A n \in 1..Len(owed) : stack'[Len(owed) - n + 2].ie = owed[n].ie
    <3>1. Len(owed) \in 0..2
      <4>1. program.nesting \in 0..2 /\ Len(owed) \in Nat
        BY StackKnown
      <4>2. Len(owed) <= program.nesting
        BY DEF IopCoreInv, ReturnsToOwed
      <4>3. \A a \in 0..2, b \in Nat : b <= a => b \in 0..2
        OBVIOUS
      <4> QED
        BY <4>1, <4>2, <4>3
    <3>2. \A n \in 1..Len(owed) : Len(owed) - n + 2 \in {2, 3}
      <4>1. \A k \in 0..2 : \A n \in 1..k : k - n + 2 \in {2, 3}
        OBVIOUS
      <4> QED
        BY <3>1, <4>1
    <3>3. \A n \in 1..Len(owed) : stack[Len(owed) - n + 2].ie = owed[n].ie
      BY DEF IopCoreInv, ReturnsToOwed
    <3> QED
      BY <1>5, <3>2, <3>3
  <2>2. Len(owed) = program.nesting => InterruptsMasked'
    BY <1>3, <1>5 DEF InterruptsMasked
  <2> QED
    BY <1>1, <2>1, <2>2 DEF IopCoreInv, ReturnsToOwed, EpcSaved
<1>9. Returning' /\ SlotFollowsBranch'
  BY <1>1, <1>2 DEF IopCoreInv, Returning, SlotFollowsBranch
<1> QED
  BY <1>6, <1>7, <1>8, <1>9 DEF IopCoreInv

(* A branch is where the PC is; that of a return leads to what is owed.    *)
LEMMA BranchInv ==
  ASSUME IopCoreAssumption, IopCoreInv, TakeBranch \/ JumpBack
  PROVE  IopCoreInv'
<1>1. /\ phase = "run" /\ phase' = "advance" /\ ~raised /\ ~returning /\ InKernel
      /\ pc \in 0..Addresses - 1
  <2>1. CASE TakeBranch
    <3>1. Runs("branch")
      BY <2>1 DEF TakeBranch
    <3> QED
      BY <3>1, Running
  <2>2. CASE JumpBack
    <3>1. Runs("status")
      BY <2>2 DEF JumpBack
    <3> QED
      BY <3>1, Running
  <2> QED
    BY <2>1, <2>2
<1>2. /\ UNCHANGED <<program, pc, stack, isc, bev, epc, owed, saved, raised, stored, lines, source>>
      /\ UNCHANGED <<data_cache, inst_cache>> /\ branch' = pc
  BY DEF TakeBranch, JumpBack, Continues, interrupts, status, caches
<1>3. PICK target \in 0..Addresses - 1 :
        /\ bdelay' = SetBranch(target) /\ returning' \in BOOLEAN
        /\ returning' => /\ owed # <<>> /\ EpcSaved /\ InterruptsMasked /\ target = owed[Len(owed)].pc
  <2>1. CASE TakeBranch
    <3>1. PICK target \in Targets : bdelay' = SetBranch(target)
      BY <2>1 DEF TakeBranch
    <3>2. target \in 0..Addresses - 1
      BY DEF IopCoreAssumption
    <3>3. returning' = FALSE
      BY <1>1, <2>1 DEF TakeBranch, IopCoreInv, TypeOK
    <3> QED
      BY <1>1, <3>1, <3>2, <3>3
  <2>2. CASE JumpBack
    <3>1. EpcSaved /\ owed # <<>> /\ InterruptsMasked /\ bdelay' = SetBranch(saved[Len(saved)])
          /\ returning' = TRUE
      BY <2>2 DEF JumpBack
    <3>2. Len(saved) = Len(owed) /\ Len(owed) \in Nat \ {0}
      BY <3>1, StackKnown DEF EpcSaved
    <3>3. Len(saved) \in 1..Len(saved) /\ saved[Len(saved)] \in 0..Addresses - 1
      <4>1. saved \in Seq(0..Addresses - 1) /\ saved # <<>>
        BY <3>2, StackKnown
      <4> QED
        BY <4>1, LastOf
    <3>4. saved[Len(saved)] = owed[Len(owed)].pc
      BY <3>2, <3>3 DEF IopCoreInv, ReturnsToOwed
    <3> QED
      BY <3>1, <3>3, <3>4
  <2> QED
    BY <2>1, <2>2
<1>4. bdelay' \in Slots /\ bdelay'.current_slot = 2 /\ bdelay'.branch_pc = target
  BY <1>3 DEF SetBranch, Slots
<1>5. /\ BeforeHandler' /\ StoresLand' /\ CachesAgree' /\ FailsInUser'
      /\ CacheTyped(data_cache, Pages)' /\ CacheTyped(inst_cache, Pages)'
  BY <1>1, <1>2, StackKnown, RestHolds DEF InKernel
<1>6. TypeOK'
  BY <1>1, <1>2, <1>3, <1>4, <1>5 DEF IopCoreInv, TypeOK, Slots
<1>7. ReturnsToOwed'
  BY <1>2 DEF IopCoreInv, ReturnsToOwed, EpcSaved, InterruptsMasked
<1>8. Returning' /\ SlotFollowsBranch'
  BY <1>1, <1>2, <1>3, <1>4 DEF Returning, SlotFollowsBranch, IsBranchPending, EpcSaved, InterruptsMasked
<1> QED
  BY <1>5, <1>6, <1>7, <1>8 DEF IopCoreInv

(* An RFE pops the level that the handler's exception pushed; the branch   *)
(* it is in the slot of leads to what the handler owes.                    *)
LEMMA RfeInv ==
  ASSUME IopCoreAssumption, IopCoreInv, Rfe
  PROVE  IopCoreInv'
<1> DEFINE n == Len(owed)
<1>1. /\ phase = "run" /\ phase' = "advance" /\ returning /\ returning' = FALSE /\ lines' = {}
      /\ UNCHANGED <<program, pc, bdelay, isc, bev, epc, source, branch, stored, raised>>
      /\ data_cache' = Flushed /\ inst_cache' = Flushed
      /\ saved' = SubSeq(saved, 1, Len(saved) - 1) /\ owed' = SubSeq(owed, 1, n - 1)
  BY DEF Rfe, control
<1>2. /\ ~raised /\ InterruptsMasked /\ Len(saved) = n /\ n \in 1..2 /\ n <= program.nesting
      /\ bdelay.current_slot # 2
  <2>1. owed # <<>> /\ EpcSaved /\ InterruptsMasked
    BY <1>1 DEF IopCoreInv, Returning
  <2>2. n <= program.nesting /\ ~raised /\ bdelay.current_slot # 2
    BY <1>1 DEF IopCoreInv, ReturnsToOwed, BeforeHandler, SlotFollowsBranch
  <2>3. n \in Nat \ {0} /\ program.nesting \in 0..2
    BY <2>1, StackKnown
  <2> QED
    BY <2>1, <2>2, <2>3 DEF EpcSaved
<1>3. /\ stack' \in [1..3 -> Levels]
      /\ stack'[1] = stack[2] /\ stack'[2] = stack[3] /\ stack'[3] = stack[3]
  <2>1. stack[2] \in Levels /\ stack[3] \in Levels
    BY StackKnown
  <2>2. stack' = <<stack[2], stack[3], stack[3]>>
    BY DEF Rfe, PopExceptionStack
  <2> QED
    BY <2>1, <2>2, StackOf
<1>4. /\ owed' \in Seq(Owed) /\ saved' \in Seq(0..Addresses - 1)
      /\ Len(owed') = n - 1 /\ Len(saved') = n - 1
      /\ \A m \in 1..n - 1 : owed'[m] = owed[m] /\ saved'[m] = saved[m]
  <2>1. owed \in Seq(Owed) /\ saved \in Seq(0..Addresses - 1)
    BY StackKnown
  <2>2. owed # <<>> /\ saved # <<>>
    BY <1>2
  <2> QED
    BY <1>1, <1>2, <2>1, <2>2, LastOf
<1>5. /\ CacheTyped(data_cache, Pages)' /\ CacheTyped(inst_cache, Pages)' /\ CachesAgree'
  BY <1>1, FlushedAgrees DEF CachesAgree, Agrees, CacheTyped
<1>6. TypeOK'
  BY <1>1, <1>3, <1>4, <1>5 DEF IopCoreInv, TypeOK, Owed
<1>7. ReturnsToOwed'
  <2>1. \A m \in 1..Len(saved') : saved'[m] = owed'[m].pc
    BY <1>2, <1>4 DEF IopCoreInv, ReturnsToOwed
  <2>2. \A m \in 1..Len(owed') : stack'[Len(owed') - m + 2].ie = owed'[m].ie
    <3>1. CASE n = 1
      BY <1>4, <3>1
    <3>2. CASE n = 2
      <4>1. stack[3].ie = owed[1].ie
        BY <3>2 DEF IopCoreInv, ReturnsToOwed
      <4>2. 1..Len(owed') = {1} /\ Len(owed') = 1 /\ owed'[1] = owed[1]
        BY <1>4, <3>2
      <4> QED
        BY <1>3, <4>1, <4>2
    <3> QED
      BY <1>2, <3>1, <3>2
  <2>3. Len(owed') < program'.nesting /\ Len(saved') = Len(owed')
    <3>1. program.nesting \in 0..2
      BY StackKnown
    <3> QED
      BY <1>1, <1>2, <1>4, <3>1
  <2>4. Len(owed') <= program'.nesting /\ Len(owed') # program'.nesting
    <3>1. program'.nesting \in 0..2 /\ Len(owed') \in Nat
      BY <1>1, <1>4, StackKnown
    <3> QED
      BY <2>3, <3>1
  <2> QED
    BY <2>1, <2>2, <2>3, <2>4 DEF ReturnsToOwed, EpcSaved
<1>8. Returning' /\ SlotFollowsBranch' /\ BeforeHandler' /\ StoresLand'
  BY <1>1, <1>2, CachesHold DEF IopCoreInv, Returning, SlotFollowsBranch, BeforeHandler
<1>9. FailsInUser'
  BY <1>1, <1>3, StackKnown DEF FailsInUser
<1> QED
  BY <1>5, <1>6, <1>7, <1>8, <1>9 DEF IopCoreInv

(* The end of the time step: a branch comes to its slot, or the slot to    *)
(* the branch's target.                                                    *)
LEMMA AdvanceInv ==
  ASSUME IopCoreAssumption, IopCoreInv, Advance
  PROVE  IopCoreInv'
<1>1. /\ phase = "advance" /\ phase' = "check" /\ raised' = FALSE /\ stored' = NoStore
      /\ UNCHANGED <<program, stack, isc, bev, epc, lines, source, saved, returning, owed>>
      /\ UNCHANGED <<data_cache, inst_cache>>
      /\ pc' = AdvancedPc(bdelay, pc) /\ bdelay' = AdvanceSlot(bdelay)
      /\ branch' = IF IsBranchPending(bdelay)' THEN branch ELSE 0
  BY DEF Advance, status, caches, interrupts, IsBranchPending
<1>2. bdelay \in Slots /\ pc \in 0..Addresses - 1 /\ branch \in 0..Addresses - 1 /\ 0 \in 0..Addresses - 1
  BY DEF IopCoreInv, TypeOK, Slots, IopCoreAssumption
<1>3. /\ bdelay' \in Slots /\ bdelay'.current_slot \in {0, 1}
      /\ bdelay'.current_slot = 1 <=> bdelay.current_slot = 2
      /\ bdelay'.current_slot = 1 => bdelay'.branch_pc = bdelay.branch_pc
  BY <1>1, <1>2 DEF AdvanceSlot, NoBranch, Slots
<1>4. pc' \in 0..Addresses - 1 /\ (bdelay.current_slot = 2 => pc' = Wrap(pc + 1))
  <2>1. Wrap(pc + 1) \in 0..Addresses - 1
    BY <1>2, WrapType
  <2> QED
    BY <1>1, <1>2, <2>1 DEF AdvancedPc, Slots
<1>5. CacheTyped(data_cache, Pages)' /\ CacheTyped(inst_cache, Pages)' /\ CachesAgree'
  BY <1>1, CachesHold DEF CachesAgree
<1>6. TypeOK'
  <2>1. branch' \in 0..Addresses - 1
    BY <1>1, <1>2
  <2> QED
    BY <1>1, <1>3, <1>4, <1>5, <2>1 DEF IopCoreInv, TypeOK, Slots
<1>7. SlotFollowsBranch'
  <2>1. ASSUME bdelay'.current_slot = 1 PROVE Wrap(pc' - 1) = branch'
    <3>1. pc = branch /\ pc' = Wrap(pc + 1)
      BY <1>1, <1>3, <1>4, <2>1 DEF IopCoreInv, SlotFollowsBranch
    <3>2. branch' = branch
      BY <1>1, <1>3, <2>1 DEF IsBranchPending
    <3> QED
      BY <1>2, <3>1, <3>2, WrapBack
  <2> QED
    BY <1>3, <2>1 DEF SlotFollowsBranch
<1>8. Returning'
  BY <1>1, <1>3 DEF IopCoreInv, Returning, IsBranchPending, EpcSaved, InterruptsMasked
<1>9. ReturnsToOwed' /\ BeforeHandler' /\ StoresLand' /\ FailsInUser'
  BY <1>1 DEF IopCoreInv, ReturnsToOwed, BeforeHandler, StoresLand, FailsInUser, EpcSaved,
     InterruptsMasked, InKernel
<1> QED
  BY <1>5, <1>6, <1>7, <1>8, <1>9 DEF IopCoreInv
-----------------------------------------------------------------------------
LEMMA CoreStep ==
  ASSUME IopCoreAssumption, IopCoreInv, [Next]_vars
  PROVE  IopCoreInv'
<1>1. CASE Run
  BY <1>1, PlainInv, BranchInv, TrapInv, SaveEpcInv, WriteStatusInv, RfeInv, LoadInv, StoreInv DEF Run
<1>2. CASE InterruptCheck \/ Fetch \/ Advance \/ Irq
  BY <1>2, InterruptCheckInv, FetchInv, AdvanceInv, IrqInv
<1>3. CASE UNCHANGED vars
  <2>1. UNCHANGED <<program, phase, pc, bdelay, stack, isc, bev, epc, saved, returning, branch, owed,
                    raised, data_cache, inst_cache, stored, lines, source>>
    BY <1>3 DEF vars, control, status, caches, interrupts, history
  <2>2. phase \in {"check", "fetch", "run", "advance", "failed"} /\ (phase = "failed" => ~InKernel)
    BY DEF IopCoreInv, TypeOK, FailsInUser
  <2> QED
    BY <2>1, <2>2, Onwards, CachesHold DEF CachesAgree
<1> QED
  BY <1>1, <1>2, <1>3 DEF Next, Step

(* Whatever the programs are, of which not more than two handlers run at a *)
(* time: each handler returns to the instruction that did not run to its   *)
(* end, or to the branch whose slot that was, with interrupts enabled as   *)
(* they were; stores land where their addresses say, or nowhere while the  *)
(* cache is isolated; and only a program that leaves the kernel stops the  *)
(* core (CIopCore.cpp:269-371, 399-453, IopCoreCop0Registers.cpp:12-24,    *)
(* CIopCoreInterpreter_OTHERS.cpp:84-105).                                 *)
THEOREM IopCoreInvariance ==
  ASSUME IopCoreAssumption
  PROVE  Spec => []IopCoreInv
<1>1. Init => IopCoreInv
  BY InitCore
<1>2. IopCoreInv /\ [Next]_vars => IopCoreInv'
  BY CoreStep
<1> QED
  BY <1>1, <1>2, PTL DEF Spec
-----------------------------------------------------------------------------
(* The CDVD drive.                                                         *)
LEMMA AreaSizes ==
  /\ SizeOf(0) = 4 /\ SizeOf(1) = 2 /\ SizeOf(2) = 7
  /\ \A area \in Areas : SizeOf(area) \in 1..7
BY DEF SizeOf, AreaBlocks, Areas

(* The areas do not overlap.                                               *)
LEMMA AddressOf ==
  /\ \A b \in Blocks : b = <<b[1], b[2]>> /\ Address(b[1], b[2]) \in 32..49
  /\ \A area \in Areas, block \in 0..7 :
       block < SizeOf(area) => <<area, block>> \in Blocks /\ Address(area, block) \in 32..49
  /\ \A b, c \in Blocks : Address(b[1], b[2]) = Address(c[1], c[2]) => b = c
<1>1. \A block \in Int : /\ Address(0, block) = 40 + block
                         /\ Address(1, block) = 48 + block
                         /\ Address(2, block) = 32 + block
  BY DEF Address
<1>2. \A b \in Blocks : /\ b = <<b[1], b[2]>> /\ b[1] \in Areas /\ b[2] \in 0..6 /\ b[2] < SizeOf(b[1])
  BY DEF Blocks
<1>3. \A area \in Areas, block \in 0..7 : block < SizeOf(area) => <<area, block>> \in Blocks
  BY AreaSizes DEF Blocks, Areas
<1>4. \A area \in Areas, block \in 0..7 : block < SizeOf(area) => Address(area, block) \in 32..49
  BY <1>1, AreaSizes DEF Areas
<1>5. ASSUME NEW b \in Blocks, NEW c \in Blocks, Address(b[1], b[2]) = Address(c[1], c[2])
      PROVE  b[1] = c[1] /\ b[2] = c[2]
  BY <1>1, <1>2, <1>5, AreaSizes DEF Areas
<1>6. \A b, c \in Blocks : Address(b[1], b[2]) = Address(c[1], c[2]) => b = c
  BY <1>2, <1>5
<1>7. \A b \in Blocks : Address(b[1], b[2]) \in 32..49
  BY <1>2, <1>4
<1> QED
  BY <1>2, <1>3, <1>4, <1>6, <1>7

LEMMA StoredIs ==
  ASSUME DriveTypeOK
  PROVE  /\ Stored \in [Blocks -> Contents] /\ Open \in Opens
         /\ \A area \in Areas, block \in 0..7 :
              block < SizeOf(area) => Stored[<<area, block>>] = nvram[Address(area, block)]
<1>1. nvram \in [32..49 -> Contents]
  BY DEF DriveTypeOK
<1>2. Stored \in [Blocks -> Contents]
  BY <1>1, AddressOf DEF Stored
<1>3. Open \in Opens
  BY DEF DriveTypeOK, Accesses, Open, Opens
<1>4. ASSUME NEW area \in Areas, NEW block \in 0..7, block < SizeOf(area)
      PROVE  Stored[<<area, block>>] = nvram[Address(area, block)]
  BY <1>4, AddressOf DEF Stored
<1> QED
  BY <1>2, <1>3, <1>4

LEMMA BytesOf ==
  ASSUME CdvdAssumption, NEW c \in Contents
  PROVE  /\ Bytes(c) \in Seq(ResultBytes) /\ Bytes(c) # <<>>
         /\ Len(Bytes(c)) = BlockBytes /\ Bytes(c)[1][1] = c
<1>1. BlockBytes \in Nat /\ BlockBytes >= 1
  BY DEF CdvdAssumption
<1>2. \A i \in 1..BlockBytes : <<c, i>> \in ResultBytes
  BY DEF ResultBytes
<1>3. Bytes(c) \in [1..BlockBytes -> ResultBytes]
  BY <1>2 DEF Bytes
<1>4. Bytes(c) \in Seq(ResultBytes) /\ Len(Bytes(c)) = BlockBytes
  BY <1>1, <1>3
<1>5. Bytes(c)[1][1] = c
  BY <1>1 DEF Bytes
<1> QED
  BY <1>1, <1>4, <1>5, EmptySeq

LEMMA OtherResults ==
  /\ Time \in Seq(ResultBytes) /\ Time # <<>>
  /\ <<Done>> \in Seq(ResultBytes) /\ <<Done>> # <<>>
<1>1. \A i \in 1..8 : <<"time", i>> \in ResultBytes
  BY DEF ResultBytes
<1>2. Time \in [1..8 -> ResultBytes]
  BY <1>1 DEF Time
<1>3. Time \in Seq(ResultBytes) /\ Len(Time) = 8
  <2>1. \A n \in Nat : \A s \in [1..n -> ResultBytes] : s \in Seq(ResultBytes) /\ Len(s) = n
    OBVIOUS
  <2> QED
    BY <1>2, <2>1
<1>4. Done \in ResultBytes
  BY DEF ResultBytes
<1>5. <<Done>> \in Seq(ResultBytes) /\ Len(<<Done>>) = 1
  BY <1>4
<1>6. \A s \in Seq(ResultBytes) : Len(s) \in Nat \ {0} => s # <<>>
  BY EmptySeq
<1>7. Time # <<>> /\ <<Done>> # <<>>
  <2> 8 \in Nat \ {0} /\ 1 \in Nat \ {0}
    OBVIOUS
  <2> HIDE DEF Time
  <2> QED
    BY <1>3, <1>5, <1>6
<1> QED
  BY <1>3, <1>5, <1>7

LEMMA CommandIs ==
  ASSUME NEW c \in Commands
  PROVE  /\ c.name \in {"08", "15", "40", "41", "42", "43", "unknown"}
         /\ c.name \notin {"40", "42"} => c.params = <<>>
         /\ c.name = "40" =>
              \E rw \in 0..1, area \in Areas, max \in MaxBlocks : c.params = <<rw, area, max>>
         /\ c.name = "42" => \E content \in Contents : c.params = Bytes(content)
BY DEF Commands

LEMMA AnswerIs ==
  ASSUME CdvdAssumption, NEW open \in Opens, NEW blocks \in [Blocks -> Contents], NEW c \in Commands
  PROVE  /\ Results(open, blocks, c) \in Seq(ResultBytes) /\ Results(open, blocks, c) # <<>>
         /\ Answer(open, blocks, c) \in Seq(ResultBytes)
         /\ (Answer(open, blocks, c) = <<>>) <=> ~Legal(open, c)
<1>1. Zero \in Contents
  BY DEF CdvdAssumption
<1>2. Inside(open) => blocks[<<open.area, open.next>>] \in Contents
  BY AddressOf DEF Inside, Opens
<1>3. Results(open, blocks, c) \in Seq(ResultBytes) /\ Results(open, blocks, c) # <<>>
  <2>1. CASE c.name = "41"
    <3>1. Results(open, blocks, c) = Bytes(IF Inside(open) THEN blocks[<<open.area, open.next>>] ELSE Zero)
      BY <2>1 DEF Results
    <3> QED
      BY <1>1, <1>2, <3>1, BytesOf
  <2>2. CASE c.name # "41"
    <3>1. Results(open, blocks, c) \in {Time, <<Done>>}
      BY <2>2 DEF Results
    <3> QED
      BY <3>1, OtherResults
  <2> QED
    BY <2>1, <2>2
<1> QED
  BY <1>3, EmptySeq DEF Answer

LEMMA AfterIs ==
  ASSUME CdvdAssumption, NEW open \in Opens, NEW blocks \in [Blocks -> Contents], NEW c \in Commands
  PROVE  OpenAfter(open, c) \in Opens /\ BlocksAfter(open, blocks, c) \in [Blocks -> Contents]
<1>1. c.name = "40" => c.params[1] \in 0..1 /\ c.params[2] \in Areas /\ c.params[3] \in MaxBlocks
  BY CommandIs
<1>2. c.name = "42" => c.params[1][1] \in Contents
  BY CommandIs, BytesOf
<1>3. Closed \in Opens
  BY DEF Closed, Opens, Areas
<1>4. c.name \in {"41", "42"} /\ Inside(open) => [open EXCEPT !.next = open.next + 1] \in Opens
  BY AreaSizes DEF Inside, Opens
<1>5. OpenAfter(open, c) \in Opens
  <2>1. CASE c.name = "40"
    BY <1>1, <2>1 DEF OpenAfter, Opens
  <2>2. CASE c.name # "40"
    BY <1>3, <1>4, <2>2 DEF OpenAfter
  <2> QED
    BY <2>1, <2>2
<1> QED
  BY <1>2, <1>5 DEF BlocksAfter

(* A closed area is as good as one that is open for reading no block.      *)
LEMMA SameAnswers ==
  ASSUME NEW open, NEW other, Same(open, other), NEW blocks, NEW c \in Commands
  PROVE  /\ Answer(open, blocks, c) = Answer(other, blocks, c)
         /\ BlocksAfter(open, blocks, c) = BlocksAfter(other, blocks, c)
         /\ Legal(open, c) => Same(OpenAfter(open, c), OpenAfter(other, c))
<1>1. CASE open = other
  BY <1>1 DEF Same
<1>2. CASE open = Closed /\ other = [Closed EXCEPT !.mode = "reading"]
  <2>1. open.mode = "closed" /\ other.mode = "reading" /\ Inside(other)
        /\ open.next = 0 /\ other.next = 0 /\ other.max = 0
    BY <1>2, AreaSizes DEF Closed, Inside
  <2>2. c.name = "41" => ~Legal(open, c) /\ ~Legal(other, c)
    BY <2>1 DEF Legal
  <2>3. c.name = "42" => ~Legal(open, c) /\ ~Legal(other, c)
    BY <2>1 DEF Legal
  <2>4. c.name \notin {"41", "42"} => /\ Legal(open, c) = Legal(other, c)
                                     /\ Results(open, blocks, c) = Results(other, blocks, c)
    BY DEF Legal, Results
  <2>5. c.name \notin {"41", "42"} => Same(OpenAfter(open, c), OpenAfter(other, c))
    BY <1>2 DEF OpenAfter, Same
  <2>6. Answer(open, blocks, c) = Answer(other, blocks, c)
    BY <2>2, <2>3, <2>4 DEF Answer
  <2> QED
    BY <2>2, <2>3, <2>5, <2>6 DEF BlocksAfter
<1> QED
  BY <1>1, <1>2 DEF Same

(* A command finds its parameters and leaves none.                         *)
LEMMA ParamsOf ==
  ASSUME CdvdAssumption, NEW c \in Commands
  PROVE  /\ SubSeq(c.params, 1, Needs(c.name)) = c.params
         /\ SubSeq(c.params, Needs(c.name) + 1, Len(c.params)) = <<>>
         /\ \E S : c.params \in Seq(S)
<1>1. \A S : \A s \in Seq(S) : /\ SubSeq(s, 1, Len(s)) = s /\ SubSeq(s, Len(s) + 1, Len(s)) = <<>>
                               /\ Len(s) \in Nat
  <2> SUFFICES ASSUME NEW S, NEW s \in Seq(S)
               PROVE  /\ SubSeq(s, 1, Len(s)) = s /\ SubSeq(s, Len(s) + 1, Len(s)) = <<>>
                      /\ Len(s) \in Nat
    OBVIOUS
  <2>1. Len(s) \in Nat /\ SubSeq(s, 1, Len(s)) = s
    BY LenProperties, SubSeqFull
  <2> QED
    BY <2>1, SubSeqEmpty
<1>2. CASE c.name = "40"
  <2>1. PICK rw \in 0..1, area \in Areas, max \in MaxBlocks : c.params = <<rw, area, max>>
    BY <1>2, CommandIs
  <2>2. c.params \in Seq(0..1 \cup Areas \cup MaxBlocks) /\ Len(c.params) = 3
    BY <2>1
  <2> QED
    BY <1>1, <1>2, <2>2 DEF Needs
<1>3. CASE c.name = "42"
  <2>1. c.params \in Seq(ResultBytes) /\ Len(c.params) = BlockBytes
    BY <1>3, CommandIs, BytesOf
  <2> QED
    BY <1>1, <1>3, <2>1 DEF Needs
<1>4. CASE c.name \notin {"40", "42"}
  <2>1. c.params = <<>> /\ Needs(c.name) = 0
    BY <1>4, CommandIs DEF Needs
  <2>2. c.params \in Seq({}) /\ Len(c.params) = 0
    BY <2>1, EmptySeq
  <2> QED
    BY <1>1, <2>1, <2>2
<1> QED
  BY <1>2, <1>3, <1>4
(* What has been stored, and asked for, stays when nobody writes to it.    *)
LEMMA Untouched ==
  ASSUME UNCHANGED <<access, nvram>>
  PROVE  UNCHANGED <<Open, Stored>>
BY DEF Open, Stored

LEMMA Between ==
  ASSUME CdvdAssumption, CdvdInv
  PROVE  /\ Nobody \notin {"cdvd", "iop"}
         /\ Prog("command") /\ lock.command = Nobody => Cdvd("idle") /\ ~latch /\ ~ready.BUSY
         /\ prog.at \notin {"wait", "latch"} => ~ready.BUSY
BY DEF CdvdInv, InTurn, LocksHeld, Waiting, Prog, Cdvd, CdvdAssumption, Actors

LEMMA DriveInitInv ==
  ASSUME CdvdAssumption, DriveInit
  PROVE  CdvdInv
<1>1. DriveTypeOK
  <2>1. \A S : <<>> \in Seq(S)
    OBVIOUS
  <2>2. NoCommand \in Commands
    BY DEF NoCommand, Commands
  <2>3. /\ ready \in Flags /\ latch \in BOOLEAN /\ command \in Commands
        /\ lock \in Locks
        /\ commands \in Nat /\ runs \in Int
    <3>1. ready \in Flags
      BY DEF DriveInit, Flags
    <3>2. lock \in Locks
      BY DEF DriveInit, Locks
    <3>3. latch = FALSE /\ command = NoCommand /\ commands = 0 /\ runs = 0
      BY DEF DriveInit
    <3>4. 0 \in Nat /\ 0 \in Int /\ FALSE \in BOOLEAN
      OBVIOUS
    <3>5. latch \in BOOLEAN /\ command \in Commands /\ commands \in Nat /\ runs \in Int
      BY <2>2, <3>3, <3>4, Zenon
    <3> QED
      BY <3>1, <3>2, <3>5
  <2>4. /\ access \in Accesses
        /\ config \in Opens
    BY DEF DriveInit, Areas, Closed, Accesses, Opens
  <2>5. nvram \in [32..49 -> Contents] /\ written \in [Blocks -> Contents]
    BY DEF DriveInit, CdvdAssumption
  <2>6. NoFlags \in Flags
    BY DEF NoFlags, Flags
  <2>7. data_out \in Seq(ResultBytes) /\ wanted \in Seq(ResultBytes)
    BY <2>1 DEF DriveInit
  <2>8. cdvd \in DriveStates
    BY <2>1, <2>6 DEF DriveInit, DriveStates
  <2>9. prog \in ProgramStates
    BY <2>1, <2>2, <2>6 DEF DriveInit, ProgramStates
  <2> QED
    BY <2>3, <2>4, <2>5, <2>7, <2>8, <2>9 DEF DriveTypeOK
<1>2. InTurn /\ LocksHeld /\ FlagsKnown
  BY DEF DriveInit, InTurn, LocksHeld, FlagsKnown, Waiting, Prog, Cdvd
<1>3. CommandKnown
  BY DEF DriveInit, CommandKnown, Pending, Waiting, Prog, Cdvd
<1>4. Same(config, Open) /\ written = Stored
  <2>1. \A b \in Blocks : nvram[Address(b[1], b[2])] = Zero
    BY AddressOf DEF DriveInit
  <2>2. /\ written = [b \in Blocks |-> Zero] /\ config = Closed
        /\ access = [read_write |-> 0, area |-> 0, max |-> 0, block |-> 0]
    BY DEF DriveInit
  <2>3. written = Stored
    BY <2>1, <2>2 DEF Stored
  <2>4. Open = [Closed EXCEPT !.mode = "reading"]
    BY <2>2 DEF Open, Closed
  <2> QED
    BY <2>2, <2>3, <2>4 DEF Same
<1>5. ResultsKnown
  <2>1. (<<>> \o <<>>) \o <<>> = <<>>
    OBVIOUS
  <2> QED
    BY <1>4, <2>1 DEF DriveInit, ResultsKnown, Pending, Waiting, Prog, Cdvd
<1> QED
  BY <1>1, <1>2, <1>3, <1>5 DEF CdvdInv

(* The program picks a command and knows what it is to be answered.        *)
LEMMA ChooseInv ==
  ASSUME CdvdAssumption, CdvdInv, Choose
  PROVE  CdvdInv'
<1>1. PICK c \in Commands :
        /\ prog' = [prog EXCEPT !.at = "command", !.command = c, !.got = <<>>]
        /\ data_in' = data_in \o c.params /\ Record(c)
  BY DEF Choose
<1>2. Prog("choose") /\ commands' = commands + 1
      /\ UNCHANGED <<ready, command, latch, data_out, lock, access, nvram, cdvd, runs>>
  BY <1>1 DEF Choose, store, Record
<1>3. /\ ~ready.BUSY /\ cdvd.at \in {"idle", "unlatch"} /\ ~Pending
      /\ data_in = <<>> /\ data_out = <<>> /\ runs = commands /\ Same(config, Open) /\ written = Stored
  BY <1>2, Between DEF CdvdInv, InTurn, CommandKnown, ResultsKnown, Pending, Waiting, Prog, Cdvd
<1>4. DriveTypeOK /\ config \in Opens /\ written \in [Blocks -> Contents]
  BY DEF CdvdInv, DriveTypeOK
<1>5. /\ wanted' \in Seq(ResultBytes) /\ config' \in Opens /\ written' \in [Blocks -> Contents]
      /\ wanted' # <<>> => Legal(config, c)
  BY <1>1, <1>4, AnswerIs, AfterIs DEF Record
<1>6. DriveTypeOK'
  <2>1. <<>> \in Seq(ResultBytes)
    BY EmptySeq
  <2>2. prog' \in ProgramStates
    BY <1>1, <1>4, <2>1 DEF DriveTypeOK, ProgramStates
  <2>3. commands' \in Nat
    BY <1>2, <1>4 DEF DriveTypeOK
  <2> QED
    BY <1>2, <1>4, <1>5, <2>2, <2>3 DEF DriveTypeOK
<1>7. InTurn' /\ LocksHeld' /\ FlagsKnown'
  <2>1. InTurn'
    BY <1>1, <1>2, <1>3, <1>4 DEF CdvdInv, InTurn, Waiting, Prog, Cdvd
  <2>2. LocksHeld'
    BY <1>1, <1>2, <1>3, <1>4 DEF CdvdInv, InTurn, LocksHeld, Waiting, Prog, Cdvd
  <2>3. FlagsKnown'
    BY <1>1, <1>2, <1>3, <1>4 DEF CdvdInv, InTurn, FlagsKnown, Waiting, Prog, Cdvd
  <2> QED
    BY <2>1, <2>2, <2>3
<1>8. data_in' = c.params
  <2>1. PICK S : c.params \in Seq(S)
    BY ParamsOf
  <2> QED
    BY <1>1, <1>3, <2>1, ConcatEmptySeq
<1>9. /\ wanted' = Answer(Open, Stored, c)
      /\ wanted' # <<>> => /\ Same(config', OpenAfter(Open, c)) /\ written' = BlocksAfter(Open, Stored, c)
  BY <1>1, <1>3, <1>5, SameAnswers DEF Record
<1>10. UNCHANGED <<Open, Stored>>
  BY <1>2, Untouched
<1>11. prog'.at = "command" /\ prog'.command = c /\ prog'.got = <<>>
  BY <1>1, <1>4 DEF DriveTypeOK
<1>12. CommandKnown'
  BY <1>2, <1>3, <1>4, <1>8, <1>9, <1>10, <1>11 DEF CommandKnown, Pending, Waiting, Prog, Cdvd, DriveTypeOK
<1>13. ResultsKnown'
  BY <1>2, <1>3, <1>11 DEF CdvdInv, ResultsKnown, Pending, Waiting, Prog, Cdvd
<1> QED
  BY <1>6, <1>7, <1>12, <1>13 DEF CdvdInv

(* The command is on its way, and nothing that it asks for has changed.    *)
LEMMA OnItsWay ==
  ASSUME CdvdInv, Pending, Pending',
         UNCHANGED <<data_in, data_out, access, nvram, config, written, wanted, runs, commands>>,
         prog'.command = prog.command, prog'.got = prog.got, cdvd'.out = cdvd.out,
         prog'.at \in {"busy", "latch"} \/ Waiting' => command' = prog.command,
         cdvd'.at \notin {"push", "some", "failed"}, prog'.at # "choose"
  PROVE  CommandKnown' /\ ResultsKnown'
<1>1. UNCHANGED <<Open, Stored>>
  BY Untouched
<1>2. cdvd.at \notin {"push", "some"}
  BY DEF CdvdInv, InTurn, Pending, Waiting, Prog, Cdvd
<1>3. CommandKnown'
  BY <1>1 DEF CdvdInv, CommandKnown
<1>4. ResultsKnown'
  BY <1>1, <1>2 DEF CdvdInv, ResultsKnown, CommandKnown, Prog, Cdvd
<1> QED
  BY <1>3, <1>4

LEMMA WriteCommandInv ==
  ASSUME CdvdAssumption, CdvdInv, WriteCommand
  PROVE  CdvdInv'
<1>1. /\ Prog("command") /\ lock.command = Nobody /\ lock' = [lock EXCEPT !.command = "iop"]
      /\ prog' = [prog EXCEPT !.at = "busy", !.read = ready] /\ command' = prog.command
      /\ UNCHANGED <<ready, latch, data_in, data_out, access, nvram, cdvd, commands>>
      /\ UNCHANGED <<config, written, wanted, runs>>
  BY DEF WriteCommand, store, drive_history
<1>2. Cdvd("idle") /\ ~latch /\ ~ready.BUSY /\ DriveTypeOK
  BY <1>1, Between DEF CdvdInv
<1>3. DriveTypeOK'
  <2>1. lock' \in Locks
    BY <1>1, <1>2 DEF DriveTypeOK, Locks, Actors
  <2>2. cdvd' \in DriveStates
    BY <1>1, <1>2 DEF DriveTypeOK, DriveStates
  <2>3. prog' \in ProgramStates
    BY <1>1, <1>2 DEF DriveTypeOK, ProgramStates
  <2>4. ready' \in Flags
    BY <1>1, <1>2 DEF DriveTypeOK, Flags
  <2>5. command' \in Commands
    BY <1>1, <1>2 DEF DriveTypeOK, ProgramStates
  <2> QED
    BY <1>1, <1>2, <2>1, <2>2, <2>3, <2>4, <2>5 DEF DriveTypeOK
<1>4. InTurn' /\ LocksHeld' /\ FlagsKnown'
  <2>1. InTurn'
    BY <1>1, <1>2 DEF CdvdInv, InTurn, Waiting, Prog, Cdvd
  <2>2. LocksHeld'
    BY <1>1, <1>2 DEF CdvdInv, InTurn, LocksHeld, Waiting, Prog, Cdvd
  <2>3. FlagsKnown'
    BY <1>1, <1>2 DEF CdvdInv, InTurn, FlagsKnown, Waiting, Prog, Cdvd
  <2> QED
    BY <2>1, <2>2, <2>3
<1>5. CommandKnown' /\ ResultsKnown'
  BY <1>1, <1>2, OnItsWay DEF Pending, Waiting, Prog, Cdvd
<1> QED
  BY <1>3, <1>4, <1>5 DEF CdvdInv

LEMMA SetBusyInv ==
  ASSUME CdvdAssumption, CdvdInv, SetBusy
  PROVE  CdvdInv'
<1>1. /\ Prog("busy") /\ ready' = [prog.read EXCEPT !.BUSY = TRUE] /\ prog' = [prog EXCEPT !.at = "latch"]
      /\ UNCHANGED <<command, latch, data_in, data_out, lock, access, nvram, cdvd, commands>>
      /\ UNCHANGED <<config, written, wanted, runs>>
  BY DEF SetBusy, ProgGoto, store, drive_history
<1>2. Cdvd("idle") /\ ~latch /\ prog.read = ready /\ command = prog.command /\ DriveTypeOK
  BY <1>1 DEF CdvdInv, InTurn, FlagsKnown, CommandKnown, Waiting, Prog, Cdvd
<1>3. DriveTypeOK'
  <2>1. lock' \in Locks
    BY <1>1, <1>2 DEF DriveTypeOK, Locks, Actors
  <2>2. cdvd' \in DriveStates
    BY <1>1, <1>2 DEF DriveTypeOK, DriveStates
  <2>3. prog' \in ProgramStates
    BY <1>1, <1>2 DEF DriveTypeOK, ProgramStates
  <2>4. ready' \in Flags
    BY <1>1, <1>2 DEF DriveTypeOK, Flags
  <2> QED
    BY <1>1, <1>2, <2>1, <2>2, <2>3, <2>4 DEF DriveTypeOK
<1>4. InTurn' /\ LocksHeld' /\ FlagsKnown'
  <2>1. InTurn'
    BY <1>1, <1>2 DEF CdvdInv, InTurn, Waiting, Prog, Cdvd
  <2>2. LocksHeld'
    BY <1>1, <1>2 DEF CdvdInv, InTurn, LocksHeld, Waiting, Prog, Cdvd
  <2>3. FlagsKnown'
    BY <1>1, <1>2 DEF CdvdInv, InTurn, FlagsKnown, Waiting, Prog, Cdvd
  <2> QED
    BY <2>1, <2>2, <2>3
<1>5. CommandKnown' /\ ResultsKnown'
  BY <1>1, <1>2, OnItsWay DEF Pending, Waiting, Prog, Cdvd
<1> QED
  BY <1>3, <1>4, <1>5 DEF CdvdInv

LEMMA SetLatchInv ==
  ASSUME CdvdAssumption, CdvdInv, SetLatch
  PROVE  CdvdInv'
<1>1. /\ Prog("latch") /\ latch' = TRUE /\ prog' = [prog EXCEPT !.at = "wait"]
      /\ lock' = [lock EXCEPT !.command = Nobody]
      /\ UNCHANGED <<ready, command, data_in, data_out, access, nvram, cdvd, commands>>
      /\ UNCHANGED <<config, written, wanted, runs>>
  BY DEF SetLatch, ProgGoto, store, drive_history
<1>2. Cdvd("idle") /\ ready.BUSY /\ command = prog.command /\ DriveTypeOK
  BY <1>1 DEF CdvdInv, InTurn, CommandKnown, Waiting, Prog, Cdvd
<1>3. DriveTypeOK'
  <2>1. lock' \in Locks
    BY <1>1, <1>2 DEF DriveTypeOK, Locks, Actors
  <2>2. cdvd' \in DriveStates
    BY <1>1, <1>2 DEF DriveTypeOK, DriveStates
  <2>3. prog' \in ProgramStates
    BY <1>1, <1>2 DEF DriveTypeOK, ProgramStates
  <2>4. ready' \in Flags
    BY <1>1, <1>2 DEF DriveTypeOK, Flags
  <2> QED
    BY <1>1, <1>2, <2>1, <2>2, <2>3, <2>4 DEF DriveTypeOK
<1>4. InTurn' /\ LocksHeld' /\ FlagsKnown'
  <2>1. InTurn'
    BY <1>1, <1>2 DEF CdvdInv, InTurn, Waiting, Prog, Cdvd
  <2>2. LocksHeld'
    BY <1>1, <1>2 DEF CdvdInv, InTurn, LocksHeld, Waiting, Prog, Cdvd
  <2>3. FlagsKnown'
    BY <1>1, <1>2 DEF CdvdInv, InTurn, FlagsKnown, Waiting, Prog, Cdvd
  <2> QED
    BY <2>1, <2>2, <2>3
<1>5. CommandKnown' /\ ResultsKnown'
  BY <1>1, <1>2, OnItsWay DEF Pending, Waiting, Prog, Cdvd
<1> QED
  BY <1>3, <1>4, <1>5 DEF CdvdInv

LEMMA SeeLatchInv ==
  ASSUME CdvdAssumption, CdvdInv, SeeLatch \/ LockCommand
  PROVE  CdvdInv'
<1>1. /\ prog' = prog /\ UNCHANGED <<ready, command, latch, data_in, data_out, access, nvram, commands>>
      /\ UNCHANGED <<config, written, wanted, runs>>
      /\ \/ Cdvd("idle") /\ latch /\ cdvd' = [cdvd EXCEPT !.at = "lock"] /\ UNCHANGED lock
         \/ Cdvd("lock") /\ lock.command = Nobody /\ lock' = [lock EXCEPT !.command = "cdvd"]
            /\ cdvd' = [cdvd EXCEPT !.at = "run"]
  BY DEF SeeLatch, LockCommand, device, store, drive_history
<1>2. Waiting /\ command = prog.command /\ DriveTypeOK
  BY <1>1 DEF CdvdInv, InTurn, CommandKnown, Waiting, Cdvd
<1>3. DriveTypeOK'
  <2>1. lock' \in Locks
    BY <1>1, <1>2 DEF DriveTypeOK, Locks, Actors
  <2>2. cdvd' \in DriveStates
    BY <1>1, <1>2 DEF DriveTypeOK, DriveStates
  <2>3. prog' \in ProgramStates
    BY <1>1, <1>2 DEF DriveTypeOK, ProgramStates
  <2>4. ready' \in Flags
    BY <1>1, <1>2 DEF DriveTypeOK, Flags
  <2> QED
    BY <1>1, <1>2, <2>1, <2>2, <2>3, <2>4 DEF DriveTypeOK
<1>4. InTurn' /\ LocksHeld' /\ FlagsKnown'
  <2>1. InTurn'
    BY <1>1, <1>2 DEF CdvdInv, InTurn, Waiting, Prog, Cdvd, DriveStates, DriveTypeOK
  <2>2. LocksHeld'
    BY <1>1, <1>2 DEF CdvdInv, InTurn, LocksHeld, Waiting, Prog, Cdvd, DriveStates, Locks, DriveTypeOK
  <2>3. FlagsKnown'
    BY <1>1, <1>2 DEF CdvdInv, InTurn, FlagsKnown, Waiting, Prog, Cdvd, DriveStates, DriveTypeOK
  <2> QED
    BY <2>1, <2>2, <2>3
<1>5. CommandKnown' /\ ResultsKnown'
  BY <1>1, <1>2, OnItsWay DEF Pending, Waiting, Prog, Cdvd, DriveTypeOK, DriveStates
<1> QED
  BY <1>3, <1>4, <1>5 DEF CdvdInv
(* A byte that goes from the head of a queue to the end of another.        *)
LEMMA MovesOne ==
  ASSUME NEW S, NEW s \in Seq(S), NEW t \in Seq(S), t # <<>>
  PROVE  /\ Append(s, Head(t)) \in Seq(S) /\ Append(s, Head(t)) # <<>> /\ Tail(t) \in Seq(S)
         /\ Append(s, Head(t)) \o Tail(t) = s \o t
<1>1. Head(t) \in S /\ Tail(t) \in Seq(S) /\ Len(Tail(t)) = Len(t) - 1 /\ Len(t) \in Nat \ {0}
      /\ \A i \in 1..Len(Tail(t)) : Tail(t)[i] = t[i + 1]
  BY HeadTailProperties, EmptySeq
<1>2. Head(t) = t[1] /\ Len(s) \in Nat
  BY <1>1
<1> DEFINE u == Append(s, Head(t))
<1>3. /\ u \in Seq(S) /\ u # <<>> /\ Len(u) = Len(s) + 1
      /\ \A i \in 1..Len(s) : u[i] = s[i]
      /\ u[Len(s) + 1] = Head(t)
  BY <1>1, AppendProperties
<1> HIDE DEF u
<1>4. /\ u \o Tail(t) \in Seq(S) /\ Len(u \o Tail(t)) = Len(u) + Len(Tail(t))
      /\ \A i \in 1..Len(u) + Len(Tail(t)) :
           (u \o Tail(t))[i] = IF i <= Len(u) THEN u[i] ELSE Tail(t)[i - Len(u)]
  BY <1>1, <1>3, ConcatProperties
<1>5. /\ s \o t \in Seq(S) /\ Len(s \o t) = Len(s) + Len(t)
      /\ \A i \in 1..Len(s) + Len(t) : (s \o t)[i] = IF i <= Len(s) THEN s[i] ELSE t[i - Len(s)]
  BY ConcatProperties
<1>6. ASSUME NEW i \in 1..Len(u \o Tail(t))
      PROVE  (u \o Tail(t))[i] = (s \o t)[i]
  <2>1. i \in 1..Len(s) + Len(t) /\ i \in 1..Len(u) + Len(Tail(t))
    BY <1>1, <1>2, <1>3, <1>4
  <2>2. CASE i <= Len(s)
    BY <1>2, <1>3, <1>4, <1>5, <2>1, <2>2
  <2>3. CASE i = Len(s) + 1
    BY <1>2, <1>3, <1>4, <1>5, <2>1, <2>3
  <2>4. CASE i > Len(s) + 1
    <3>1. (s \o t)[i] = t[i - Len(s)] /\ (u \o Tail(t))[i] = Tail(t)[i - Len(u)]
      BY <1>2, <1>3, <1>4, <1>5, <2>1, <2>4
    <3>2. i - Len(u) \in 1..Len(Tail(t)) /\ (i - Len(u)) + 1 = i - Len(s)
      BY <1>1, <1>2, <1>3, <2>1, <2>4
    <3> QED
      BY <1>1, <3>1, <3>2
  <2> QED
    BY <1>2, <2>1, <2>2, <2>3, <2>4
<1>7. Len(u \o Tail(t)) = Len(s \o t)
  BY <1>1, <1>2, <1>3, <1>4, <1>5
<1>8. u \o Tail(t) = s \o t
  BY <1>4, <1>5, <1>6, <1>7, SeqEqual
<1> QED
  BY <1>1, <1>3, <1>8 DEF u

(* The command has been answered, and nothing is asked for.                *)
LEMMA Answered ==
  ASSUME CdvdInv, ~Pending, ~Pending', ~Cdvd("failed"), ~Cdvd("failed")',
         UNCHANGED <<data_in, access, nvram, config, written, wanted, runs, commands, command>>,
         prog'.command = prog.command,
         Waiting' => Waiting, prog'.at \notin {"busy", "latch"},
         (prog'.got \o data_out') \o cdvd'.out = (prog.got \o data_out) \o cdvd.out,
         cdvd'.at = "push" => cdvd'.out # <<>>,
         cdvd'.at \notin {"push", "some"} => cdvd'.out = <<>>,
         prog'.at = "choose" => data_out' = <<>>,
         prog'.at = "wait" => prog'.got = <<>>
  PROVE  CommandKnown' /\ ResultsKnown'
<1>1. UNCHANGED <<Open, Stored>>
  BY Untouched
<1>2. CommandKnown'
  BY <1>1 DEF CdvdInv, CommandKnown
<1>3. ResultsKnown'
  BY <1>1 DEF CdvdInv, ResultsKnown, Prog, Cdvd
<1> QED
  BY <1>2, <1>3

LEMMA ReadReadyInv ==
  ASSUME CdvdAssumption, CdvdInv, ReadReady
  PROVE  CdvdInv'
<1>1. /\ UNCHANGED <<ready, command, latch, data_in, data_out, lock, access, nvram, cdvd, commands>>
      /\ UNCHANGED <<config, written, wanted, runs>>
      /\ \/ Prog("wait") /\ ~ready.BUSY /\ prog' = [prog EXCEPT !.at = "results"]
         \/ Prog("results") /\ ready.EMPTY /\ prog' = [prog EXCEPT !.at = "choose"]
         \/ Prog("results") /\ ~ready.EMPTY /\ prog' = [prog EXCEPT !.at = "pop"]
  BY DEF ReadReady, ProgGoto, device, store, drive_history
<1>2. DriveTypeOK /\ ~Waiting /\ ~Pending /\ ~ready.BUSY /\ cdvd.at \in {"idle", "unlatch"}
      /\ ready.EMPTY = (data_out = <<>>)
  BY <1>1, Between DEF CdvdInv, InTurn, FlagsKnown, Pending, Waiting, Prog, Cdvd
<1>3. DriveTypeOK'
  <2>1. lock' \in Locks
    BY <1>1, <1>2 DEF DriveTypeOK, Locks, Actors
  <2>2. cdvd' \in DriveStates
    BY <1>1, <1>2 DEF DriveTypeOK, DriveStates
  <2>3. prog' \in ProgramStates
    BY <1>1, <1>2 DEF DriveTypeOK, ProgramStates
  <2>4. ready' \in Flags
    BY <1>1, <1>2 DEF DriveTypeOK, Flags
  <2> QED
    BY <1>1, <1>2, <2>1, <2>2, <2>3, <2>4 DEF DriveTypeOK
<1>4. InTurn' /\ LocksHeld' /\ FlagsKnown'
  <2>1. InTurn'
    BY <1>1, <1>2 DEF CdvdInv, InTurn, Waiting, Prog, Cdvd, ProgramStates, DriveTypeOK
  <2>2. LocksHeld'
    BY <1>1, <1>2 DEF CdvdInv, InTurn, LocksHeld, Waiting, Prog, Cdvd, ProgramStates, DriveTypeOK
  <2>3. FlagsKnown'
    BY <1>1, <1>2 DEF CdvdInv, InTurn, FlagsKnown, Waiting, Prog, Cdvd, ProgramStates, DriveTypeOK
  <2> QED
    BY <2>1, <2>2, <2>3
<1>5. prog'.got = prog.got /\ prog'.command = prog.command /\ prog'.at \in {"results", "choose", "pop"}
      /\ (prog'.at = "choose" => data_out = <<>>) /\ cdvd.out = <<>>
  BY <1>1, <1>2 DEF DriveTypeOK, ProgramStates, CdvdInv, ResultsKnown
<1>6. CommandKnown' /\ ResultsKnown'
  BY <1>1, <1>2, <1>5, Answered DEF Pending, Waiting, Prog, Cdvd
<1> QED
  BY <1>3, <1>4, <1>6 DEF CdvdInv

LEMMA PopResultInv ==
  ASSUME CdvdAssumption, CdvdInv, PopResult
  PROVE  CdvdInv'
<1> DEFINE last == Tail(data_out) = <<>>
<1>1. /\ Prog("pop") /\ data_out # <<>> /\ data_out' = Tail(data_out)
      /\ prog' = [prog EXCEPT !.got = Append(prog.got, Head(data_out)), !.read = ready,
                              !.at = IF last THEN "empty" ELSE "results"]
      /\ lock' = [lock EXCEPT !.data_out = IF last THEN "iop" ELSE lock.data_out]
      /\ UNCHANGED <<ready, command, latch, data_in, access, nvram, cdvd, commands>>
      /\ UNCHANGED <<config, written, wanted, runs>>
  BY DEF PopResult, store, drive_history
<1>2. DriveTypeOK /\ ~Waiting /\ ~Pending /\ ~ready.BUSY /\ cdvd.at \in {"idle", "unlatch"}
      /\ ready.EMPTY = (data_out = <<>>)
  BY <1>1, Between DEF CdvdInv, InTurn, FlagsKnown, Pending, Waiting, Prog, Cdvd
<1>3. /\ Append(prog.got, Head(data_out)) \in Seq(ResultBytes) /\ Tail(data_out) \in Seq(ResultBytes)
      /\ Append(prog.got, Head(data_out)) \o Tail(data_out) = prog.got \o data_out
  <2>1. prog.got \in Seq(ResultBytes) /\ data_out \in Seq(ResultBytes)
    BY <1>2 DEF DriveTypeOK, ProgramStates
  <2> QED
    BY <1>1, <2>1, MovesOne
<1> HIDE DEF last
<1>4. DriveTypeOK'
  <2>1. lock' \in Locks
    BY <1>1, <1>2, <1>3 DEF DriveTypeOK, Locks, Actors
  <2>2. cdvd' \in DriveStates
    BY <1>1, <1>2, <1>3 DEF DriveTypeOK, DriveStates
  <2>3. prog' \in ProgramStates
    BY <1>1, <1>2, <1>3 DEF DriveTypeOK, ProgramStates
  <2>4. ready' \in Flags
    BY <1>1, <1>2, <1>3 DEF DriveTypeOK, Flags
  <2> QED
    BY <1>1, <1>2, <1>3, <2>1, <2>2, <2>3, <2>4 DEF DriveTypeOK
<1>5. InTurn' /\ LocksHeld' /\ FlagsKnown'
  <2>1. InTurn'
    BY <1>1, <1>2 DEF CdvdInv, InTurn, Waiting, Prog, Cdvd
  <2>2. LocksHeld'
    BY <1>1, <1>2 DEF CdvdInv, InTurn, LocksHeld, Waiting, Prog, Cdvd, ProgramStates, Locks
  <2>3. prog'.read = ready /\ prog'.at = IF last THEN "empty" ELSE "results"
    BY <1>1, <1>2 DEF DriveTypeOK, ProgramStates
  <2>4. FlagsKnown'
    BY <1>1, <1>2, <2>3 DEF FlagsKnown, Prog, Cdvd, last
  <2> QED
    BY <2>1, <2>2, <2>4
<1>6. /\ prog'.got = Append(prog.got, Head(data_out)) /\ prog'.command = prog.command
      /\ prog'.at \in {"results", "empty"} /\ cdvd.out = <<>>
  BY <1>1, <1>2 DEF DriveTypeOK, ProgramStates, CdvdInv, ResultsKnown
<1>7. CommandKnown' /\ ResultsKnown'
  BY <1>1, <1>2, <1>3, <1>6, Answered DEF Pending, Waiting, Prog, Cdvd
<1> QED
  BY <1>4, <1>5, <1>7 DEF CdvdInv

LEMMA SetEmptyInv ==
  ASSUME CdvdAssumption, CdvdInv, SetEmpty
  PROVE  CdvdInv'
<1>1. /\ Prog("empty") /\ ready' = [prog.read EXCEPT !.EMPTY = TRUE]
      /\ prog' = [prog EXCEPT !.at = "results"] /\ lock' = [lock EXCEPT !.data_out = Nobody]
      /\ UNCHANGED <<command, latch, data_in, data_out, access, nvram, cdvd, commands>>
      /\ UNCHANGED <<config, written, wanted, runs>>
  BY DEF SetEmpty, ProgGoto, store, drive_history
<1>2. DriveTypeOK /\ ~Waiting /\ ~Pending /\ ~ready.BUSY /\ cdvd.at \in {"idle", "unlatch"}
      /\ prog.read = ready /\ data_out = <<>>
  BY <1>1, Between DEF CdvdInv, InTurn, FlagsKnown, Pending, Waiting, Prog, Cdvd
<1>3. DriveTypeOK'
  <2>1. lock' \in Locks
    BY <1>1, <1>2 DEF DriveTypeOK, Locks, Actors
  <2>2. cdvd' \in DriveStates
    BY <1>1, <1>2 DEF DriveTypeOK, DriveStates
  <2>3. prog' \in ProgramStates
    BY <1>1, <1>2 DEF DriveTypeOK, ProgramStates
  <2>4. ready' \in Flags
    BY <1>1, <1>2 DEF DriveTypeOK, Flags
  <2> QED
    BY <1>1, <1>2, <2>1, <2>2, <2>3, <2>4 DEF DriveTypeOK
<1>4. InTurn' /\ LocksHeld' /\ FlagsKnown'
  <2>1. InTurn'
    BY <1>1, <1>2 DEF CdvdInv, InTurn, Waiting, Prog, Cdvd
  <2>2. LocksHeld'
    BY <1>1, <1>2 DEF CdvdInv, InTurn, LocksHeld, Waiting, Prog, Cdvd
  <2>3. FlagsKnown'
    BY <1>1, <1>2 DEF CdvdInv, InTurn, FlagsKnown, Waiting, Prog, Cdvd, ProgramStates, DriveTypeOK, Flags
  <2> QED
    BY <2>1, <2>2, <2>3
<1>5. prog'.got = prog.got /\ prog'.command = prog.command /\ prog'.at = "results" /\ cdvd.out = <<>>
  BY <1>1, <1>2 DEF DriveTypeOK, CdvdInv, ResultsKnown
<1>6. CommandKnown' /\ ResultsKnown'
  BY <1>1, <1>2, <1>5, Answered DEF Pending, Waiting, Prog, Cdvd
<1> QED
  BY <1>3, <1>4, <1>6 DEF CdvdInv
(* The drive does what the program asked for, and throws if that was not   *)
(* legal.                                                                  *)
LEMMA MaxIsInt ==
  ASSUME CdvdAssumption, DriveTypeOK
  PROVE  access.max \in Int
<1>1. access.max \in MaxBlocks \cup {0}
  BY DEF DriveTypeOK, Accesses
<1>2. \A max \in MaxBlocks \cup {0} : max \in Int
  BY DEF CdvdAssumption
<1> QED
  BY <1>1, <1>2

LEMMA BlockRead ==
  ASSUME CdvdAssumption, DriveTypeOK, NEW c \in Commands, c.name = "41", ReadBlock
  PROVE  /\ Legal(Open, c) => /\ cdvd' = [cdvd EXCEPT !.at = "push", !.out = Results(Open, Stored, c)]
                              /\ access' \in Accesses
                              /\ Open' = OpenAfter(Open, c) /\ nvram' = nvram
         /\ ~Legal(Open, c) => cdvd' = [cdvd EXCEPT !.at = "failed"] /\ access' = access /\ nvram' = nvram
<1>1. /\ access.read_write \in 0..1 /\ access.area \in Areas /\ access.block \in 0..7
      /\ access \in Accesses
  BY DEF DriveTypeOK, Accesses
<1>2. Inside(Open) <=> ~OutOfArea
  BY <1>1, AreaSizes DEF Inside, Open, OutOfArea
<1>3. Legal(Open, c) <=> ~(access.read_write # 0 \/ (~OutOfArea /\ access.block >= access.max))
  <2>1. Legal(Open, c) <=> Open.mode = "reading" /\ (Inside(Open) => Open.next < Open.max)
    BY DEF Legal
  <2>2. access.max \in Int
    BY MaxIsInt
  <2> QED
    BY <1>1, <1>2, <2>1, <2>2 DEF Open
<1>4. ASSUME ~Legal(Open, c)
      PROVE  cdvd' = [cdvd EXCEPT !.at = "failed"] /\ access' = access /\ nvram' = nvram
  BY <1>3, <1>4 DEF ReadBlock, Throw, store
<1>5. ASSUME Legal(Open, c)
      PROVE  /\ cdvd' = [cdvd EXCEPT !.at = "push", !.out = Results(Open, Stored, c)]
             /\ access' \in Accesses
             /\ Open' = OpenAfter(Open, c) /\ nvram' = nvram
  <2>1. /\ nvram' = nvram
        /\ access' = [access EXCEPT !.block = IF OutOfArea THEN access.block ELSE access.block + 1]
        /\ Leave(Bytes(IF OutOfArea THEN Zero ELSE nvram[Address(access.area, access.block)]))
    BY <1>3, <1>5 DEF ReadBlock
  <2>2. ~OutOfArea => access.block < SizeOf(access.area) /\ access.block + 1 \in 0..7
    BY <1>1, AreaSizes DEF OutOfArea
  <2>3. access' \in Accesses
    BY <1>1, <2>1, <2>2 DEF Accesses
  <2>4. Results(Open, Stored, c) = Bytes(IF Inside(Open) THEN Stored[<<Open.area, Open.next>>] ELSE Zero)
    BY DEF Results
  <2>5. Open.area = access.area /\ Open.next = access.block
    BY DEF Open
  <2>6. ~OutOfArea => Stored[<<access.area, access.block>>] = nvram[Address(access.area, access.block)]
    BY <1>1, <2>2, StoredIs
  <2>7. Results(Open, Stored, c)
          = Bytes(IF OutOfArea THEN Zero ELSE nvram[Address(access.area, access.block)])
    BY <1>2, <2>4, <2>5, <2>6
  <2>8. OpenAfter(Open, c) = IF Inside(Open) THEN [Open EXCEPT !.next = Open.next + 1] ELSE Open
    BY DEF OpenAfter
  <2>9. Open' = OpenAfter(Open, c)
    BY <1>1, <1>2, <2>1, <2>8 DEF Open
  <2> QED
    BY <2>1, <2>3, <2>7, <2>9 DEF Leave
<1> QED
  BY <1>4, <1>5

LEMMA BlockWritten ==
  ASSUME CdvdAssumption, DriveTypeOK, NEW c \in Commands, c.name = "42", WriteBlock(c.params[1][1])
  PROVE  /\ Legal(Open, c) => /\ cdvd' = [cdvd EXCEPT !.at = "push", !.out = Results(Open, Stored, c)]
                              /\ access' \in Accesses
                              /\ nvram' \in [32..49 -> Contents]
                              /\ Open' = OpenAfter(Open, c) /\ Stored' = BlocksAfter(Open, Stored, c)
         /\ ~Legal(Open, c) => cdvd' = [cdvd EXCEPT !.at = "failed"] /\ access' = access /\ nvram' = nvram
<1> DEFINE content == c.params[1][1]
<1>1. /\ access.read_write \in 0..1 /\ access.area \in Areas /\ access.block \in 0..7
      /\ access \in Accesses
      /\ nvram \in [32..49 -> Contents] /\ access.max \in Int
  BY MaxIsInt DEF DriveTypeOK, Accesses
<1>2. Inside(Open) <=> ~OutOfArea
  BY <1>1, AreaSizes DEF Inside, Open, OutOfArea
<1>3. Legal(Open, c) <=> ~(access.read_write # 1 \/ OutOfArea \/ access.block >= access.max)
  <2>1. Legal(Open, c) <=> Open.mode = "writing" /\ Inside(Open) /\ Open.next < Open.max
    BY DEF Legal
  <2> QED
    BY <1>1, <1>2, <2>1 DEF Open
<1>4. content \in Contents
  BY CommandIs, BytesOf
<1>5. WriteBlock(content)
  OBVIOUS
<1> HIDE DEF content
<1>6. ASSUME ~Legal(Open, c)
      PROVE  cdvd' = [cdvd EXCEPT !.at = "failed"] /\ access' = access /\ nvram' = nvram
  BY <1>3, <1>5, <1>6 DEF WriteBlock, Throw, store
<1>7. ASSUME Legal(Open, c)
      PROVE  /\ cdvd' = [cdvd EXCEPT !.at = "push", !.out = Results(Open, Stored, c)]
             /\ access' \in Accesses
             /\ nvram' \in [32..49 -> Contents]
             /\ Open' = OpenAfter(Open, c) /\ Stored' = BlocksAfter(Open, Stored, c)
  <2> DEFINE here == <<access.area, access.block>>
  <2>1. /\ nvram' = [nvram EXCEPT ![Address(access.area, access.block)] = content]
        /\ access' = [access EXCEPT !.block = access.block + 1]
        /\ Leave(<<Done>>)
    BY <1>3, <1>5, <1>7 DEF WriteBlock
  <2>2. access.block < SizeOf(access.area) /\ access.block + 1 \in 0..7
    BY <1>1, <1>3, <1>7, AreaSizes DEF OutOfArea
  <2>3. access' \in Accesses
    BY <1>1, <2>1, <2>2 DEF Accesses
  <2>4. Results(Open, Stored, c) = <<Done>>
    BY DEF Results
  <2>5. Open' = OpenAfter(Open, c)
    BY <1>1, <1>2, <1>3, <1>7, <2>1 DEF Open, OpenAfter
  <2>6. here \in Blocks /\ Address(access.area, access.block) \in 32..49 /\ Stored \in [Blocks -> Contents]
    BY <1>1, <2>2, AddressOf, StoredIs
  <2>7. BlocksAfter(Open, Stored, c) = [Stored EXCEPT ![here] = content]
    BY <1>7 DEF BlocksAfter, Open, content
  <2>8. ASSUME NEW b \in Blocks
        PROVE  nvram'[Address(b[1], b[2])] = [Stored EXCEPT ![here] = content][b]
    <3>1. Stored[b] = nvram[Address(b[1], b[2])] /\ Address(b[1], b[2]) \in 32..49
      BY AddressOf DEF Stored
    <3>2. CASE b = here
      <4>1. b[1] = access.area /\ b[2] = access.block
        BY <3>2
      <4> QED
        BY <1>1, <2>1, <2>6, <3>1, <3>2, <4>1
    <3>3. CASE b # here
      <4>1. Address(b[1], b[2]) # Address(access.area, access.block)
        <5>1. here[1] = access.area /\ here[2] = access.block
          OBVIOUS
        <5> QED
          BY <2>6, <3>3, <5>1, AddressOf
      <4> QED
        BY <1>1, <2>1, <2>6, <3>1, <3>3, <4>1
    <3> QED
      BY <3>2, <3>3
  <2>9. Stored' = [Stored EXCEPT ![here] = content]
    BY <2>6, <2>8 DEF Stored
  <2>10. nvram' \in [32..49 -> Contents]
    BY <1>1, <1>4, <2>1
  <2> QED
    BY <2>1, <2>3, <2>4, <2>5, <2>7, <2>9, <2>10 DEF Leave
<1> QED
  BY <1>6, <1>7

LEMMA CommandRuns ==
  ASSUME CdvdAssumption, CdvdInv, RunCommand, NEW c, c = command, data_in = c.params
  PROVE  /\ Legal(Open, c) => /\ cdvd' = [cdvd EXCEPT !.at = "push", !.out = Results(Open, Stored, c)]
                              /\ Same(OpenAfter(Open, c), Open') /\ Stored' = BlocksAfter(Open, Stored, c)
                              /\ access' \in Accesses
                              /\ nvram' \in [32..49 -> Contents]
         /\ ~Legal(Open, c) => cdvd' = [cdvd EXCEPT !.at = "failed"] /\ UNCHANGED <<access, nvram>>
         /\ data_in' = <<>>
<1>1. DriveTypeOK /\ c \in Commands
  BY DEF CdvdInv, DriveTypeOK
<1>2. SubSeq(data_in, 1, Needs(c.name)) = c.params /\ data_in' = <<>>
  BY <1>1, ParamsOf DEF RunCommand
<1>3. CASE c.name \in {"08", "15"}
  <2>1. Legal(Open, c) /\ OpenAfter(Open, c) = Open /\ BlocksAfter(Open, Stored, c) = Stored
        /\ Results(Open, Stored, c) = IF c.name = "08" THEN Time ELSE <<Done>>
    BY <1>3 DEF Legal, OpenAfter, BlocksAfter, Results
  <2>2. /\ UNCHANGED <<access, nvram>>
        /\ cdvd' = [cdvd EXCEPT !.at = "push", !.out = IF c.name = "08" THEN Time ELSE <<Done>>]
    BY <1>3 DEF RunCommand, Leave, store
  <2>3. UNCHANGED <<Open, Stored>>
    BY <2>2, Untouched
  <2> QED
    BY <1>1, <1>2, <2>1, <2>2, <2>3 DEF Same, DriveTypeOK
<1>4. CASE c.name = "40"
  <2>1. PICK rw \in 0..1, area \in Areas, max \in MaxBlocks : c.params = <<rw, area, max>>
    BY <1>1, <1>4, CommandIs
  <2>2. SetAccessParams(c.params[1], c.params[2], c.params[3])
    BY <1>2, <1>4 DEF RunCommand
  <2>3. /\ access' = [read_write |-> rw, area |-> area, max |-> max, block |-> 0] /\ nvram' = nvram
        /\ cdvd' = [cdvd EXCEPT !.at = "push", !.out = <<Done>>]
    BY <2>1, <2>2 DEF SetAccessParams, Leave
  <2>4. /\ Legal(Open, c) /\ Results(Open, Stored, c) = <<Done>> /\ BlocksAfter(Open, Stored, c) = Stored
        /\ OpenAfter(Open, c) = [mode |-> IF rw = 0 THEN "reading" ELSE "writing",
                                 area |-> area, max |-> max, next |-> 0]
    BY <1>4, <2>1 DEF Legal, Results, BlocksAfter, OpenAfter
  <2>5. Open' = OpenAfter(Open, c) /\ Stored' = Stored
    BY <2>3, <2>4 DEF Open, Stored
  <2>6. access' \in Accesses
    BY <2>3 DEF Accesses
  <2> QED
    BY <1>1, <1>2, <2>3, <2>4, <2>5, <2>6 DEF Same, DriveTypeOK
<1>5. CASE c.name = "43"
  <2>1. SetAccessParams(0, 0, 0)
    BY <1>5 DEF RunCommand
  <2>2. /\ access' = [read_write |-> 0, area |-> 0, max |-> 0, block |-> 0] /\ nvram' = nvram
        /\ cdvd' = [cdvd EXCEPT !.at = "push", !.out = <<Done>>]
    BY <2>1 DEF SetAccessParams, Leave
  <2>3. /\ Legal(Open, c) /\ Results(Open, Stored, c) = <<Done>> /\ BlocksAfter(Open, Stored, c) = Stored
        /\ OpenAfter(Open, c) = Closed
    BY <1>5 DEF Legal, Results, BlocksAfter, OpenAfter
  <2>4. Open' = [Closed EXCEPT !.mode = "reading"] /\ Stored' = Stored
    BY <2>2 DEF Open, Stored, Closed
  <2>5. access' \in Accesses
    BY <2>2 DEF Areas, Accesses
  <2> QED
    BY <1>1, <1>2, <2>2, <2>3, <2>4, <2>5 DEF Same, DriveTypeOK
<1>6. CASE c.name = "41"
  <2>1. ReadBlock
    BY <1>6 DEF RunCommand
  <2>2. BlocksAfter(Open, Stored, c) = Stored
    BY <1>6 DEF BlocksAfter
  <2>3. Legal(Open, c) => Stored' = Stored
    BY <1>1, <1>6, <2>1, BlockRead DEF Stored
  <2> QED
    BY <1>1, <1>2, <1>6, <2>1, <2>2, <2>3, BlockRead DEF Same, DriveTypeOK
<1>7. CASE c.name = "42"
  <2>1. WriteBlock(c.params[1][1])
    BY <1>2, <1>7 DEF RunCommand
  <2> QED
    BY <1>1, <1>2, <1>7, <2>1, BlockWritten DEF Same
<1>8. CASE c.name = "unknown"
  <2>1. ~Legal(Open, c)
    BY <1>8 DEF Legal
  <2>2. Throw
    BY <1>8 DEF RunCommand
  <2> QED
    BY <1>2, <2>1, <2>2 DEF Throw, store
<1> QED
  BY <1>1, <1>3, <1>4, <1>5, <1>6, <1>7, <1>8, CommandIs

LEMMA RunCommandInv ==
  ASSUME CdvdAssumption, CdvdInv, RunCommand
  PROVE  CdvdInv'
<1> DEFINE c == command
<1>1. /\ Cdvd("run") /\ runs' = runs + 1
      /\ lock' = [lock EXCEPT !.command = IF cdvd'.at = "failed" THEN Nobody ELSE lock.command]
      /\ UNCHANGED <<ready, command, latch, data_out, prog, commands, config, written, wanted>>
  BY DEF RunCommand
<1>2. DriveTypeOK /\ Waiting /\ Pending /\ command = prog.command /\ c \in Commands /\ data_in = c.params
  BY <1>1 DEF CdvdInv, InTurn, CommandKnown, Pending, Waiting, Cdvd, DriveTypeOK
<1>3. /\ Legal(Open, c) => /\ cdvd' = [cdvd EXCEPT !.at = "push", !.out = Results(Open, Stored, c)]
                           /\ Same(OpenAfter(Open, c), Open') /\ Stored' = BlocksAfter(Open, Stored, c)
                           /\ access' \in Accesses
                           /\ nvram' \in [32..49 -> Contents]
      /\ ~Legal(Open, c) => cdvd' = [cdvd EXCEPT !.at = "failed"] /\ UNCHANGED <<access, nvram>>
      /\ data_in' = <<>>
  BY <1>2, CommandRuns
<1>4. Stored \in [Blocks -> Contents] /\ Open \in Opens
  BY <1>2, StoredIs
<1>5. /\ Results(Open, Stored, c) \in Seq(ResultBytes) /\ Results(Open, Stored, c) # <<>>
      /\ (Answer(Open, Stored, c) = <<>>) <=> ~Legal(Open, c)
  BY <1>2, <1>4, AnswerIs
<1>6. /\ prog.got = <<>> /\ data_out = <<>> /\ runs = commands - 1 /\ wanted = Answer(Open, Stored, c)
      /\ wanted # <<>> => Same(config, OpenAfter(Open, c)) /\ written = BlocksAfter(Open, Stored, c)
  BY <1>2 DEF CdvdInv, CommandKnown
<1> HIDE DEF c
<1>7. /\ cdvd'.at = IF Legal(Open, c) THEN "push" ELSE "failed"
      /\ cdvd'.out = IF Legal(Open, c) THEN Results(Open, Stored, c) ELSE cdvd.out
      /\ cdvd'.read = cdvd.read
  BY <1>2, <1>3 DEF DriveTypeOK, DriveStates
<1>8. DriveTypeOK'
  <2>1. cdvd' \in DriveStates
    BY <1>2, <1>3, <1>5 DEF DriveTypeOK, DriveStates
  <2>2. access' \in Accesses
        /\ nvram' \in [32..49 -> Contents]
    BY <1>2, <1>3 DEF DriveTypeOK
  <2>3. lock \in Locks /\ runs \in Int
    BY <1>2 DEF DriveTypeOK
  <2>4. lock' \in Locks /\ runs' \in Int
    BY <1>1, <2>3 DEF Locks
  <2> QED
    BY <1>1, <1>2, <2>1, <2>2, <2>4 DEF DriveTypeOK
<1>9. InTurn' /\ LocksHeld' /\ FlagsKnown'
  <2>1. InTurn'
    BY <1>1, <1>2, <1>7 DEF CdvdInv, InTurn, Waiting, Prog, Cdvd
  <2>2. LocksHeld'
    BY <1>1, <1>2, <1>7 DEF CdvdInv, InTurn, LocksHeld, Waiting, Prog, Cdvd, Locks
  <2>3. FlagsKnown'
    BY <1>1, <1>2, <1>7 DEF CdvdInv, InTurn, FlagsKnown, Waiting, Prog, Cdvd
  <2> QED
    BY <2>1, <2>2, <2>3
<1>10. ~Pending'
  BY <1>1, <1>2, <1>7 DEF Pending, Waiting, Prog, Cdvd
<1>11. CommandKnown'
  BY <1>1, <1>2, <1>3, <1>10 DEF CommandKnown, Waiting, Prog
<1>12. ResultsKnown'
  <2>. runs' = commands'
    <3>1. commands \in Nat
      BY <1>2 DEF DriveTypeOK
    <3> QED
      BY <1>1, <1>6, <3>1
  <2>. ~Pending'
    BY <1>10
  <2>1. CASE Legal(Open, c)
    <3>1. wanted = Results(Open, Stored, c) /\ wanted # <<>> /\ wanted \in Seq(ResultBytes)
      BY <1>5, <1>6, <2>1 DEF Answer
    <3>2. Same(config, Open') /\ written = Stored'
      BY <1>3, <1>6, <2>1, <3>1 DEF Same, Open
    <3>3. (<<>> \o <<>>) \o wanted = wanted
      BY <3>1, ConcatEmptySeq, EmptySeq
    <3> QED
      BY <1>1, <1>2, <1>6, <1>7, <2>1, <3>1, <3>2, <3>3 DEF ResultsKnown, Waiting, Prog, Cdvd
  <2>2. CASE ~Legal(Open, c)
    <3>1. wanted = <<>> /\ cdvd.out = <<>>
      BY <1>1, <1>5, <1>6, <2>2 DEF CdvdInv, ResultsKnown, Cdvd
    <3> QED
      BY <1>1, <1>2, <1>6, <1>7, <2>2, <3>1 DEF ResultsKnown, Waiting, Prog, Cdvd
  <2> QED
    BY <2>1, <2>2
<1> QED
  BY <1>8, <1>9, <1>11, <1>12 DEF CdvdInv

LEMMA PushResultInv ==
  ASSUME CdvdAssumption, CdvdInv, PushResult
  PROVE  CdvdInv'
<1>1. /\ Cdvd("push") /\ lock' = [lock EXCEPT !.data_out = "cdvd"]
      /\ data_out' = Append(data_out, Head(cdvd.out))
      /\ cdvd' = [at |-> "some", read |-> ready, out |-> Tail(cdvd.out)]
      /\ UNCHANGED <<ready, command, latch, data_in, access, nvram, prog, commands>>
      /\ UNCHANGED <<config, written, wanted, runs>>
  BY DEF PushResult, store, drive_history
<1>2. DriveTypeOK /\ Waiting /\ ~Pending /\ cdvd.out # <<>> /\ prog.got = <<>>
  BY <1>1 DEF CdvdInv, InTurn, ResultsKnown, Pending, Waiting, Prog, Cdvd
<1>3. /\ Append(data_out, Head(cdvd.out)) \in Seq(ResultBytes) /\ Tail(cdvd.out) \in Seq(ResultBytes)
      /\ Append(data_out, Head(cdvd.out)) # <<>>
      /\ Append(data_out, Head(cdvd.out)) \o Tail(cdvd.out) = data_out \o cdvd.out
  <2>1. data_out \in Seq(ResultBytes) /\ cdvd.out \in Seq(ResultBytes)
    BY <1>2 DEF DriveTypeOK, DriveStates
  <2> QED
    BY <1>2, <2>1, MovesOne
<1>4. (prog'.got \o data_out') \o cdvd'.out = (prog.got \o data_out) \o cdvd.out
  <2>1. data_out \in Seq(ResultBytes)
    BY <1>2 DEF DriveTypeOK
  <2>2. prog.got \o data_out = data_out /\ prog.got \o data_out' = data_out'
    BY <1>1, <1>2, <1>3, <2>1, ConcatEmptySeq
  <2> QED
    BY <1>1, <1>3, <2>2
<1>5. DriveTypeOK'
  <2>1. lock' \in Locks
    BY <1>1, <1>2, <1>3 DEF DriveTypeOK, Locks, Actors
  <2>2. cdvd' \in DriveStates
    BY <1>1, <1>2, <1>3 DEF DriveTypeOK, DriveStates
  <2>3. prog' \in ProgramStates
    BY <1>1, <1>2, <1>3 DEF DriveTypeOK, ProgramStates
  <2>4. ready' \in Flags
    BY <1>1, <1>2, <1>3 DEF DriveTypeOK, Flags
  <2> QED
    BY <1>1, <1>2, <1>3, <2>1, <2>2, <2>3, <2>4 DEF DriveTypeOK
<1>6. InTurn' /\ LocksHeld' /\ FlagsKnown'
  <2>1. InTurn'
    BY <1>1, <1>2, <1>3 DEF CdvdInv, InTurn, Waiting, Prog, Cdvd
  <2>2. LocksHeld'
    BY <1>1, <1>2, <1>3 DEF CdvdInv, InTurn, LocksHeld, Waiting, Prog, Cdvd
  <2>3. FlagsKnown'
    BY <1>1, <1>2, <1>3 DEF CdvdInv, InTurn, FlagsKnown, Waiting, Prog, Cdvd
  <2> QED
    BY <2>1, <2>2, <2>3
<1>7. CommandKnown' /\ ResultsKnown'
  BY <1>1, <1>2, <1>4, Answered DEF Pending, Waiting, Prog, Cdvd
<1> QED
  BY <1>5, <1>6, <1>7 DEF CdvdInv

LEMMA ClearEmptyInv ==
  ASSUME CdvdAssumption, CdvdInv, ClearEmpty
  PROVE  CdvdInv'
<1>1. /\ Cdvd("some") /\ ready' = [cdvd.read EXCEPT !.EMPTY = FALSE]
      /\ lock' = [lock EXCEPT !.data_out = Nobody]
      /\ cdvd' = [cdvd EXCEPT !.at = IF cdvd.out = <<>> THEN "ended" ELSE "push"]
      /\ UNCHANGED <<command, latch, data_in, data_out, access, nvram, prog, commands>>
      /\ UNCHANGED <<config, written, wanted, runs>>
  BY DEF ClearEmpty, store, drive_history
<1>2. DriveTypeOK /\ Waiting /\ ~Pending /\ cdvd.read = ready /\ data_out # <<>> /\ prog.got = <<>>
  BY <1>1 DEF CdvdInv, InTurn, FlagsKnown, ResultsKnown, Pending, Waiting, Prog, Cdvd
<1>3. DriveTypeOK'
  <2>1. lock' \in Locks
    BY <1>1, <1>2 DEF DriveTypeOK, Locks, Actors
  <2>2. cdvd' \in DriveStates
    BY <1>1, <1>2 DEF DriveTypeOK, DriveStates
  <2>3. prog' \in ProgramStates
    BY <1>1, <1>2 DEF DriveTypeOK, ProgramStates
  <2>4. ready' \in Flags
    BY <1>1, <1>2 DEF DriveTypeOK, Flags
  <2> QED
    BY <1>1, <1>2, <2>1, <2>2, <2>3, <2>4 DEF DriveTypeOK
<1>4. InTurn' /\ LocksHeld' /\ FlagsKnown'
  <2>1. InTurn'
    BY <1>1, <1>2 DEF CdvdInv, InTurn, Waiting, Prog, Cdvd
  <2>2. LocksHeld'
    BY <1>1, <1>2 DEF CdvdInv, InTurn, LocksHeld, Waiting, Prog, Cdvd
  <2>3. FlagsKnown'
    BY <1>1, <1>2 DEF CdvdInv, InTurn, FlagsKnown, Waiting, Prog, Cdvd, DriveStates, DriveTypeOK, Flags
  <2> QED
    BY <2>1, <2>2, <2>3
<1>5. cdvd'.at = (IF cdvd.out = <<>> THEN "ended" ELSE "push") /\ cdvd'.out = cdvd.out
  BY <1>1, <1>2 DEF DriveTypeOK
<1>6. ready'.BUSY
  BY <1>1, <1>2 DEF DriveTypeOK, Flags, Waiting
<1>7. CommandKnown' /\ ResultsKnown'
  BY <1>1, <1>2, <1>5, <1>6, Answered DEF Pending, Waiting, Prog, Cdvd
<1> QED
  BY <1>3, <1>4, <1>7 DEF CdvdInv

LEMMA ReadFlagsInv ==
  ASSUME CdvdAssumption, CdvdInv, ReadFlags
  PROVE  CdvdInv'
<1>1. /\ Cdvd("ended") /\ cdvd' = [cdvd EXCEPT !.at = "unbusy", !.read = ready]
      /\ UNCHANGED <<ready, command, latch, data_in, data_out, lock, access, nvram, prog, commands>>
      /\ UNCHANGED <<config, written, wanted, runs>>
  BY DEF ReadFlags, device, store, drive_history
<1>2. DriveTypeOK /\ Waiting /\ ~Pending /\ cdvd.out = <<>> /\ prog.got = <<>>
  BY <1>1 DEF CdvdInv, InTurn, ResultsKnown, Pending, Waiting, Prog, Cdvd
<1>3. DriveTypeOK'
  <2>1. lock' \in Locks
    BY <1>1, <1>2 DEF DriveTypeOK, Locks, Actors
  <2>2. cdvd' \in DriveStates
    BY <1>1, <1>2 DEF DriveTypeOK, DriveStates
  <2>3. prog' \in ProgramStates
    BY <1>1, <1>2 DEF DriveTypeOK, ProgramStates
  <2>4. ready' \in Flags
    BY <1>1, <1>2 DEF DriveTypeOK, Flags
  <2> QED
    BY <1>1, <1>2, <2>1, <2>2, <2>3, <2>4 DEF DriveTypeOK
<1>4. InTurn' /\ LocksHeld' /\ FlagsKnown'
  <2>1. InTurn'
    BY <1>1, <1>2 DEF CdvdInv, InTurn, Waiting, Prog, Cdvd
  <2>2. LocksHeld'
    BY <1>1, <1>2 DEF CdvdInv, InTurn, LocksHeld, Waiting, Prog, Cdvd
  <2>3. FlagsKnown'
    BY <1>1, <1>2 DEF CdvdInv, InTurn, FlagsKnown, Waiting, Prog, Cdvd
  <2> QED
    BY <2>1, <2>2, <2>3
<1>5. cdvd'.at = "unbusy" /\ cdvd'.out = cdvd.out
  BY <1>1, <1>2 DEF DriveTypeOK
<1>6. CommandKnown' /\ ResultsKnown'
  BY <1>1, <1>2, <1>5, Answered DEF Pending, Waiting, Prog, Cdvd
<1> QED
  BY <1>3, <1>4, <1>6 DEF CdvdInv

LEMMA ClearBusyInv ==
  ASSUME CdvdAssumption, CdvdInv, ClearBusy
  PROVE  CdvdInv'
<1>1. /\ Cdvd("unbusy") /\ ready' = [cdvd.read EXCEPT !.BUSY = FALSE]
      /\ cdvd' = [cdvd EXCEPT !.at = "unlatch"]
      /\ UNCHANGED <<command, latch, data_in, data_out, lock, access, nvram, prog, commands>>
      /\ UNCHANGED <<config, written, wanted, runs>>
  BY DEF ClearBusy, store, drive_history
<1>2. DriveTypeOK /\ Waiting /\ ~Pending /\ cdvd.read = ready /\ cdvd.out = <<>> /\ prog.got = <<>>
  BY <1>1 DEF CdvdInv, InTurn, FlagsKnown, ResultsKnown, Pending, Waiting, Prog, Cdvd
<1>3. DriveTypeOK'
  <2>1. lock' \in Locks
    BY <1>1, <1>2 DEF DriveTypeOK, Locks, Actors
  <2>2. cdvd' \in DriveStates
    BY <1>1, <1>2 DEF DriveTypeOK, DriveStates
  <2>3. prog' \in ProgramStates
    BY <1>1, <1>2 DEF DriveTypeOK, ProgramStates
  <2>4. ready' \in Flags
    BY <1>1, <1>2 DEF DriveTypeOK, Flags
  <2> QED
    BY <1>1, <1>2, <2>1, <2>2, <2>3, <2>4 DEF DriveTypeOK
<1>4. InTurn' /\ LocksHeld' /\ FlagsKnown'
  <2>1. InTurn'
    BY <1>1, <1>2 DEF CdvdInv, InTurn, Waiting, Prog, Cdvd, DriveStates, DriveTypeOK, Flags
  <2>2. LocksHeld'
    BY <1>1, <1>2 DEF CdvdInv, InTurn, LocksHeld, Waiting, Prog, Cdvd
  <2>3. FlagsKnown'
    BY <1>1, <1>2 DEF CdvdInv, InTurn, FlagsKnown, Waiting, Prog, Cdvd
  <2> QED
    BY <2>1, <2>2, <2>3
<1>5. cdvd'.at = "unlatch" /\ cdvd'.out = cdvd.out
  BY <1>1, <1>2 DEF DriveTypeOK
<1>6. CommandKnown' /\ ResultsKnown'
  BY <1>1, <1>2, <1>5, Answered DEF Pending, Waiting, Prog, Cdvd
<1> QED
  BY <1>3, <1>4, <1>6 DEF CdvdInv

(* The latch is cleared while the program may be anywhere but in a command.*)
LEMMA ClearLatchInv ==
  ASSUME CdvdAssumption, CdvdInv, ClearLatch
  PROVE  CdvdInv'
<1>1. /\ Cdvd("unlatch") /\ latch' = FALSE /\ lock' = [lock EXCEPT !.command = Nobody]
      /\ cdvd' = [cdvd EXCEPT !.at = "idle"]
      /\ UNCHANGED <<ready, command, data_in, data_out, access, nvram, prog, commands>>
      /\ UNCHANGED <<config, written, wanted, runs>>
  BY DEF ClearLatch, store, drive_history
<1>2. DriveTypeOK /\ ~Waiting /\ prog.at \notin {"busy", "latch"} /\ cdvd.out = <<>>
  BY <1>1 DEF CdvdInv, InTurn, ResultsKnown, Waiting, Prog, Cdvd
<1>3. DriveTypeOK'
  <2>1. lock' \in Locks
    BY <1>1, <1>2 DEF DriveTypeOK, Locks, Actors
  <2>2. cdvd' \in DriveStates
    BY <1>1, <1>2 DEF DriveTypeOK, DriveStates
  <2>3. prog' \in ProgramStates
    BY <1>1, <1>2 DEF DriveTypeOK, ProgramStates
  <2>4. ready' \in Flags
    BY <1>1, <1>2 DEF DriveTypeOK, Flags
  <2> QED
    BY <1>1, <1>2, <2>1, <2>2, <2>3, <2>4 DEF DriveTypeOK
<1>4. InTurn' /\ LocksHeld' /\ FlagsKnown'
  <2>1. InTurn'
    BY <1>1, <1>2 DEF CdvdInv, InTurn, Waiting, Prog, Cdvd, DriveStates, DriveTypeOK
  <2>2. LocksHeld'
    BY <1>1, <1>2 DEF CdvdInv, InTurn, LocksHeld, Waiting, Prog, Cdvd
  <2>3. FlagsKnown'
    BY <1>1, <1>2 DEF CdvdInv, InTurn, FlagsKnown, Waiting, Prog, Cdvd
  <2> QED
    BY <2>1, <2>2, <2>3
<1>5. cdvd'.at = "idle" /\ cdvd'.out = cdvd.out
  BY <1>1, <1>2 DEF DriveTypeOK
<1>6. CommandKnown' /\ ResultsKnown'
  <2>1. CASE Pending
    BY <1>1, <1>2, <1>5, <2>1, OnItsWay DEF Pending, Waiting, Prog, Cdvd
  <2>2. CASE ~Pending
    <3>1. Prog("choose") => data_out = <<>>
      BY DEF CdvdInv, ResultsKnown
    <3>2. Prog("wait") => prog.got = <<>>
      BY DEF CdvdInv, ResultsKnown
    <3> QED
      BY <1>1, <1>2, <1>5, <2>2, <3>1, <3>2, Answered DEF Pending, Waiting, Prog, Cdvd
  <2> QED
    BY <2>1, <2>2
<1> QED
  BY <1>3, <1>4, <1>6 DEF CdvdInv
LEMMA DriveStep ==
  ASSUME CdvdAssumption, CdvdInv, [DriveNext]_drive_vars
  PROVE  CdvdInv'
<1>1. CASE Program
  BY <1>1, ChooseInv, WriteCommandInv, SetBusyInv, SetLatchInv, ReadReadyInv, PopResultInv, SetEmptyInv
     DEF Program
<1>2. CASE CdvdStep
  BY <1>2, SeeLatchInv, RunCommandInv, PushResultInv, ClearEmptyInv, ReadFlagsInv, ClearBusyInv,
     ClearLatchInv DEF CdvdStep
<1>3. CASE UNCHANGED drive_vars
  <2>1. UNCHANGED <<ready, command, latch, data_in, data_out, lock, access, nvram, cdvd, prog, commands>>
        /\ UNCHANGED <<config, written, wanted, runs>>
    BY <1>3 DEF drive_vars, device, store, drive_history
  <2>2. UNCHANGED <<Open, Stored>>
    BY <2>1, Untouched
  <2>3. DriveTypeOK' /\ InTurn' /\ LocksHeld' /\ FlagsKnown'
    BY <2>1 DEF CdvdInv, DriveTypeOK, InTurn, LocksHeld, FlagsKnown, Waiting, Prog, Cdvd
  <2>4. CommandKnown' /\ ResultsKnown'
    BY <2>1, <2>2 DEF CdvdInv, CommandKnown, ResultsKnown, Pending, Waiting, Prog, Cdvd
  <2> QED
    BY <2>3, <2>4 DEF CdvdInv
<1> QED
  BY <1>1, <1>2, <1>3 DEF DriveNext

LEMMA DriveAnswersAll ==
  ASSUME CdvdAssumption, CdvdInv
  PROVE  CommandsAnswered /\ FlagsTrue /\ ThrowsIfIllegal
<1>1. CommandsAnswered
  <2>1. ASSUME Prog("choose")
        PROVE  prog.got = wanted /\ runs = commands
    <3>1. ~Waiting /\ ~Pending /\ ~Cdvd("failed") /\ cdvd.out = <<>> /\ data_out = <<>>
      BY <2>1 DEF CdvdInv, InTurn, ResultsKnown, Pending, Waiting, Prog, Cdvd
    <3>2. (prog.got \o data_out) \o cdvd.out = wanted /\ runs = commands
      BY <3>1 DEF CdvdInv, ResultsKnown
    <3>3. prog.got \in Seq(ResultBytes)
      BY DEF CdvdInv, DriveTypeOK, ProgramStates
    <3> QED
      BY <3>1, <3>2, <3>3, ConcatEmptySeq
  <2> QED
    BY <2>1 DEF CdvdInv, FlagsKnown, CommandsAnswered
<1>2. FlagsTrue
  BY DEF CdvdInv, InTurn, FlagsKnown, FlagsTrue, Waiting, Prog, Cdvd
<1>3. ThrowsIfIllegal
  BY DEF CdvdInv, ResultsKnown, ThrowsIfIllegal
<1> QED
  BY <1>1, <1>2, <1>3

(* Whatever a block may hold, and however many bytes it has, commands are  *)
(* written and limits are set: the drive answers every command with what   *)
(* the ones before it have stored, READY never misleads the program,       *)
(* although each flag is changed by a read and a write of all of it, and   *)
(* only a command that breaks the rules throws (CCdvd.cpp:53-82,           *)
(* CCdvd_SCMD.cpp:5-77, CdvdRegisters.cpp:27-38, CdvdFifoQueues.cpp:5-26,  *)
(* CdvdNvrams.cpp:25-121).                                                 *)
THEOREM DriveInvariance == SpecDevices => []DriveAnswers
<1>1. InitDevices => CdvdInv
  BY DriveAssumption, DriveInitInv DEF InitDevices
<1>2. CdvdInv /\ [NextDevices]_all => CdvdInv'
  <2>1. [NextDevices]_all => [DriveNext]_drive_vars
    BY DEF NextDevices, OfCore, OfCdvd, OfSio, OfSpu2, all
  <2> QED
    BY <2>1, DriveAssumption, DriveStep
<1>3. CdvdInv => DriveAnswers
  BY DriveAssumption, DriveAnswersAll DEF DriveAnswers
<1> QED
  BY <1>1, <1>2, <1>3, PTL DEF SpecDevices
-----------------------------------------------------------------------------
(* The SPU2: where the halfwords of a transfer belong, and what each step  *)
(* does to what is on its way.                                             *)
(* The halves of an index that counts blocks.                              *)
LEMMA SoundDivision ==
  ASSUME NEW b \in Nat \ {0}, NEW r \in 0..b - 1
  PROVE  /\ r \div b = 0 /\ (b + r) \div b = 1 /\ (2 * b + r) \div b = 2 /\ (3 * b + r) \div b = 3
         /\ r % b = r /\ (b + r) % b = r /\ (2 * b + r) % b = r /\ (3 * b + r) % b = r
<1>1. \A q \in 0..3 : (q * b + r) \div b = q
  OBVIOUS
<1>2. \A q \in 0..3 : (q * b + r) % b = r
  OBVIOUS
<1> QED
  BY <1>1, <1>2

LEMMA SoundBlockOf ==
  ASSUME NEW b \in Nat \ {0}, NEW i \in 0..4 * b - 1
  PROVE  \E q \in 0..3, r \in 0..b - 1 : i = q * b + r
<1>1. CASE i < b
  BY <1>1
<1>2. CASE b <= i /\ i < 2 * b
  <2>1. i - b \in 0..b - 1 /\ i = 1 * b + (i - b)
    BY <1>2
  <2> QED
    BY <2>1
<1>3. CASE 2 * b <= i /\ i < 3 * b
  <2>1. i - 2 * b \in 0..b - 1 /\ i = 2 * b + (i - 2 * b)
    BY <1>3
  <2> QED
    BY <2>1
<1>4. CASE 3 * b <= i
  <2>1. i - 3 * b \in 0..b - 1 /\ i = 3 * b + (i - 3 * b)
    BY <1>4
  <2> QED
    BY <2>1
<1> QED
  BY <1>1, <1>2, <1>3, <1>4

(* The addresses of the four blocks, for the code's formula and for the    *)
(* place that a halfword belongs to.                                       *)
LEMMA SoundAutoPlaces ==
  ASSUME Sound!Spu2Assumption, Sound!Automatic(attr), NEW r \in 0..Block - 1
  PROVE  /\ Sound!AutoAddress(r) = Sound!BaseLeft + r /\ Sound!Place(r) = Sound!BaseLeft + r
         /\ Sound!AutoAddress(Block + r) = Sound!BaseRight + r
         /\ Sound!Place(Block + r) = Sound!BaseRight + r
         /\ Sound!AutoAddress(2 * Block + r) = Sound!BaseLeft + Block + r
         /\ Sound!Place(2 * Block + r) = Sound!BaseLeft + Block + r
         /\ Sound!AutoAddress(3 * Block + r) = Sound!BaseRight + Block + r
         /\ Sound!Place(3 * Block + r) = Sound!BaseRight + Block + r
         /\ Sound!BaseRight = Sound!BaseLeft + 2 * Block /\ Sound!BaseLeft \in Nat
<1> DEFINE b == Block
<1>1. b \in Nat \ {0} /\ r \in 0..b - 1
  BY DEF Sound!Spu2Assumption
<1>2. /\ r \div b = 0 /\ (b + r) \div b = 1 /\ (2 * b + r) \div b = 2 /\ (3 * b + r) \div b = 3
      /\ r % b = r /\ (b + r) % b = r /\ (2 * b + r) % b = r /\ (3 * b + r) % b = r
  BY <1>1, SoundDivision
<1>3. /\ r \div (2 * b) = 0 /\ (b + r) \div (2 * b) = 0
      /\ (2 * b + r) \div (2 * b) = 1 /\ (3 * b + r) \div (2 * b) = 1
  <2>1. /\ 2 * b \in Nat \ {0} /\ r \in 0..2 * b - 1 /\ b + r \in 0..2 * b - 1
        /\ 3 * b + r = 2 * b + (b + r)
    BY <1>1
  <2> QED
    BY <2>1, SoundDivision
<1>4. \A n \in 0..4 * b - 1 : n % (4 * b) = n
  BY <1>1
<1>5. /\ r % (4 * b) = r /\ (b + r) % (4 * b) = b + r
  BY <1>1, <1>4
<1>6. Sound!BaseRight = Sound!BaseLeft + 2 * b /\ Sound!BaseLeft \in Nat
  BY <1>1 DEF Sound!BaseRight, Sound!BaseLeft, Sound!Spu2Assumption
<1>7. 0 % 2 = 0 /\ 1 % 2 = 1 /\ 2 % 2 = 0 /\ 3 % 2 = 1
      /\ 0 \div 2 = 0 /\ 1 \div 2 = 0 /\ 2 \div 2 = 1 /\ 3 \div 2 = 1
  OBVIOUS
<1> HIDE DEF b
<1>8. /\ Sound!AutoAddress(r) = Sound!BaseLeft + r /\ Sound!AutoAddress(b + r) = Sound!BaseRight + r
      /\ Sound!AutoAddress(2 * b + r) = Sound!BaseLeft + b + r
      /\ Sound!AutoAddress(3 * b + r) = Sound!BaseRight + b + r
  <2>1. Sound!AutoAddress(r) = Sound!BaseLeft + (r % (4 * b))
    BY <1>1, <1>2, <1>7 DEF Sound!AutoAddress, b
  <2>2. Sound!AutoAddress(b + r) = Sound!BaseRight + (r % (4 * b))
    <3>1. (b + r) - (0 + 1) * b = r
      BY <1>1
    <3> QED
      BY <1>2, <1>7, <3>1 DEF Sound!AutoAddress, b
  <2>3. Sound!AutoAddress(2 * b + r) = Sound!BaseLeft + ((b + r) % (4 * b))
    <3>1. (2 * b + r) - 1 * b = b + r
      BY <1>1
    <3> QED
      BY <1>2, <1>7, <3>1 DEF Sound!AutoAddress, b
  <2>4. Sound!AutoAddress(3 * b + r) = Sound!BaseRight + ((b + r) % (4 * b))
    <3>1. (3 * b + r) - (1 + 1) * b = b + r
      BY <1>1
    <3> QED
      BY <1>2, <1>7, <3>1 DEF Sound!AutoAddress, b
  <2> QED
    BY <1>1, <1>5, <1>6, <2>1, <2>2, <2>3, <2>4
<1>9. /\ Sound!Place(r) = Sound!BaseLeft + r /\ Sound!Place(b + r) = Sound!BaseRight + r
      /\ Sound!Place(2 * b + r) = Sound!BaseLeft + b + r
      /\ Sound!Place(3 * b + r) = Sound!BaseRight + b + r
  BY <1>1, <1>2, <1>3, <1>6, <1>7 DEF Sound!Place, b
<1> QED
  BY <1>6, <1>8, <1>9 DEF b

(* Each halfword of a transfer that fits is written to its place, and no   *)
(* two have the same.                                                      *)
LEMMA SoundPlaces ==
  ASSUME Sound!Spu2Assumption, Sound!TypeOK, NEW length \in Nat,
         length <= IF Sound!Automatic(attr) THEN 4 * Block ELSE Sound!MemorySize
  PROVE  /\ \A i \in 0..length - 1 : Sound!Address(i) = Sound!Place(i) /\ Sound!Place(i) \in Nat
         /\ \A i, j \in 0..length - 1 : Sound!Place(i) = Sound!Place(j) => i = j
<1>1. CASE Sound!Automatic(attr)
  <2>1. Block \in Nat \ {0}
    BY DEF Sound!Spu2Assumption
  <2>2. \A i \in 0..length - 1 : \E q \in 0..3, r \in 0..Block - 1 : i = q * Block + r
    <3>1. 0..length - 1 \subseteq 0..4 * Block - 1
      BY <1>1, <2>1
    <3> QED
      BY <2>1, <3>1, SoundBlockOf
  <2>3. ASSUME NEW q \in 0..3, NEW r \in 0..Block - 1
        PROVE  /\ Sound!AutoAddress(q * Block + r) = Sound!Place(q * Block + r)
               /\ Sound!Place(q * Block + r) \in Nat
               /\ q = 0 => Sound!Place(q * Block + r) = Sound!BaseLeft + r
               /\ q = 1 => Sound!Place(q * Block + r) = Sound!BaseLeft + 2 * Block + r
               /\ q = 2 => Sound!Place(q * Block + r) = Sound!BaseLeft + Block + r
               /\ q = 3 => Sound!Place(q * Block + r) = Sound!BaseLeft + 3 * Block + r
    <3>1. 0 * Block + r = r /\ 1 * Block + r = Block + r
      BY <2>1
    <3>2. q \in {0, 1, 2, 3}
      OBVIOUS
    <3>3. r \in Nat /\ Sound!BaseLeft \in Nat /\ Sound!BaseRight = Sound!BaseLeft + 2 * Block
      BY <1>1, SoundAutoPlaces
    <3>4. /\ Sound!AutoAddress(r) = Sound!Place(r) /\ Sound!Place(r) = Sound!BaseLeft + r
          /\ Sound!AutoAddress(Block + r) = Sound!Place(Block + r)
          /\ Sound!Place(Block + r) = Sound!BaseLeft + 2 * Block + r
          /\ Sound!AutoAddress(2 * Block + r) = Sound!Place(2 * Block + r)
          /\ Sound!Place(2 * Block + r) = Sound!BaseLeft + Block + r
          /\ Sound!AutoAddress(3 * Block + r) = Sound!Place(3 * Block + r)
          /\ Sound!Place(3 * Block + r) = Sound!BaseLeft + 3 * Block + r
      BY <1>1, <2>1, <3>3, SoundAutoPlaces
    <3>5. CASE q = 0
      BY <2>1, <3>1, <3>3, <3>4, <3>5
    <3>6. CASE q = 1
      BY <2>1, <3>1, <3>3, <3>4, <3>6
    <3>7. CASE q = 2
      BY <2>1, <3>3, <3>4, <3>7
    <3>8. CASE q = 3
      BY <2>1, <3>3, <3>4, <3>8
    <3> QED
      BY <3>2, <3>5, <3>6, <3>7, <3>8
  <2>4. \A i \in 0..length - 1 : Sound!Address(i) = Sound!Place(i) /\ Sound!Place(i) \in Nat
    BY <1>1, <2>2, <2>3 DEF Sound!Address
  <2>5. ASSUME NEW p \in 0..3, NEW r \in 0..Block - 1, NEW q \in 0..3, NEW s \in 0..Block - 1,
               Sound!Place(p * Block + r) = Sound!Place(q * Block + s)
        PROVE  p = q /\ r = s
    <3>1. Sound!BaseLeft \in Nat
      BY <1>1, SoundAutoPlaces
    <3>2. p \in {0, 1, 2, 3} /\ q \in {0, 1, 2, 3}
      OBVIOUS
    <3>3. /\ p = 0 => Sound!Place(p * Block + r) = Sound!BaseLeft + r
          /\ p = 1 => Sound!Place(p * Block + r) = Sound!BaseLeft + 2 * Block + r
          /\ p = 2 => Sound!Place(p * Block + r) = Sound!BaseLeft + Block + r
          /\ p = 3 => Sound!Place(p * Block + r) = Sound!BaseLeft + 3 * Block + r
      BY <2>3
    <3>4. /\ q = 0 => Sound!Place(q * Block + s) = Sound!BaseLeft + s
          /\ q = 1 => Sound!Place(q * Block + s) = Sound!BaseLeft + 2 * Block + s
          /\ q = 2 => Sound!Place(q * Block + s) = Sound!BaseLeft + Block + s
          /\ q = 3 => Sound!Place(q * Block + s) = Sound!BaseLeft + 3 * Block + s
      BY <2>3
    <3> QED
      BY <2>1, <2>5, <3>1, <3>2, <3>3, <3>4
  <2>6. \A i, j \in 0..length - 1 : Sound!Place(i) = Sound!Place(j) => i = j
    BY <2>2, <2>5
  <2> QED
    BY <2>4, <2>6
<1>2. CASE ~Sound!Automatic(attr)
  <2>1. Sound!MemorySize \in Nat \ {0} /\ tsa \in 0..Sound!MemorySize - 1
    <3>1. \A m, n \in Nat \ {0} : m * n \in Nat \ {0}
      OBVIOUS
    <3>2. Sound!MemorySize \in Nat \ {0}
      BY <3>1 DEF Sound!Spu2Assumption, Sound!MemorySize
    <3> QED
      BY <3>2 DEF Sound!Spu2Assumption, Sound!TypeOK
  <2>2. \A i :
           Sound!Address(i) = (tsa + i) % Sound!MemorySize
           /\ Sound!Place(i) = (tsa + i) % Sound!MemorySize
    BY <1>2 DEF Sound!Address, Sound!Place
  <2> DEFINE m == Sound!MemorySize
  <2> HIDE DEF m
  <2>3. \A i \in 0..m - 1 : (tsa + i) % m = IF tsa + i < m THEN tsa + i ELSE tsa + i - m
    <3> SUFFICES ASSUME NEW i \in 0..m - 1
                 PROVE  (tsa + i) % m = IF tsa + i < m THEN tsa + i ELSE tsa + i - m
      OBVIOUS
    <3>1. m \in Nat \ {0} /\ tsa \in 0..m - 1
      BY <2>1 DEF m
    <3>2. \A k \in 0..m - 1 : k % m = k /\ (m + k) % m = k
      BY <3>1
    <3>3. CASE tsa + i < m
      BY <3>1, <3>2, <3>3
    <3>4. CASE tsa + i >= m
      <4>1. tsa + i - m \in 0..m - 1 /\ tsa + i = m + (tsa + i - m)
        BY <3>1, <3>4
      <4> QED
        BY <3>1, <3>2, <3>4, <4>1
    <3> QED
      BY <3>1, <3>3, <3>4
  <2>4. 0..length - 1 \subseteq 0..m - 1
    BY <1>2, <2>1 DEF m
  <2>5. \A i \in 0..length - 1 : Sound!Place(i) = IF tsa + i < m THEN tsa + i ELSE tsa + i - m
    BY <2>2, <2>3, <2>4 DEF m
  <2>6. m \in Nat /\ tsa \in 0..m - 1
    BY <2>1 DEF m
  <2>7. \A i, j \in 0..length - 1 : Sound!Place(i) = Sound!Place(j) => i = j
    BY <2>4, <2>5, <2>6
  <2>8. \A i \in 0..length - 1 : Sound!Place(i) \in Nat
    BY <2>4, <2>5, <2>6
  <2> QED
    BY <2>2, <2>7, <2>8
<1> QED
  BY <1>1, <1>2
-----------------------------------------------------------------------------
(* What is in memory stays there, for a step that neither writes nor takes *)
(* up a transfer.                                                          *)
LEMMA SoundKept ==
  ASSUME Sound!InPlace, UNCHANGED <<attr, tsa, irqa, memory, sounds>>, spu_prog'.words = spu_prog.words,
         Sound!Transferring' => Sound!Transferring, Sound!Stored' = Sound!Stored
  PROVE  /\ Sound!InPlace' /\ Sound!Touched' = Sound!Touched
         /\ Sound!Fits' = Sound!Fits /\ \A i : Sound!Place(i)' = Sound!Place(i)
         /\ Sound!Place(Sound!Stored - 1)' = Sound!Place(Sound!Stored - 1)
<1>1. \A i : Sound!Place(i)' = Sound!Place(i)
  BY DEF Sound!Place, Sound!Automatic
<1>2. Sound!Fits' = Sound!Fits
  BY DEF Sound!Fits, Sound!Automatic
<1>3. Sound!Touched' = Sound!Touched
  BY <1>1 DEF Sound!Touched
<1>4. Sound!Place(Sound!Stored - 1)' = Sound!Place(Sound!Stored - 1)
  BY DEF Sound!Place, Sound!Automatic
<1> QED
  BY <1>1, <1>2, <1>3, <1>4 DEF Sound!InPlace

(* So does what is known of the watched address, while a due interrupt     *)
(* stays where it is.                                                      *)
LEMMA SoundWatched ==
  ASSUME Sound!InPlace, Sound!WatchKnown, UNCHANGED <<attr, tsa, irqa, irqinfo, memory, sounds, spu_stat>>,
         spu_raised' = spu_raised, spu_prog'.words = spu_prog.words, Sound!Stored' = Sound!Stored,
         Sound!Transferring' => Sound!Transferring,
         irqinfo => Sound!Transferring' \/ Sound!Prog("choose")',
         \/ ~(Sound!Transferring /\ attr.IRQENABLE /\ irqinfo /\ ~spu_raised)
         \/ spu'.at \in {"read_offset", "write_offset", "check", "raise"} /\ dreq' = dreq
  PROVE  Sound!InPlace' /\ Sound!WatchKnown'
<1>1. /\ Sound!InPlace' /\ Sound!Touched' = Sound!Touched /\ Sound!Fits' = Sound!Fits
      /\ Sound!Place(Sound!Stored - 1)' = Sound!Place(Sound!Stored - 1)
  BY SoundKept
<1> QED
  BY <1>1 DEF Sound!WatchKnown

LEMMA SoundHands ==
  ASSUME UNCHANGED spu
  PROVE  /\ UNCHANGED <<Sound!Carrying, Sound!Held, Sound!HasData, Sound!Storing, Sound!LookedInVain>>
         /\ \A place : Sound!At(place)' = Sound!At(place)
BY DEF Sound!Carrying, Sound!Held, Sound!HasData, Sound!At, Sound!Storing, Sound!LookedInVain

(* Halfwords of a transfer are told from the SPU2's "no data".             *)
LEMMA SoundData ==
  ASSUME Sound!TypeOK, sounds # 0, NEW i \in Nat
  PROVE  <<sounds, i>> \in Sound!Halfwords /\ <<sounds, i>> # <<0, 0>>
BY DEF Sound!TypeOK, Sound!Halfwords

LEMMA SoundInitInv ==
  ASSUME Sound!Spu2Assumption, Sound!Init
  PROVE  Sound!SoundInv
<1>1. <<>> \in Seq(Sound!Halfwords) /\ Len(<<>>) = 0 /\ DOMAIN <<>> = {}
  BY EmptySeq
<1>2. Sound!TypeOK
  <2>1. attr \in Sound!Attr /\ spu \in Sound!SpuStates
    BY DEF Sound!Init, Sound!Attr, Sound!AutoWrite, Sound!SpuStates, Sound!Admas, Sound!Nothing,
       Sound!Off
  <2>2. spu_prog \in Sound!ProgramStates
    BY <2>1 DEF Sound!Init, Sound!ProgramStates
  <2>3. admas \in Sound!Admas
    BY DEF Sound!Init, Sound!Off, Sound!Admas
  <2>4. QueueCap \in Nat /\ MaxSounds \in Nat
    BY DEF Sound!Spu2Assumption
  <2>5. /\ DOMAIN memory \subseteq Nat /\ \A a \in DOMAIN memory : memory[a] \in Sound!Halfwords
        /\ fifo \in Seq(Sound!Halfwords) /\ Len(fifo) <= 2 * QueueCap
    BY <1>1, <2>4 DEF Sound!Init
  <2>6. dma \in [left : Nat, sent : Nat, done : BOOLEAN] /\ sounds \in 0..MaxSounds
    BY <2>4 DEF Sound!Init
  <2> QED
    BY <2>1, <2>2, <2>3, <2>5, <2>6 DEF Sound!Init, Sound!TypeOK
<1>3. spu_prog.at = "choose" /\ spu.at = "look"
  BY DEF Sound!Init, Sound!Nothing
<1>4. ~Sound!Carrying /\ ~Sound!Transferring /\ ~Sound!Storing
  BY <1>3 DEF Sound!Carrying, Sound!Transferring, Sound!Storing
<1>5. Sound!ChannelKnown
  BY <1>1, <1>3, <1>4 DEF Sound!Init, Sound!ChannelKnown, Sound!Prog
<1>6. Sound!OffsetKnown /\ Sound!DreqTrue
  BY <1>3, <1>4 DEF Sound!Init, Sound!OffsetKnown, Sound!DreqTrue, Sound!At, Sound!Prog
<1> QED
  BY <1>2, <1>4, <1>5, <1>6 DEF Sound!Init, Sound!SoundInv, Sound!Orderly, Sound!InPlace, Sound!WatchKnown

LEMMA SoundWords ==
  ASSUME Sound!Spu2Assumption, Sound!TypeOK
  PROVE  /\ spu_prog.words \in Nat /\ dma.left \in Nat /\ dma.sent \in Nat /\ dma_offset \in Nat
         /\ fifo \in Seq(Sound!Halfwords) /\ Len(fifo) \in Nat
<1>1. spu_prog.words \in Words \cup {0}
  BY DEF Sound!TypeOK, Sound!ProgramStates
<1>2. \A n \in Words : n \in Nat
  BY DEF Sound!Spu2Assumption
<1>3. fifo \in Seq(Sound!Halfwords) /\ Len(fifo) \in Nat
  BY LenProperties DEF Sound!TypeOK
<1> QED
  BY <1>1, <1>2, <1>3 DEF Sound!TypeOK

(* The program's steps.  While a transfer is set up the SPU2 holds no data *)
(* - or the program has been early.                                        *)
LEMMA SoundIdle ==
  ASSUME Sound!SoundInv, ~early, spu_prog.at \in {"attr", "value", "admas", "start"}
  PROVE  /\ ~Sound!Carrying /\ Sound!Held = 0 /\ ~Sound!Storing
         /\ spu_prog.at # "attr" => dma_offset = 0
<1>1. ~Sound!Carrying
  BY DEF Sound!SoundInv, Sound!Orderly, Sound!OffsetKnown, Sound!Transferring, Sound!Prog
<1>2. Sound!Held = 0 /\ ~Sound!Storing
  BY <1>1 DEF Sound!Held, Sound!Carrying, Sound!Storing
<1>3. ASSUME spu_prog.at # "attr" PROVE dma_offset = 0
  <2>1. Sound!Taken = 0
    BY <1>3 DEF Sound!Taken, Sound!Prog, Sound!Transferring
  <2>2. Sound!Taken = dma_offset + Sound!Held /\ dma_offset \in Nat
    BY <1>3 DEF Sound!SoundInv, Sound!Orderly, Sound!OffsetKnown, Sound!TypeOK
  <2> QED
    BY <1>2, <2>1, <2>2
<1> QED
  BY <1>1, <1>2, <1>3

LEMMA SoundChooseInv ==
  ASSUME Sound!Spu2Assumption, Sound!SoundInv, Sound!Choose
  PROVE  Sound!SoundInv'
<1>1. PICK a \in Attrs, start \in Starts, watched \in Watched, words \in Words :
        /\ spu_prog' = [at |-> "attr", attr |-> a, words |-> words]
        /\ tsa' = start /\ irqa' = watched
  BY DEF Sound!Choose
<1>2. /\ Sound!Prog("choose") /\ sounds < MaxSounds /\ sounds' = sounds + 1
      /\ irqinfo' = FALSE /\ spu_stat' = FALSE /\ spu_raised' = FALSE
      /\ between' = FALSE /\ early' = (early \/ Sound!Carrying)
      /\ UNCHANGED <<attr, dma_offset, admas, dreq, memory, fifo, dma, spu>>
  BY DEF Sound!Choose, Sound!channel
<1>3. Sound!TypeOK /\ fifo = <<>> /\ Len(fifo) = 0 /\ dma.left = 0
  BY <1>2, EmptySeq DEF Sound!SoundInv, Sound!ChannelKnown, Sound!Prog
<1>4. spu_prog'.at = "attr"
  BY <1>1
<1>5. Sound!TypeOK'
  <2>1. spu_prog' \in Sound!ProgramStates
    BY <1>1 DEF Sound!ProgramStates, Sound!Spu2Assumption
  <2>2. sounds' \in 0..MaxSounds
    BY <1>2, <1>3 DEF Sound!TypeOK, Sound!Spu2Assumption
  <2>3. early' \in BOOLEAN
    BY <1>2, <1>3 DEF Sound!TypeOK, Sound!Carrying
  <2> QED
    BY <1>1, <1>2, <1>3, <2>1, <2>2, <2>3 DEF Sound!TypeOK
<1>6. /\ UNCHANGED <<Sound!Carrying, Sound!Storing, Sound!HasData>>
      /\ \A place : Sound!At(place)' = Sound!At(place)
  BY <1>2, SoundHands
<1>7. Sound!ChannelKnown'
  BY <1>2, <1>3, <1>4, <1>6 DEF Sound!SoundInv, Sound!ChannelKnown, Sound!Prog, Sound!TypeOK
<1>8. ASSUME ~early'
      PROVE  Sound!Orderly'
  <2>1. ~Sound!Carrying' /\ ~Sound!Storing' /\ ~Sound!At("write_offset")'
    BY <1>2, <1>6, <1>8 DEF Sound!Storing, Sound!Carrying, Sound!At
  <2>2. Sound!OffsetKnown' /\ Sound!DreqTrue'
    BY <1>4, <2>1 DEF Sound!OffsetKnown, Sound!DreqTrue, Sound!Prog
  <2>3. Sound!InPlace' /\ Sound!WatchKnown'
    BY <1>2, <1>4 DEF Sound!InPlace, Sound!WatchKnown, Sound!Transferring
  <2> QED
    BY <2>2, <2>3 DEF Sound!Orderly
<1> QED
  BY <1>5, <1>7, <1>8 DEF Sound!SoundInv

(* The steps that set up a transfer have nothing to do with what the SPU2  *)
(* and the channel are at.                                                 *)
LEMMA SoundSetUp ==
  ASSUME Sound!Spu2Assumption, Sound!SoundInv, Sound!TypeOK', spu_prog.at \in {"attr", "value", "admas"},
         spu_prog'.at \in {"value", "admas", "start"},
         spu_prog.at = "attr" \/ dma_offset' = dma_offset, dma_offset' = 0 \/ spu_prog.at # "attr",
         UNCHANGED <<dreq, irqinfo, fifo, dma, spu_stat, spu, sounds, spu_raised, between, early>>
  PROVE  Sound!SoundInv'
<1>1. UNCHANGED <<Sound!Carrying, Sound!Held, Sound!HasData, Sound!Storing, Sound!LookedInVain>>
      /\ \A place : Sound!At(place)' = Sound!At(place)
  BY SoundHands
<1>2. Sound!ChannelKnown'
  BY <1>1, EmptySeq DEF Sound!SoundInv, Sound!ChannelKnown, Sound!Prog
<1>3. ASSUME ~early
      PROVE  Sound!Orderly'
  <2>1. ~Sound!Carrying /\ Sound!Held = 0 /\ ~Sound!Storing /\ dma_offset' = 0
    BY <1>3, SoundIdle
  <2>2. Sound!OffsetKnown'
    <3>1. Sound!Taken' = 0
      BY DEF Sound!Taken, Sound!Prog, Sound!Transferring
    <3>2. Sound!At("write_offset") => Sound!Storing
      BY DEF Sound!At, Sound!Storing
    <3> QED
      BY <1>1, <2>1, <3>1, <3>2 DEF Sound!OffsetKnown
  <2>3. Sound!DreqTrue'
    <3>1. \A n \in Nat : 0 # 2 * n - 1
      OBVIOUS
    <3>2. spu_prog'.words \in Nat
      <4>1. spu_prog'.words \in Words \cup {0}
        BY DEF Sound!TypeOK, Sound!ProgramStates
      <4>2. \A n \in Words \cup {0} : n \in Nat
        BY DEF Sound!Spu2Assumption
      <4> QED
        BY <4>1, <4>2
    <3> QED
      BY <1>1, <2>1, <3>1, <3>2 DEF Sound!DreqTrue, Sound!Prog
  <2>4. Sound!InPlace' /\ Sound!WatchKnown'
    BY <1>3 DEF Sound!SoundInv, Sound!Orderly, Sound!InPlace, Sound!WatchKnown,
                Sound!Transferring, Sound!Prog
  <2> QED
    BY <2>2, <2>3, <2>4 DEF Sound!Orderly
<1> QED
  BY <1>2, <1>3 DEF Sound!SoundInv

LEMMA SoundResetInv ==
  ASSUME Sound!Spu2Assumption, Sound!SoundInv, Sound!ResetOffset
  PROVE  Sound!SoundInv'
<1>1. /\ Sound!Prog("attr") /\ spu_prog' = [spu_prog EXCEPT !.at = "value"] /\ dma_offset' = 0
      /\ UNCHANGED <<attr, admas, dreq, tsa, irqa, irqinfo, memory, fifo, dma>>
      /\ UNCHANGED <<spu_stat, spu, sounds, spu_raised, between, early>>
  BY DEF Sound!ResetOffset, Sound!ProgGoto, Sound!channel, Sound!history
<1>2. Sound!TypeOK
  BY DEF Sound!SoundInv
<1>3. Sound!TypeOK' /\ spu_prog'.at = "value"
  BY <1>1, <1>2 DEF Sound!TypeOK, Sound!ProgramStates
<1> QED
  BY <1>1, <1>3, SoundSetUp DEF Sound!Prog

LEMMA SoundWriteAttrInv ==
  ASSUME Sound!Spu2Assumption, Sound!SoundInv, Sound!WriteAttr
  PROVE  Sound!SoundInv'
<1>1. /\ Sound!Prog("value") /\ attr' = spu_prog.attr
      /\ spu_prog' = [spu_prog EXCEPT !.at = IF Sound!Automatic(spu_prog.attr) THEN "admas" ELSE "start"]
      /\ UNCHANGED <<dma_offset, admas, dreq, tsa, irqa, irqinfo, memory, fifo, dma>>
      /\ UNCHANGED <<spu_stat, spu, sounds, spu_raised, between, early>>
  BY DEF Sound!WriteAttr, Sound!ProgGoto, Sound!channel, Sound!history
<1>2. Sound!TypeOK
  BY DEF Sound!SoundInv
<1>3. Sound!TypeOK' /\ spu_prog'.at \in {"admas", "start"}
  BY <1>1, <1>2 DEF Sound!TypeOK, Sound!ProgramStates
<1> QED
  BY <1>1, <1>3, SoundSetUp DEF Sound!Prog

LEMMA SoundEnableInv ==
  ASSUME Sound!Spu2Assumption, Sound!SoundInv, Sound!EnableAdma
  PROVE  Sound!SoundInv'
<1>1. /\ Sound!Prog("admas") /\ admas' = [enabled |-> TRUE, running |-> TRUE]
      /\ spu_prog' = [spu_prog EXCEPT !.at = "start"]
      /\ UNCHANGED <<attr, dma_offset, dreq, tsa, irqa, irqinfo, memory, fifo, dma>>
      /\ UNCHANGED <<spu_stat, spu, sounds, spu_raised, between, early>>
  BY DEF Sound!EnableAdma, Sound!ProgGoto, Sound!channel, Sound!history
<1>2. Sound!TypeOK
  BY DEF Sound!SoundInv
<1>3. Sound!TypeOK' /\ spu_prog'.at = "start"
  BY <1>1, <1>2 DEF Sound!TypeOK, Sound!ProgramStates, Sound!Admas
<1> QED
  BY <1>1, <1>3, SoundSetUp DEF Sound!Prog

LEMMA SoundStartInv ==
  ASSUME Sound!Spu2Assumption, Sound!SoundInv, Sound!StartChannel
  PROVE  Sound!SoundInv'
<1>1. /\ Sound!Prog("start") /\ spu_prog' = [spu_prog EXCEPT !.at = "interrupt"]
      /\ dma' = [left |-> 2 * spu_prog.words, sent |-> 0, done |-> FALSE]
      /\ UNCHANGED <<attr, dma_offset, admas, dreq, tsa, irqa, irqinfo, memory, fifo>>
      /\ UNCHANGED <<spu_stat, spu, sounds, spu_raised, between, early>>
  BY DEF Sound!StartChannel, Sound!ProgGoto, Sound!registers, Sound!history
<1>2. Sound!TypeOK /\ spu_prog.words \in Nat /\ fifo = <<>> /\ Len(fifo) = 0
  BY <1>1, SoundWords, EmptySeq DEF Sound!SoundInv, Sound!ChannelKnown, Sound!Prog
<1>3. /\ spu_prog'.at = "interrupt" /\ spu_prog'.words = spu_prog.words
      /\ dma'.left = 2 * spu_prog.words /\ dma'.sent = 0
  BY <1>1, <1>2 DEF Sound!TypeOK, Sound!ProgramStates
<1>4. Sound!TypeOK'
  <2>1. dma' \in [left : Nat, sent : Nat, done : BOOLEAN]
    BY <1>1, <1>2
  <2>2. spu_prog' \in Sound!ProgramStates
    BY <1>1, <1>2 DEF Sound!TypeOK, Sound!ProgramStates
  <2> QED
    BY <1>1, <1>2, <2>1, <2>2 DEF Sound!TypeOK
<1>5. UNCHANGED <<Sound!Carrying, Sound!Held, Sound!HasData, Sound!Storing, Sound!LookedInVain>>
      /\ \A place : Sound!At(place)' = Sound!At(place)
  BY <1>1, SoundHands
<1>6. Sound!ChannelKnown'
  BY <1>1, <1>2, <1>3, <1>5 DEF Sound!SoundInv, Sound!ChannelKnown, Sound!Prog
<1>7. ASSUME ~early
      PROVE  Sound!Orderly'
  <2>1. ~Sound!Carrying /\ Sound!Held = 0 /\ ~Sound!Storing /\ dma_offset = 0
    BY <1>1, <1>7, SoundIdle DEF Sound!Prog
  <2>2. Sound!OffsetKnown'
    <3>1. Sound!Taken' = 0
      BY <1>1, <1>2, <1>3 DEF Sound!Taken, Sound!Prog
    <3>2. Sound!At("write_offset") => Sound!Storing
      BY DEF Sound!At, Sound!Storing
    <3> QED
      BY <1>1, <1>5, <2>1, <3>1, <3>2 DEF Sound!OffsetKnown
  <2>3. Sound!DreqTrue'
    <3>1. \A n \in Nat : 0 # 2 * n - 1
      OBVIOUS
    <3> QED
      BY <1>1, <1>2, <1>3, <1>5, <2>1, <3>1 DEF Sound!DreqTrue, Sound!Prog
  <2>4. Sound!Stored' = 0
    BY <1>1, <2>1 DEF Sound!Stored, Sound!Storing
  <2>5. ~irqinfo /\ (spu_stat => spu_raised)
    BY <1>1, <1>7 DEF Sound!SoundInv, Sound!Orderly, Sound!WatchKnown, Sound!Transferring, Sound!Prog
  <2>6. ~Sound!Touched' /\ Sound!InPlace'
    BY <2>4 DEF Sound!Touched, Sound!InPlace
  <2>7. Sound!WatchKnown'
    BY <1>1, <2>5, <2>6 DEF Sound!WatchKnown
  <2> QED
    BY <2>2, <2>3, <2>6, <2>7 DEF Sound!Orderly
<1> QED
  BY <1>1, <1>4, <1>6, <1>7 DEF Sound!SoundInv

(* STATX asks for data, and that is no mistake unless the SPU2 has looked  *)
(* between the halves of the last word: it holds nothing.                  *)
LEMMA SoundPollInv ==
  ASSUME Sound!Spu2Assumption, Sound!SoundInv, Sound!PollDreq
  PROVE  Sound!SoundInv'
<1>1. /\ Sound!Prog("dreq") /\ dreq /\ spu_prog' = [spu_prog EXCEPT !.at = "done"]
      /\ UNCHANGED <<attr, dma_offset, admas, dreq, tsa, irqa, irqinfo, memory, fifo, dma>>
      /\ UNCHANGED <<spu_stat, spu, sounds, spu_raised, between, early>>
  BY DEF Sound!PollDreq, Sound!ProgGoto, Sound!registers, Sound!channel, Sound!history
<1>2. Sound!TypeOK /\ spu_prog.words \in Nat /\ dma_offset \in Nat
  BY SoundWords DEF Sound!SoundInv
<1>3. spu_prog'.at = "done" /\ spu_prog'.words = spu_prog.words
  BY <1>1, <1>2 DEF Sound!TypeOK, Sound!ProgramStates
<1>4. Sound!TypeOK'
  BY <1>1, <1>2, <1>3 DEF Sound!TypeOK, Sound!ProgramStates
<1>5. /\ UNCHANGED <<Sound!Carrying, Sound!Held, Sound!HasData, Sound!Storing, Sound!LookedInVain>>
      /\ \A place : Sound!At(place)' = Sound!At(place)
      /\ Sound!Taken' = 2 * spu_prog.words /\ Sound!Taken = 2 * spu_prog.words
  BY <1>1, <1>3, SoundHands DEF Sound!Taken, Sound!Prog, Sound!Transferring
<1>6. Sound!ChannelKnown'
  BY <1>1, <1>3, <1>5 DEF Sound!SoundInv, Sound!ChannelKnown, Sound!Prog
<1>7. ASSUME ~early
      PROVE  Sound!Orderly'
  <2>1. Sound!OffsetKnown /\ Sound!DreqTrue /\ Sound!InPlace /\ Sound!WatchKnown
    BY <1>7 DEF Sound!SoundInv, Sound!Orderly
  <2>2. Sound!Carrying => between
    <3>1. Sound!Taken = dma_offset + Sound!Held
      BY <1>1, <2>1 DEF Sound!OffsetKnown, Sound!Prog
    <3>2. between \/ dma_offset # 2 * spu_prog.words - 1
      BY <1>1, <2>1 DEF Sound!DreqTrue, Sound!Prog
    <3>3. Sound!Carrying => Sound!Held = 1
      BY DEF Sound!Held
    <3> QED
      BY <1>2, <1>5, <3>1, <3>2, <3>3
  <2>3. Sound!OffsetKnown'
    BY <1>1, <1>3, <1>5, <2>1, <2>2 DEF Sound!OffsetKnown, Sound!Prog, Sound!Transferring
  <2>4. Sound!DreqTrue'
    BY <1>1, <1>3, <1>5, <2>1 DEF Sound!DreqTrue, Sound!Prog
  <2>5. Sound!Transferring /\ Sound!Transferring' /\ Sound!Stored' = Sound!Stored
    BY <1>1, <1>3 DEF Sound!Transferring, Sound!Prog, Sound!Stored
  <2>6. Sound!InPlace' /\ Sound!WatchKnown'
    <3>1. \/ ~(Sound!Transferring /\ attr.IRQENABLE /\ irqinfo /\ ~spu_raised)
          \/ spu'.at \in {"read_offset", "write_offset", "check", "raise"} /\ dreq' = dreq
      BY <1>1, <2>1 DEF Sound!WatchKnown
    <3> QED
      BY <1>1, <1>3, <2>1, <2>5, <3>1, SoundWatched
  <2> QED
    BY <2>3, <2>4, <2>6 DEF Sound!Orderly
<1> QED
  BY <1>1, <1>4, <1>6, <1>7 DEF Sound!SoundInv

LEMMA SoundFinishInv ==
  ASSUME Sound!Spu2Assumption, Sound!SoundInv, Sound!Finish
  PROVE  Sound!SoundInv'
<1>1. /\ Sound!Prog("done")
      /\ spu_prog' = [spu_prog EXCEPT !.at = "choose"] /\ admas' \in {admas, Sound!Off}
      /\ UNCHANGED <<attr, dma_offset, dreq, tsa, irqa, irqinfo, memory, fifo, dma>>
      /\ UNCHANGED <<spu_stat, spu, sounds, spu_raised, between, early>>
  BY DEF Sound!Finish, Sound!ProgGoto, Sound!channel, Sound!history
<1>2. Sound!TypeOK /\ fifo = <<>> /\ Len(fifo) = 0 /\ dma.left = 0
  BY <1>1, EmptySeq DEF Sound!SoundInv, Sound!ChannelKnown, Sound!Prog
<1>3. spu_prog'.at = "choose"
  BY <1>1, <1>2 DEF Sound!TypeOK, Sound!ProgramStates
<1>4. Sound!TypeOK'
  <2>1. Sound!Off \in Sound!Admas
    BY DEF Sound!Off, Sound!Admas
  <2>2. admas' \in Sound!Admas /\ spu_prog' \in Sound!ProgramStates
    BY <1>1, <1>2, <2>1 DEF Sound!TypeOK, Sound!ProgramStates
  <2> QED
    BY <1>1, <1>2, <2>2 DEF Sound!TypeOK
<1>5. UNCHANGED <<Sound!Carrying, Sound!Held, Sound!HasData, Sound!Storing, Sound!LookedInVain>>
      /\ \A place : Sound!At(place)' = Sound!At(place)
  BY <1>1, SoundHands
<1>6. Sound!ChannelKnown'
  BY <1>1, <1>2, <1>3, <1>5 DEF Sound!SoundInv, Sound!ChannelKnown, Sound!Prog
<1>7. ASSUME ~early
      PROVE  Sound!Orderly'
  <2>1. Sound!OffsetKnown' /\ Sound!DreqTrue'
    BY <1>1, <1>3, <1>5, <1>7 DEF Sound!SoundInv, Sound!Orderly, Sound!OffsetKnown, Sound!DreqTrue,
                                  Sound!Prog
  <2>2. Sound!InPlace' /\ Sound!WatchKnown'
    BY <1>1, <1>3, <1>7 DEF Sound!SoundInv, Sound!Orderly, Sound!InPlace, Sound!WatchKnown,
       Sound!Transferring, Sound!Prog
  <2> QED
    BY <2>1, <2>2 DEF Sound!Orderly
<1> QED
  BY <1>1, <1>4, <1>6, <1>7 DEF Sound!SoundInv

LEMMA SoundAcknowledgeInv ==
  ASSUME Sound!Spu2Assumption, Sound!SoundInv, Sound!Acknowledge
  PROVE  Sound!SoundInv'
<1>1. /\ spu_stat /\ spu_stat' = FALSE /\ irqinfo' = FALSE
      /\ UNCHANGED <<attr, dma_offset, admas, dreq, tsa, irqa, memory, fifo, dma>>
      /\ UNCHANGED <<spu, spu_prog, sounds, spu_raised, between, early>>
  BY DEF Sound!Acknowledge, Sound!channel, Sound!history
<1>2. Sound!TypeOK'
  BY <1>1 DEF Sound!SoundInv, Sound!TypeOK
<1>3. /\ UNCHANGED <<Sound!Carrying, Sound!Held, Sound!HasData, Sound!Storing, Sound!LookedInVain>>
      /\ \A place : Sound!At(place)' = Sound!At(place)
      /\ Sound!Taken' = Sound!Taken /\ Sound!Transferring' = Sound!Transferring
      /\ \A place : Sound!Prog(place)' = Sound!Prog(place)
  BY <1>1, SoundHands DEF Sound!Taken, Sound!Prog, Sound!Transferring
<1>4. Sound!ChannelKnown'
  BY <1>1, <1>3 DEF Sound!SoundInv, Sound!ChannelKnown
<1>5. ASSUME ~early
      PROVE  Sound!Orderly'
  <2>1. Sound!OffsetKnown /\ Sound!DreqTrue /\ Sound!InPlace /\ Sound!WatchKnown
    BY <1>5 DEF Sound!SoundInv, Sound!Orderly
  <2>2. Sound!OffsetKnown' /\ Sound!DreqTrue'
    BY <1>1, <1>3, <2>1 DEF Sound!OffsetKnown, Sound!DreqTrue
  <2>3. Sound!Stored' = Sound!Stored
    BY <1>1 DEF Sound!Stored
  <2>4. Sound!InPlace'
    BY <1>1, <1>3, <2>1, <2>3, SoundKept
  <2>5. Sound!WatchKnown'
    BY <1>1, <2>1 DEF Sound!WatchKnown
  <2> QED
    BY <2>2, <2>4, <2>5 DEF Sound!Orderly
<1> QED
  BY <1>1, <1>2, <1>4, <1>5 DEF Sound!SoundInv

(* The channel's steps.                                                    *)
LEMMA SoundSendInv ==
  ASSUME Sound!Spu2Assumption, Sound!SoundInv, Sound!Send
  PROVE  Sound!SoundInv'
<1> DEFINE halfword == <<sounds, dma.sent>>
<1>1. /\ dma.left > 0 /\ (dma.sent % 2 = 0 => Len(fifo) + 2 <= 2 * QueueCap)
      /\ fifo' = Append(fifo, halfword)
      /\ dma' = [dma EXCEPT !.left = dma.left - 1, !.sent = dma.sent + 1]
      /\ UNCHANGED <<attr, dma_offset, admas, dreq, tsa, irqa, irqinfo, memory>>
      /\ UNCHANGED <<spu_stat, spu, spu_prog, sounds, spu_raised, between, early>>
  BY DEF Sound!Send, Sound!registers, Sound!history
<1>2. Sound!TypeOK /\ Sound!Prog("interrupt") /\ sounds # 0
  <2>1. dma.left \in Nat
    BY DEF Sound!SoundInv, Sound!TypeOK
  <2> QED
    BY <1>1, <2>1 DEF Sound!SoundInv, Sound!ChannelKnown, Sound!Prog
<1>3. /\ dma.left \in Nat /\ dma.sent \in Nat /\ fifo \in Seq(Sound!Halfwords) /\ Len(fifo) \in Nat
      /\ dma'.left = dma.left - 1 /\ dma'.sent = dma.sent + 1 /\ spu_prog.words \in Nat
  BY <1>1, <1>2, SoundWords DEF Sound!TypeOK
<1>4. halfword \in Sound!Halfwords
  BY <1>2, <1>3, SoundData
<1> HIDE DEF halfword
<1>5. /\ fifo' \in Seq(Sound!Halfwords) /\ Len(fifo') = Len(fifo) + 1
      /\ \A i \in 1..Len(fifo) : fifo'[i] = fifo[i]
      /\ fifo'[Len(fifo) + 1] = halfword
  BY <1>1, <1>3, <1>4
<1>6. UNCHANGED <<Sound!Carrying, Sound!Held, Sound!HasData, Sound!Storing, Sound!LookedInVain>>
      /\ \A place : Sound!At(place)' = Sound!At(place)
  BY <1>1, SoundHands
<1>7. Sound!Taken = dma.sent - Len(fifo) /\ Sound!Taken' = Sound!Taken
  <2>1. Sound!Taken = dma.sent - Len(fifo)
    BY <1>2 DEF Sound!Taken
  <2>2. Sound!Taken' = dma'.sent - Len(fifo')
    BY <1>1, <1>2 DEF Sound!Taken, Sound!Prog
  <2>3. dma'.sent - Len(fifo') = dma.sent - Len(fifo)
    <3>1. \A m, n \in Nat : (m + 1) - (n + 1) = m - n
      OBVIOUS
    <3>2. dma.sent \in Nat /\ Len(fifo) \in Nat
      BY <1>3
    <3>3. dma'.sent = dma.sent + 1 /\ Len(fifo') = Len(fifo) + 1
      BY <1>3, <1>5
    <3> QED
      BY <3>1, <3>2, <3>3
  <2> QED
    BY <2>1, <2>2, <2>3
<1>8. Len(fifo') <= 2 * QueueCap
  <2>1. QueueCap \in Nat /\ Len(fifo) <= 2 * QueueCap
    BY <1>2 DEF Sound!TypeOK, Sound!Spu2Assumption
  <2>2. CASE dma.sent % 2 = 0
    BY <1>1, <1>3, <1>5, <2>1, <2>2
  <2>3. CASE dma.sent % 2 # 0
    <3>1. Len(fifo) < 2 * QueueCap
      BY <1>2, <2>3 DEF Sound!SoundInv, Sound!ChannelKnown
    <3> QED
      BY <1>3, <1>5, <2>1, <3>1
  <2> QED
    BY <2>2, <2>3
<1>9. Sound!TypeOK'
  <2>1. dma' \in [left : Nat, sent : Nat, done : BOOLEAN]
    <3>1. dma.left - 1 \in Nat /\ dma.sent + 1 \in Nat
      BY <1>1, <1>3
    <3>2. dma \in [left : Nat, sent : Nat, done : BOOLEAN]
      BY <1>2 DEF Sound!TypeOK
    <3> QED
      BY <1>1, <3>1, <3>2
  <2> QED
    BY <1>1, <1>2, <1>5, <1>8, <2>1 DEF Sound!TypeOK
<1>10. Sound!ChannelKnown'
  <2>1. dma'.left + dma'.sent = 2 * spu_prog.words /\ Len(fifo') <= dma'.sent
    BY <1>2, <1>3, <1>5 DEF Sound!SoundInv, Sound!ChannelKnown
  <2>2. ASSUME NEW i \in 1..Len(fifo')
        PROVE  fifo'[i] = <<sounds, Sound!Taken + i - 1>>
    <3>1. CASE i \in 1..Len(fifo)
      BY <1>5, <3>1 DEF Sound!SoundInv, Sound!ChannelKnown
    <3>2. CASE i = Len(fifo) + 1
      <4>1. Sound!Taken + i - 1 = dma.sent
        BY <1>3, <1>7, <3>2
      <4> QED
        BY <1>5, <3>2, <4>1 DEF halfword
    <3> QED
      BY <1>3, <1>5, <3>1, <3>2
  <2>3. dma'.sent % 2 # 0 => Len(fifo') < 2 * QueueCap
    <3>1. CASE dma.sent % 2 = 0
      BY <1>1, <1>3, <1>5, <3>1 DEF Sound!Spu2Assumption
    <3>2. CASE dma.sent % 2 # 0
      <4>1. (dma.sent + 1) % 2 = 0
        BY <1>3, <3>2
      <4> QED
        BY <1>3, <4>1
    <3> QED
      BY <3>1, <3>2
  <2> QED
    BY <1>1, <1>2, <1>6, <1>7, <2>1, <2>2, <2>3 DEF Sound!SoundInv, Sound!ChannelKnown, Sound!Prog
<1>11. ASSUME ~early
       PROVE  Sound!Orderly'
  <2>1. Sound!OffsetKnown /\ Sound!DreqTrue /\ Sound!InPlace /\ Sound!WatchKnown
    BY <1>11 DEF Sound!SoundInv, Sound!Orderly
  <2>2. Sound!Transferring' = Sound!Transferring /\ Sound!Stored' = Sound!Stored
        /\ \A place : Sound!Prog(place)' = Sound!Prog(place)
    BY <1>1 DEF Sound!Transferring, Sound!Stored, Sound!Prog
  <2>3. Sound!OffsetKnown' /\ Sound!DreqTrue'
    BY <1>1, <1>6, <1>7, <2>1, <2>2 DEF Sound!OffsetKnown, Sound!DreqTrue
  <2>4. Sound!InPlace' /\ Sound!WatchKnown'
    <3>1. \/ ~(Sound!Transferring /\ attr.IRQENABLE /\ irqinfo /\ ~spu_raised)
          \/ spu'.at \in {"read_offset", "write_offset", "check", "raise"} /\ dreq' = dreq
      BY <1>1, <2>1 DEF Sound!WatchKnown
    <3>2. irqinfo => Sound!Transferring' \/ Sound!Prog("choose")'
      BY <2>1, <2>2 DEF Sound!WatchKnown
    <3> QED
      BY <1>1, <2>1, <2>2, <3>1, <3>2, SoundWatched
  <2> QED
    BY <2>3, <2>4 DEF Sound!Orderly
<1> QED
  BY <1>1, <1>9, <1>10, <1>11 DEF Sound!SoundInv

LEMMA SoundEndInv ==
  ASSUME Sound!Spu2Assumption, Sound!SoundInv, Sound!EndChannel
  PROVE  Sound!SoundInv'
<1>1. /\ Sound!Prog("interrupt") /\ dma.left = 0 /\ fifo = <<>>
      /\ dma' = [dma EXCEPT !.sent = 0, !.done = TRUE] /\ spu_prog' = [spu_prog EXCEPT !.at = "dreq"]
      /\ UNCHANGED <<attr, dma_offset, admas, dreq, tsa, irqa, irqinfo, memory, fifo>>
      /\ UNCHANGED <<spu_stat, spu, sounds, spu_raised, between, early>>
  BY DEF Sound!EndChannel, Sound!ProgGoto, Sound!registers, Sound!history
<1>2. Sound!TypeOK /\ Len(fifo) = 0 /\ sounds # 0 /\ spu_prog.words \in Nat
  BY <1>1, EmptySeq, SoundWords DEF Sound!SoundInv, Sound!ChannelKnown, Sound!Prog
<1>3. spu_prog'.at = "dreq" /\ spu_prog'.words = spu_prog.words /\ dma'.left = 0
  BY <1>1, <1>2 DEF Sound!TypeOK, Sound!ProgramStates
<1>4. Sound!TypeOK'
  BY <1>1, <1>2 DEF Sound!TypeOK, Sound!ProgramStates
<1>5. Sound!Taken' = Sound!Taken
  <2>1. dma.sent = 2 * spu_prog.words /\ dma.sent \in Nat
    BY <1>1, <1>2 DEF Sound!SoundInv, Sound!ChannelKnown, Sound!TypeOK
  <2> QED
    BY <1>1, <1>2, <1>3, <2>1 DEF Sound!Taken, Sound!Prog, Sound!Transferring
<1>6. UNCHANGED <<Sound!Carrying, Sound!Held, Sound!HasData, Sound!Storing, Sound!LookedInVain>>
      /\ \A place : Sound!At(place)' = Sound!At(place)
  BY <1>1, SoundHands
<1>7. Sound!ChannelKnown'
  BY <1>1, <1>2, <1>3, <1>6 DEF Sound!SoundInv, Sound!ChannelKnown, Sound!Prog
<1>8. ASSUME ~early
      PROVE  Sound!Orderly'
  <2>1. Sound!OffsetKnown /\ Sound!DreqTrue /\ Sound!InPlace /\ Sound!WatchKnown
    BY <1>8 DEF Sound!SoundInv, Sound!Orderly
  <2>2. Sound!Transferring /\ Sound!Transferring' /\ Sound!Stored' = Sound!Stored
    BY <1>1, <1>3 DEF Sound!Transferring, Sound!Prog, Sound!Stored
  <2>3. Sound!OffsetKnown' /\ Sound!DreqTrue'
    BY <1>1, <1>3, <1>5, <1>6, <2>1, <2>2 DEF Sound!OffsetKnown, Sound!DreqTrue, Sound!Prog
  <2>4. Sound!InPlace' /\ Sound!WatchKnown'
    <3>1. \/ ~(Sound!Transferring /\ attr.IRQENABLE /\ irqinfo /\ ~spu_raised)
          \/ spu'.at \in {"read_offset", "write_offset", "check", "raise"} /\ dreq' = dreq
      BY <1>1, <2>1 DEF Sound!WatchKnown
    <3> QED
      BY <1>1, <1>3, <2>1, <2>2, <3>1, SoundWatched
  <2> QED
    BY <2>3, <2>4 DEF Sound!Orderly
<1> QED
  BY <1>1, <1>4, <1>7, <1>8 DEF Sound!SoundInv

(* The SPU2's steps.                                                       *)
LEMMA SoundMoves ==
  ASSUME Sound!SoundInv, UNCHANGED <<fifo, dma, spu_prog, sounds>>, Sound!Storing' => Sound!HasData'
  PROVE  /\ Sound!ChannelKnown' /\ Sound!Taken' = Sound!Taken /\ Sound!Transferring' = Sound!Transferring
         /\ \A place : Sound!Prog(place)' = Sound!Prog(place)
<1>1. Sound!Taken' = Sound!Taken /\ Sound!Transferring' = Sound!Transferring
      /\ \A place : Sound!Prog(place)' = Sound!Prog(place)
  BY DEF Sound!Taken, Sound!Transferring, Sound!Prog
<1> QED
  BY <1>1 DEF Sound!SoundInv, Sound!ChannelKnown

(* While the SPU2 goes on with or without data, an interrupt is not due.   *)
LEMMA SoundGoesOn ==
  ASSUME Sound!InPlace, Sound!WatchKnown, spu_prog' = spu_prog,
         UNCHANGED <<attr, dma_offset, tsa, irqa, irqinfo, memory, spu_stat, sounds, spu_raised>>,
         spu.at \in {"look", "read_admas", "write_admas", "dreq"},
         spu'.at \in {"look", "read_admas", "write_admas", "dreq", "store", "check", "failed"}
  PROVE  Sound!InPlace' /\ Sound!WatchKnown'
<1>1. Sound!Stored' = Sound!Stored /\ Sound!Transferring' = Sound!Transferring
      /\ Sound!Prog("choose")' = Sound!Prog("choose")
  BY DEF Sound!Stored, Sound!Transferring, Sound!Prog
<1>2. ~(Sound!Transferring /\ attr.IRQENABLE /\ irqinfo /\ ~spu_raised)
  BY DEF Sound!WatchKnown
<1>3. irqinfo => Sound!Transferring' \/ Sound!Prog("choose")'
  BY <1>1 DEF Sound!WatchKnown
<1> QED
  BY <1>1, <1>2, <1>3, SoundWatched

LEMMA SoundLookInv ==
  ASSUME Sound!Spu2Assumption, Sound!SoundInv, Sound!Look
  PROVE  Sound!SoundInv'
<1>1. /\ Sound!At("look") /\ UNCHANGED <<attr, dma_offset, admas, dreq, tsa, irqa, irqinfo, memory, dma>>
      /\ UNCHANGED <<spu_stat, spu_prog, sounds, spu_raised, early>>
      /\ between' = (between \/ (Sound!Active /\ fifo = <<>> /\ dma.left = 1))
  BY DEF Sound!Look, Sound!registers
<1>2. \/ spu' \in {[spu EXCEPT !.at = "failed"], [spu EXCEPT !.at = "check"]} /\ fifo' = fifo
      \/ /\ Sound!Active
         /\ \E next \in {"read_admas", "dreq"} :
           \/ fifo = <<>> /\ spu' = [Sound!Nothing EXCEPT !.at = next] /\ fifo' = fifo
           \/ fifo # <<>> /\ spu' = [Sound!Nothing EXCEPT !.at = next, !.data = Head(fifo)]
              /\ fifo' = Tail(fifo)
  BY DEF Sound!Look, Sound!Goto
<1>3. /\ Sound!TypeOK /\ ~Sound!Carrying /\ Sound!Held = 0 /\ spu.at = "look" /\ spu \in Sound!SpuStates
      /\ spu_prog.words \in Nat /\ dma.left \in Nat /\ dma.sent \in Nat /\ dma_offset \in Nat
  BY <1>1, SoundWords DEF Sound!SoundInv, Sound!TypeOK, Sound!Carrying, Sound!Held, Sound!At
<1>4. Sound!Off \in Sound!Admas
  BY DEF Sound!Off, Sound!Admas
<1>5. between' \in BOOLEAN
  BY <1>1, <1>3 DEF Sound!TypeOK, Sound!Active
<1>6. CASE fifo' = fifo
  <2>1. /\ spu' \in Sound!SpuStates /\ spu'.at \in {"failed", "check", "read_admas", "dreq"}
        /\ spu'.at \in {"read_admas", "dreq"} =>
                      spu'.data = <<0, 0>> /\ fifo = <<>> /\ Sound!Active
    <3>1. CASE spu' \in {[spu EXCEPT !.at = "failed"], [spu EXCEPT !.at = "check"]}
      BY <1>3, <3>1 DEF Sound!SpuStates
    <3>2. ASSUME NEW next \in {"read_admas", "dreq"}, spu' = [Sound!Nothing EXCEPT !.at = next],
                 fifo = <<>>, Sound!Active
          PROVE  /\ spu' \in Sound!SpuStates /\ spu'.at \in {"failed", "check", "read_admas", "dreq"}
                 /\ spu'.at \in {"read_admas", "dreq"} =>
                      spu'.data = <<0, 0>> /\ fifo = <<>> /\ Sound!Active
      BY <1>4, <3>2 DEF Sound!SpuStates, Sound!Nothing
    <3>3. fifo # <<>> => fifo' # Tail(fifo)
      <4>1. fifo \in Seq(Sound!Halfwords)
        BY <1>3 DEF Sound!TypeOK
      <4>2. fifo # <<>> => Len(Tail(fifo)) = Len(fifo) - 1 /\ Len(fifo) \in Nat
        BY <4>1, HeadTailProperties, LenProperties
      <4> QED
        BY <1>6, <4>2
    <3> QED
      BY <1>2, <3>1, <3>2, <3>3
  <2>2. Sound!TypeOK'
    BY <1>1, <1>3, <1>5, <1>6, <2>1 DEF Sound!TypeOK
  <2>3. ~Sound!Carrying' /\ Sound!Held' = 0 /\ ~Sound!At("write_offset")' /\ ~Sound!Storing'
    BY <2>1 DEF Sound!Carrying, Sound!HasData, Sound!Held, Sound!At, Sound!Storing
  <2>4. Sound!ChannelKnown' /\ Sound!Taken' = Sound!Taken /\ Sound!Transferring' = Sound!Transferring
        /\ \A place : Sound!Prog(place)' = Sound!Prog(place)
    BY <1>1, <1>6, <2>3, SoundMoves
  <2>5. ASSUME ~early
        PROVE  Sound!Orderly'
    <3>1. Sound!OffsetKnown /\ Sound!DreqTrue /\ Sound!InPlace /\ Sound!WatchKnown
      BY <2>5 DEF Sound!SoundInv, Sound!Orderly
    <3>2. Sound!OffsetKnown'
      BY <1>1, <1>3, <2>3, <2>4, <3>1 DEF Sound!OffsetKnown
    <3>3. ASSUME Sound!LookedInVain', spu_prog.at \notin {"choose", "attr"}, ~between'
          PROVE  dma_offset # 2 * spu_prog.words - 1
      <4>1. fifo = <<>> /\ Sound!Active /\ Len(fifo) = 0
        BY <2>1, <3>3, EmptySeq DEF Sound!LookedInVain, Sound!HasData
      <4>2. dma.left # 1 /\ Sound!Taken = dma_offset
        <5>1. dma.left # 1
          BY <1>1, <3>3, <4>1
        <5>2. Sound!Taken = dma_offset + 0 /\ dma_offset \in Nat
          BY <1>3, <3>1, <3>3 DEF Sound!OffsetKnown
        <5> QED
          BY <5>1, <5>2
      <4>3. CASE Sound!Prog("interrupt")
        <5>1. dma.left + dma.sent = 2 * spu_prog.words /\ Sound!Taken = dma.sent - 0
          BY <4>1, <4>3 DEF Sound!SoundInv, Sound!ChannelKnown, Sound!Taken
        <5> QED
          BY <1>3, <4>2, <5>1
      <4>4. CASE ~Sound!Prog("interrupt")
        <5>1. Sound!Taken \in {0, 2 * spu_prog.words}
          BY <4>4 DEF Sound!Taken
        <5> QED
          BY <1>3, <4>2, <5>1
      <4> QED
        BY <4>3, <4>4
    <3>4. Sound!DreqTrue'
      BY <1>1, <2>3, <2>4, <3>1, <3>3 DEF Sound!DreqTrue
    <3>5. Sound!InPlace' /\ Sound!WatchKnown'
      BY <1>1, <1>3, <2>1, <3>1, SoundGoesOn
    <3> QED
      BY <3>2, <3>4, <3>5 DEF Sound!Orderly
  <2> QED
    BY <1>1, <2>2, <2>4, <2>5 DEF Sound!SoundInv
<1>7. CASE fifo' # fifo
  <2>1. PICK next \in {"read_admas", "dreq"} :
          fifo # <<>> /\ spu' = [Sound!Nothing EXCEPT !.at = next, !.data = Head(fifo)]
          /\ fifo' = Tail(fifo)
    BY <1>2, <1>7
  <2>2. Sound!Prog("interrupt") /\ sounds # 0 /\ spu_prog.at = "interrupt" /\ (between' <=> between)
    BY <1>1, <1>3, <1>5, <2>1 DEF Sound!SoundInv, Sound!ChannelKnown, Sound!Prog, Sound!TypeOK
  <2>3. /\ fifo \in Seq(Sound!Halfwords) /\ Len(fifo) \in Nat \ {0} /\ fifo' \in Seq(Sound!Halfwords)
        /\ Len(fifo') = Len(fifo) - 1 /\ Head(fifo) = fifo[1]
        /\ \A i \in 1..Len(fifo') : fifo'[i] = fifo[i + 1]
    <3>1. fifo \in Seq(Sound!Halfwords)
      BY <1>3 DEF Sound!TypeOK
    <3> QED
      BY <2>1, <3>1
  <2>4. /\ Sound!Taken = dma.sent - Len(fifo) /\ Sound!Taken' = Sound!Taken + 1 /\ Sound!Taken \in Nat
        /\ fifo[1] = <<sounds, Sound!Taken>>
    <3>1. Sound!Taken = dma.sent - Len(fifo) /\ Sound!Taken \in Nat
      BY <1>3, <2>2, <2>3 DEF Sound!SoundInv, Sound!ChannelKnown, Sound!Taken, Sound!Prog
    <3>2. Sound!Taken' = dma.sent - Len(fifo')
      BY <1>1, <2>2 DEF Sound!Taken, Sound!Prog
    <3>3. fifo[1] = <<sounds, Sound!Taken + 1 - 1>>
      BY <2>3 DEF Sound!SoundInv, Sound!ChannelKnown
    <3> QED
      BY <1>3, <2>3, <3>1, <3>2, <3>3
  <2>5. <<sounds, Sound!Taken>> \in Sound!Halfwords /\ <<sounds, Sound!Taken>> # <<0, 0>>
    BY <1>3, <2>2, <2>4, SoundData
  <2>6. spu' \in Sound!SpuStates /\ spu'.at = next /\ spu'.data = <<sounds, Sound!Taken>>
    BY <1>4, <2>1, <2>3, <2>4, <2>5 DEF Sound!SpuStates, Sound!Nothing
  <2>7. Len(fifo') <= 2 * QueueCap /\ Len(fifo') < Len(fifo)
    BY <1>3, <2>3 DEF Sound!TypeOK, Sound!Spu2Assumption
  <2>8. Sound!TypeOK'
    BY <1>1, <1>3, <1>5, <2>3, <2>6, <2>7 DEF Sound!TypeOK
  <2>9. Sound!Carrying' /\ Sound!Held' = 1 /\ ~Sound!At("write_offset")' /\ ~Sound!Storing'
        /\ ~Sound!LookedInVain'
    BY <2>5, <2>6 DEF Sound!Carrying, Sound!HasData, Sound!Held, Sound!At, Sound!Storing, Sound!LookedInVain
  <2>10. Sound!ChannelKnown'
    <3>1. \A i \in 1..Len(fifo') : fifo'[i] = <<sounds, Sound!Taken' + i - 1>>
      <4> SUFFICES ASSUME NEW i \in 1..Len(fifo')
                   PROVE  fifo'[i] = <<sounds, Sound!Taken' + i - 1>>
        OBVIOUS
      <4>1. i + 1 \in 1..Len(fifo) /\ fifo'[i] = fifo[i + 1]
        BY <2>3
      <4>2. fifo[i + 1] = <<sounds, Sound!Taken + (i + 1) - 1>>
        BY <4>1 DEF Sound!SoundInv, Sound!ChannelKnown
      <4> QED
        BY <2>4, <4>1, <4>2
    <3>2. /\ dma.left + dma.sent = 2 * spu_prog.words /\ Len(fifo') <= dma.sent
          /\ dma.sent % 2 # 0 => Len(fifo') < 2 * QueueCap
      BY <1>3, <2>2, <2>3 DEF Sound!SoundInv, Sound!ChannelKnown, Sound!Spu2Assumption
    <3> QED
      BY <1>1, <2>2, <2>9, <3>1, <3>2 DEF Sound!ChannelKnown, Sound!Prog
  <2>11. ASSUME ~early
         PROVE  Sound!Orderly'
    <3>1. Sound!OffsetKnown /\ Sound!DreqTrue /\ Sound!InPlace /\ Sound!WatchKnown
      BY <2>11 DEF Sound!SoundInv, Sound!Orderly
    <3>2. Sound!Taken = dma_offset
      BY <1>3, <2>2, <3>1 DEF Sound!OffsetKnown, Sound!Prog
    <3>3. Sound!OffsetKnown'
      BY <1>1, <1>3, <2>2, <2>4, <2>6, <2>9, <3>2 DEF Sound!OffsetKnown, Sound!Prog, Sound!Transferring
    <3>4. Sound!DreqTrue'
      BY <1>1, <2>2, <2>9, <3>1 DEF Sound!DreqTrue, Sound!Prog
    <3>5. Sound!InPlace' /\ Sound!WatchKnown'
      BY <1>1, <1>3, <2>6, <3>1, SoundGoesOn
    <3> QED
      BY <3>3, <3>4, <3>5 DEF Sound!Orderly
  <2> QED
    BY <1>1, <2>8, <2>10, <2>11 DEF Sound!SoundInv
<1> QED
  BY <1>6, <1>7

LEMMA SoundReadAdmasInv ==
  ASSUME Sound!Spu2Assumption, Sound!SoundInv, Sound!ReadAdmas
  PROVE  Sound!SoundInv'
<1>1. /\ Sound!At("read_admas") /\ spu' = [spu EXCEPT !.at = "write_admas", !.admas = admas]
      /\ UNCHANGED <<attr, dma_offset, admas, dreq, tsa, irqa, irqinfo, memory, fifo, dma>>
      /\ UNCHANGED <<spu_stat, spu_prog, sounds, spu_raised, between, early>>
  BY DEF Sound!ReadAdmas, Sound!registers, Sound!channel, Sound!history
<1>2. Sound!TypeOK /\ spu.at = "read_admas" /\ spu'.at = "write_admas" /\ spu'.data = spu.data
  BY <1>1 DEF Sound!SoundInv, Sound!TypeOK, Sound!SpuStates, Sound!At
<1>3. Sound!TypeOK'
  BY <1>1, <1>2 DEF Sound!TypeOK, Sound!SpuStates
<1>4. UNCHANGED <<Sound!Carrying, Sound!Held, Sound!HasData, Sound!LookedInVain>>
      /\ ~Sound!At("write_offset")' /\ ~Sound!Storing'
  BY <1>2 DEF Sound!Carrying, Sound!Held, Sound!HasData, Sound!At, Sound!LookedInVain, Sound!Storing
<1>5. Sound!ChannelKnown' /\ Sound!Taken' = Sound!Taken /\ Sound!Transferring' = Sound!Transferring
      /\ \A place : Sound!Prog(place)' = Sound!Prog(place)
  BY <1>1, <1>4, SoundMoves
<1>6. ASSUME ~early
      PROVE  Sound!Orderly'
  <2>1. Sound!OffsetKnown /\ Sound!DreqTrue /\ Sound!InPlace /\ Sound!WatchKnown
    BY <1>6 DEF Sound!SoundInv, Sound!Orderly
  <2>2. Sound!OffsetKnown' /\ Sound!DreqTrue'
    BY <1>1, <1>2, <1>4, <1>5, <2>1 DEF Sound!OffsetKnown, Sound!DreqTrue
  <2>3. Sound!InPlace' /\ Sound!WatchKnown'
    BY <1>1, <1>2, <2>1, SoundGoesOn
  <2> QED
    BY <2>2, <2>3 DEF Sound!Orderly
<1> QED
  BY <1>1, <1>3, <1>5, <1>6 DEF Sound!SoundInv

LEMMA SoundWriteAdmasInv ==
  ASSUME Sound!Spu2Assumption, Sound!SoundInv, Sound!WriteAdmas
  PROVE  Sound!SoundInv'
<1>1. /\ Sound!At("write_admas") /\ spu' = [spu EXCEPT !.at = "dreq"]
      /\ admas' = [spu.admas EXCEPT !.running = Sound!HasData]
      /\ UNCHANGED <<attr, dma_offset, dreq, tsa, irqa, irqinfo, memory, fifo, dma>>
      /\ UNCHANGED <<spu_stat, spu_prog, sounds, spu_raised, between, early>>
  BY DEF Sound!WriteAdmas, Sound!Goto, Sound!channel, Sound!history
<1>2. Sound!TypeOK /\ spu.at = "write_admas" /\ spu'.at = "dreq" /\ spu'.data = spu.data
  BY <1>1 DEF Sound!SoundInv, Sound!TypeOK, Sound!SpuStates, Sound!At
<1>3. Sound!TypeOK'
  <2>1. Sound!HasData \in BOOLEAN
    BY DEF Sound!HasData
  <2>2. admas' \in Sound!Admas /\ spu' \in Sound!SpuStates
    BY <1>1, <1>2, <2>1 DEF Sound!TypeOK, Sound!SpuStates, Sound!Admas
  <2> QED
    BY <1>1, <1>2, <2>2 DEF Sound!TypeOK
<1>4. UNCHANGED <<Sound!Carrying, Sound!Held, Sound!HasData, Sound!LookedInVain>>
      /\ ~Sound!At("write_offset")' /\ ~Sound!Storing'
  BY <1>2 DEF Sound!Carrying, Sound!Held, Sound!HasData, Sound!At, Sound!LookedInVain, Sound!Storing
<1>5. Sound!ChannelKnown' /\ Sound!Taken' = Sound!Taken /\ Sound!Transferring' = Sound!Transferring
      /\ \A place : Sound!Prog(place)' = Sound!Prog(place)
  BY <1>1, <1>4, SoundMoves
<1>6. ASSUME ~early
      PROVE  Sound!Orderly'
  <2>1. Sound!OffsetKnown /\ Sound!DreqTrue /\ Sound!InPlace /\ Sound!WatchKnown
    BY <1>6 DEF Sound!SoundInv, Sound!Orderly
  <2>2. Sound!OffsetKnown' /\ Sound!DreqTrue'
    BY <1>1, <1>2, <1>4, <1>5, <2>1 DEF Sound!OffsetKnown, Sound!DreqTrue
  <2>3. Sound!InPlace' /\ Sound!WatchKnown'
    BY <1>1, <1>2, <2>1, SoundGoesOn
  <2> QED
    BY <2>2, <2>3 DEF Sound!Orderly
<1> QED
  BY <1>1, <1>3, <1>5, <1>6 DEF Sound!SoundInv

(* STATX asks for data when the SPU2 has looked for it in vain.            *)
LEMMA SoundSetDreqInv ==
  ASSUME Sound!Spu2Assumption, Sound!SoundInv, Sound!SetDreq
  PROVE  Sound!SoundInv'
<1>1. /\ Sound!At("dreq") /\ dreq' = ~Sound!HasData
      /\ spu' = [spu EXCEPT !.at = IF Sound!HasData THEN "store" ELSE "check"]
      /\ UNCHANGED <<attr, dma_offset, admas, tsa, irqa, irqinfo, memory, fifo, dma>>
      /\ UNCHANGED <<spu_stat, spu_prog, sounds, spu_raised, between, early>>
  BY DEF Sound!SetDreq, Sound!Goto, Sound!channel, Sound!history
<1>2. Sound!TypeOK /\ spu.at = "dreq" /\ spu'.data = spu.data
      /\ spu'.at = IF Sound!HasData THEN "store" ELSE "check"
  BY <1>1 DEF Sound!SoundInv, Sound!TypeOK, Sound!SpuStates, Sound!At
<1>3. Sound!TypeOK'
  <2>1. Sound!HasData \in BOOLEAN
    BY DEF Sound!HasData
  <2>2. dreq' \in BOOLEAN /\ spu' \in Sound!SpuStates
    BY <1>1, <1>2, <2>1 DEF Sound!TypeOK, Sound!SpuStates
  <2> QED
    BY <1>1, <1>2, <2>2 DEF Sound!TypeOK
<1>4. /\ Sound!Carrying <=> Sound!HasData
      /\ UNCHANGED <<Sound!Carrying, Sound!Held, Sound!HasData>>
      /\ ~Sound!At("write_offset")' /\ ~Sound!LookedInVain'
      /\ Sound!LookedInVain <=> ~Sound!HasData
      /\ Sound!Storing' <=> Sound!HasData
  BY <1>2 DEF Sound!Carrying, Sound!Held, Sound!HasData, Sound!At, Sound!LookedInVain, Sound!Storing
<1>5. Sound!ChannelKnown' /\ Sound!Taken' = Sound!Taken /\ Sound!Transferring' = Sound!Transferring
      /\ \A place : Sound!Prog(place)' = Sound!Prog(place)
  BY <1>1, <1>4, SoundMoves
<1>6. ASSUME ~early
      PROVE  Sound!Orderly'
  <2>1. Sound!OffsetKnown /\ Sound!DreqTrue /\ Sound!InPlace /\ Sound!WatchKnown
    BY <1>6 DEF Sound!SoundInv, Sound!Orderly
  <2>2. Sound!OffsetKnown'
    BY <1>1, <1>2, <1>4, <1>5, <2>1 DEF Sound!OffsetKnown
  <2>3. Sound!DreqTrue'
    <3>1. CASE Sound!HasData
      <4>1. Sound!Prog("done") => between
        BY <1>4, <2>1, <3>1 DEF Sound!OffsetKnown
      <4> QED
        BY <1>1, <1>4, <1>5, <3>1, <4>1 DEF Sound!DreqTrue
    <3>2. CASE ~Sound!HasData
      BY <1>1, <1>4, <1>5, <2>1, <3>2 DEF Sound!DreqTrue
    <3> QED
      BY <3>1, <3>2
  <2>4. Sound!InPlace' /\ Sound!WatchKnown'
    BY <1>1, <1>2, <2>1, SoundGoesOn
  <2> QED
    BY <2>2, <2>3, <2>4 DEF Sound!Orderly
<1> QED
  BY <1>1, <1>3, <1>5, <1>6 DEF Sound!SoundInv

(* The halfword lands in its place, and the others of the transfer stay.   *)
LEMMA SoundStoreInv ==
  ASSUME Sound!Spu2Assumption, Sound!SoundInv, Sound!Store
  PROVE  Sound!SoundInv'
<1> DEFINE address == Sound!Address(dma_offset)
<1>1. /\ Sound!At("store") /\ spu' = [spu EXCEPT !.at = "read_offset"]
      /\ irqinfo' = (irqinfo \/ irqa = address)
      /\ memory' = [a \in DOMAIN memory \cup {address} |-> IF a = address THEN spu.data ELSE memory[a]]
      /\ UNCHANGED <<attr, dma_offset, admas, dreq, tsa, irqa, fifo, dma>>
      /\ UNCHANGED <<spu_stat, spu_prog, sounds, spu_raised, between, early>>
  BY DEF Sound!Store, Sound!Goto, Sound!channel, Sound!history
<1>2. /\ Sound!TypeOK /\ spu.at = "store" /\ spu'.at = "read_offset" /\ spu'.data = spu.data
      /\ dma_offset \in Nat
  BY <1>1 DEF Sound!SoundInv, Sound!TypeOK, Sound!SpuStates, Sound!At
<1>3. /\ Sound!Carrying /\ Sound!Carrying' /\ Sound!Held = 1 /\ Sound!Held' = 1
      /\ ~Sound!At("write_offset")' /\ Sound!Storing /\ ~Sound!LookedInVain'
  BY <1>2 DEF Sound!Carrying, Sound!Held, Sound!At, Sound!Storing, Sound!LookedInVain
<1>4. spu.data \in Sound!Halfwords /\ Sound!HasData'
  BY <1>2, <1>3 DEF Sound!SoundInv, Sound!ChannelKnown, Sound!HasData, Sound!TypeOK, Sound!SpuStates
<1>5. /\ spu_prog.words \in Nat /\ dma.left \in Nat /\ dma.sent \in Nat /\ Len(fifo) \in Nat
  BY <1>2, SoundWords
<1>6. address \in Nat
  <2>1. CASE Sound!Automatic(attr)
    <3>1. Block \in Nat \ {0} /\ Sound!BaseLeft \in Nat /\ Sound!BaseRight \in Nat
      <4>1. \A b \in Nat, n \in {32, 36, 34, 38} : n * b \in Nat
        OBVIOUS
      <4> QED
        BY <4>1 DEF Sound!Spu2Assumption, Sound!BaseLeft, Sound!BaseRight
    <3>2. \A b \in Nat \ {0}, n \in Int : n % (4 * b) \in Nat
      OBVIOUS
    <3>3. /\ dma_offset - ((dma_offset \div Block) \div 2) * Block \in Int
          /\ dma_offset - ((dma_offset \div Block) \div 2 + 1) * Block \in Int
      <4>1. (dma_offset \div Block) \div 2 \in Int
        BY <1>2, <3>1
      <4>2. \A n, k, b \in Int : n - k * b \in Int /\ n - (k + 1) * b \in Int
        OBVIOUS
      <4> QED
        BY <1>2, <3>1, <4>1, <4>2
    <3>4. \A m, n \in Nat : m + n \in Nat
      OBVIOUS
    <3> QED
      BY <2>1, <3>1, <3>2, <3>3, <3>4 DEF Sound!Address, Sound!AutoAddress
  <2>2. CASE ~Sound!Automatic(attr)
    <3>1. \A m, n \in Nat \ {0} : m * n \in Nat \ {0}
      OBVIOUS
    <3>2. Sound!MemorySize \in Nat \ {0}
      BY <3>1 DEF Sound!Spu2Assumption, Sound!MemorySize
    <3>3. tsa \in Nat
      BY <1>2, <3>2 DEF Sound!TypeOK, Sound!Spu2Assumption
    <3> QED
      BY <1>2, <2>2, <3>2, <3>3 DEF Sound!Address
  <2> QED
    BY <2>1, <2>2
<1> HIDE DEF address
<1>7. /\ DOMAIN memory' = DOMAIN memory \cup {address} /\ memory'[address] = spu.data
      /\ \A a \in DOMAIN memory \ {address} : memory'[a] = memory[a]
  BY <1>1
<1>8. Sound!TypeOK'
  <2>1. /\ DOMAIN memory' \subseteq Nat
        /\ \A a \in DOMAIN memory' : memory'[a] \in Sound!Halfwords
    BY <1>2, <1>4, <1>6, <1>7 DEF Sound!TypeOK
  <2>2. irqinfo' \in BOOLEAN /\ spu' \in Sound!SpuStates
    BY <1>1, <1>2 DEF Sound!TypeOK, Sound!SpuStates
  <2> QED
    BY <1>1, <1>2, <2>1, <2>2 DEF Sound!TypeOK
<1>9. Sound!ChannelKnown' /\ Sound!Taken' = Sound!Taken /\ Sound!Transferring' = Sound!Transferring
      /\ \A place : Sound!Prog(place)' = Sound!Prog(place)
  BY <1>1, <1>4, SoundMoves
<1>10. ASSUME ~early
       PROVE  Sound!Orderly'
  <2>1. Sound!OffsetKnown /\ Sound!DreqTrue /\ Sound!InPlace /\ Sound!WatchKnown
    BY <1>10 DEF Sound!SoundInv, Sound!Orderly
  <2>2. spu.data = <<sounds, dma_offset>> /\ (Sound!Transferring \/ Sound!Prog("choose")) /\ ~dreq
    BY <1>3, <2>1 DEF Sound!OffsetKnown, Sound!DreqTrue
  <2>3. Sound!OffsetKnown'
    BY <1>1, <1>2, <1>3, <1>9, <2>1 DEF Sound!OffsetKnown
  <2>4. Sound!DreqTrue'
    BY <1>1, <1>2, <1>3, <1>9, <2>1, <2>2 DEF Sound!DreqTrue
  <2>5. Sound!Stored = dma_offset /\ Sound!Stored' = dma_offset + 1
    BY <1>1, <1>2 DEF Sound!Stored
  <2>6. /\ Sound!Fits' = Sound!Fits /\ \A i : Sound!Place(i)' = Sound!Place(i)
        /\ Sound!Place(Sound!Stored - 1)' = Sound!Place(dma_offset)
    <3>1. Sound!Stored' - 1 = dma_offset
      BY <1>2, <2>5
    <3> QED
      BY <1>1, <3>1 DEF Sound!Fits, Sound!Place, Sound!Automatic
  <2>7. Sound!Transferring => dma_offset < 2 * spu_prog.words
    <3>1. CASE Sound!Prog("interrupt")
      <4>1. dma.left + dma.sent = 2 * spu_prog.words /\ Sound!Taken = dma.sent - Len(fifo)
            /\ Sound!Taken = dma_offset + 1
        BY <1>3, <2>1, <3>1 DEF Sound!SoundInv, Sound!ChannelKnown, Sound!Taken, Sound!OffsetKnown,
                                Sound!Prog
      <4> QED
        BY <1>2, <1>5, <4>1
    <3>2. CASE Sound!Transferring /\ ~Sound!Prog("interrupt")
      <4>1. Sound!Taken = 2 * spu_prog.words /\ Sound!Taken = dma_offset + 1
        BY <1>3, <2>1, <3>2 DEF Sound!Taken, Sound!OffsetKnown, Sound!Transferring
      <4> QED
        BY <1>2, <1>5, <4>1
    <3> QED
      BY <3>1, <3>2
  <2>8. Sound!Transferring /\ Sound!Fits =>
          /\ Sound!Address(dma_offset) = Sound!Place(dma_offset)
          /\ \A i \in 0..dma_offset - 1 : Sound!Place(i) # Sound!Place(dma_offset)
    <3> SUFFICES ASSUME Sound!Transferring, Sound!Fits
                 PROVE  /\ Sound!Address(dma_offset) = Sound!Place(dma_offset)
                        /\ \A i \in 0..dma_offset - 1 : Sound!Place(i) # Sound!Place(dma_offset)
      OBVIOUS
    <3>1. 2 * spu_prog.words \in Nat
          /\ 2 * spu_prog.words <= IF Sound!Automatic(attr) THEN 4 * Block ELSE Sound!MemorySize
      BY <1>5 DEF Sound!Fits
    <3>2. /\ \A i \in 0..2 * spu_prog.words - 1 :
                Sound!Address(i) = Sound!Place(i) /\ Sound!Place(i) \in Nat
          /\ \A i, j \in 0..2 * spu_prog.words - 1 : Sound!Place(i) = Sound!Place(j) => i = j
      BY <1>2, <3>1, SoundPlaces
    <3>3. dma_offset \in 0..2 * spu_prog.words - 1
      BY <1>2, <1>5, <2>7
    <3>4. \A i \in 0..dma_offset - 1 : i \in 0..2 * spu_prog.words - 1 /\ i # dma_offset
      BY <1>2, <1>5, <2>7
    <3> QED
      BY <3>2, <3>3, <3>4
  <2>9. Sound!InPlace'
    <3> SUFFICES ASSUME Sound!Transferring, Sound!Fits, NEW i \in 0..Sound!Stored' - 1
                 PROVE  Sound!Place(i) \in DOMAIN memory' /\ memory'[Sound!Place(i)] = <<sounds, i>>
      BY <1>1, <1>9, <2>6 DEF Sound!InPlace
    <3>1. CASE i = dma_offset
      BY <1>7, <2>2, <2>8, <3>1 DEF address
    <3>2. CASE i # dma_offset
      <4>1. i \in 0..Sound!Stored - 1 /\ i \in 0..dma_offset - 1
        BY <1>2, <2>5, <3>2
      <4>2. Sound!Place(i) \in DOMAIN memory /\ memory[Sound!Place(i)] = <<sounds, i>>
        BY <2>1, <4>1 DEF Sound!InPlace
      <4>3. Sound!Place(i) # address
        BY <2>8, <4>1 DEF address
      <4> QED
        BY <1>7, <4>2, <4>3
    <3> QED
      BY <3>1, <3>2
  <2>10. Sound!WatchKnown'
    <3>1. Sound!Transferring /\ Sound!Fits /\ Sound!Touched' => irqinfo' \/ spu_raised'
      <4> SUFFICES ASSUME Sound!Transferring, Sound!Fits, NEW i \in 0..Sound!Stored' - 1,
                          irqa = Sound!Place(i)
                   PROVE  irqinfo' \/ spu_raised'
        BY <1>1, <2>6 DEF Sound!Touched
      <4>1. CASE i = dma_offset
        BY <1>1, <2>8, <4>1 DEF address
      <4>2. CASE i # dma_offset
        <5>1. i \in 0..Sound!Stored - 1
          BY <1>2, <2>5, <4>2
        <5>2. Sound!Touched
          BY <5>1 DEF Sound!Touched
        <5> QED
          BY <1>1, <2>1, <5>2 DEF Sound!WatchKnown
      <4> QED
        BY <4>1, <4>2
    <3>2. ASSUME Sound!Transferring, attr.IRQENABLE, irqinfo', ~spu_raised, Sound!Fits
          PROVE  irqa = Sound!Place(dma_offset)
      <4>1. ~irqinfo
        BY <1>2, <2>1, <3>2 DEF Sound!WatchKnown
      <4> QED
        BY <1>1, <2>8, <3>2, <4>1 DEF address
    <3>3. spu_stat => spu_raised
      BY <2>1 DEF Sound!WatchKnown
    <3> QED
      BY <1>1, <1>2, <1>9, <2>2, <2>6, <3>1, <3>2, <3>3 DEF Sound!WatchKnown
  <2> QED
    BY <2>3, <2>4, <2>9, <2>10 DEF Sound!Orderly
<1> QED
  BY <1>1, <1>8, <1>9, <1>10 DEF Sound!SoundInv

LEMMA SoundReadOffsetInv ==
  ASSUME Sound!Spu2Assumption, Sound!SoundInv, Sound!ReadOffset
  PROVE  Sound!SoundInv'
<1>1. /\ Sound!At("read_offset") /\ spu' = [spu EXCEPT !.at = "write_offset", !.offset = dma_offset]
      /\ UNCHANGED <<attr, dma_offset, admas, dreq, tsa, irqa, irqinfo, memory, fifo, dma>>
      /\ UNCHANGED <<spu_stat, spu_prog, sounds, spu_raised, between, early>>
  BY DEF Sound!ReadOffset, Sound!registers, Sound!channel, Sound!history
<1>2. /\ Sound!TypeOK /\ spu.at = "read_offset" /\ spu'.at = "write_offset" /\ spu'.data = spu.data
      /\ spu'.offset = dma_offset
  BY <1>1 DEF Sound!SoundInv, Sound!TypeOK, Sound!SpuStates, Sound!At
<1>3. Sound!TypeOK'
  BY <1>1, <1>2 DEF Sound!TypeOK, Sound!SpuStates
<1>4. /\ Sound!Carrying /\ Sound!Carrying' /\ Sound!Held' = Sound!Held /\ Sound!Storing /\ Sound!Storing'
      /\ Sound!HasData' = Sound!HasData /\ ~Sound!LookedInVain'
  BY <1>2 DEF Sound!Carrying, Sound!Held, Sound!Storing, Sound!HasData, Sound!LookedInVain
<1>5. Sound!HasData'
  BY <1>4 DEF Sound!SoundInv, Sound!ChannelKnown
<1>6. Sound!ChannelKnown' /\ Sound!Taken' = Sound!Taken /\ Sound!Transferring' = Sound!Transferring
      /\ \A place : Sound!Prog(place)' = Sound!Prog(place)
  BY <1>1, <1>5, SoundMoves
<1>7. ASSUME ~early
      PROVE  Sound!Orderly'
  <2>1. Sound!OffsetKnown /\ Sound!DreqTrue /\ Sound!InPlace /\ Sound!WatchKnown
    BY <1>7 DEF Sound!SoundInv, Sound!Orderly
  <2>2. Sound!OffsetKnown' /\ Sound!DreqTrue'
    BY <1>1, <1>2, <1>4, <1>6, <2>1 DEF Sound!OffsetKnown, Sound!DreqTrue
  <2>3. Sound!Stored' = Sound!Stored
    BY <1>1, <1>2 DEF Sound!Stored
  <2>4. irqinfo => Sound!Transferring' \/ Sound!Prog("choose")'
    BY <1>6, <2>1 DEF Sound!WatchKnown
  <2>5. Sound!InPlace' /\ Sound!WatchKnown'
    BY <1>1, <1>2, <1>6, <2>1, <2>3, <2>4, SoundWatched
  <2> QED
    BY <2>2, <2>5 DEF Sound!Orderly
<1> QED
  BY <1>1, <1>3, <1>6, <1>7 DEF Sound!SoundInv

LEMMA SoundWriteOffsetInv ==
  ASSUME Sound!Spu2Assumption, Sound!SoundInv, Sound!WriteOffset
  PROVE  Sound!SoundInv'
<1>1. /\ Sound!At("write_offset") /\ spu' = [spu EXCEPT !.at = "check"] /\ dma_offset' = spu.offset + 1
      /\ UNCHANGED <<attr, admas, dreq, tsa, irqa, irqinfo, memory, fifo, dma>>
      /\ UNCHANGED <<spu_stat, spu_prog, sounds, spu_raised, between, early>>
  BY DEF Sound!WriteOffset, Sound!Goto, Sound!channel, Sound!history
<1>2. Sound!TypeOK /\ spu.at = "write_offset" /\ spu'.at = "check" /\ dma_offset \in Nat
  BY <1>1 DEF Sound!SoundInv, Sound!TypeOK, Sound!SpuStates, Sound!At
<1>3. Sound!TypeOK'
  BY <1>1, <1>2 DEF Sound!TypeOK, Sound!SpuStates
<1>4. /\ Sound!Carrying /\ ~Sound!Carrying' /\ Sound!Held = 1 /\ Sound!Held' = 0
      /\ ~Sound!At("write_offset")' /\ Sound!Storing /\ ~Sound!Storing' /\ ~Sound!LookedInVain'
  BY <1>2 DEF Sound!Carrying, Sound!Held, Sound!At, Sound!Storing, Sound!LookedInVain
<1>5. Sound!ChannelKnown' /\ Sound!Taken' = Sound!Taken /\ Sound!Transferring' = Sound!Transferring
      /\ \A place : Sound!Prog(place)' = Sound!Prog(place)
  BY <1>1, <1>4, SoundMoves
<1>6. ASSUME ~early
      PROVE  Sound!Orderly'
  <2>1. Sound!OffsetKnown /\ Sound!DreqTrue /\ Sound!InPlace /\ Sound!WatchKnown
    BY <1>6 DEF Sound!SoundInv, Sound!Orderly
  <2>2. dma_offset' = dma_offset + 1 /\ ~dreq
    BY <1>1, <1>4, <2>1 DEF Sound!OffsetKnown, Sound!DreqTrue
  <2>3. Sound!OffsetKnown'
    <3>1. spu_prog.at \notin {"choose", "attr"} => Sound!Taken = dma_offset + 1
      BY <1>4, <2>1 DEF Sound!OffsetKnown
    <3> QED
      BY <1>1, <1>2, <1>4, <1>5, <2>2, <3>1 DEF Sound!OffsetKnown
  <2>4. Sound!DreqTrue'
    <3>1. Sound!Prog("done") => between
      BY <1>4, <2>1 DEF Sound!OffsetKnown
    <3> QED
      BY <1>1, <1>4, <1>5, <2>2, <3>1 DEF Sound!DreqTrue
  <2>5. Sound!Stored' = Sound!Stored
    BY <1>1, <1>2, <2>2 DEF Sound!Stored
  <2>6. irqinfo => Sound!Transferring' \/ Sound!Prog("choose")'
    BY <1>5, <2>1 DEF Sound!WatchKnown
  <2>7. Sound!InPlace' /\ Sound!WatchKnown'
    BY <1>1, <1>2, <1>5, <2>1, <2>5, <2>6, SoundWatched
  <2> QED
    BY <2>3, <2>4, <2>7 DEF Sound!Orderly
<1> QED
  BY <1>1, <1>3, <1>5, <1>6 DEF Sound!SoundInv

LEMMA SoundCheckInv ==
  ASSUME Sound!Spu2Assumption, Sound!SoundInv, Sound!CheckIrq
  PROVE  Sound!SoundInv'
<1>1. /\ Sound!At("check")
      /\ spu' = [spu EXCEPT !.at = IF attr.IRQENABLE /\ irqinfo THEN "raise" ELSE "look"]
      /\ UNCHANGED <<attr, dma_offset, admas, dreq, tsa, irqa, irqinfo, memory, fifo, dma>>
      /\ UNCHANGED <<spu_stat, spu_prog, sounds, spu_raised, between, early>>
  BY DEF Sound!CheckIrq, Sound!Goto, Sound!registers, Sound!channel, Sound!history
<1>2. /\ Sound!TypeOK /\ spu.at = "check"
      /\ spu'.at = IF attr.IRQENABLE /\ irqinfo THEN "raise" ELSE "look"
  BY <1>1 DEF Sound!SoundInv, Sound!TypeOK, Sound!SpuStates, Sound!At
<1>3. Sound!TypeOK'
  BY <1>1, <1>2 DEF Sound!TypeOK, Sound!SpuStates
<1>4. /\ ~Sound!Carrying /\ ~Sound!Carrying' /\ Sound!Held' = Sound!Held /\ ~Sound!At("write_offset")'
      /\ ~Sound!Storing /\ ~Sound!Storing' /\ ~Sound!LookedInVain'
  BY <1>2 DEF Sound!Carrying, Sound!Held, Sound!At, Sound!Storing, Sound!LookedInVain
<1>5. Sound!ChannelKnown' /\ Sound!Taken' = Sound!Taken /\ Sound!Transferring' = Sound!Transferring
      /\ \A place : Sound!Prog(place)' = Sound!Prog(place)
  BY <1>1, <1>4, SoundMoves
<1>6. ASSUME ~early
      PROVE  Sound!Orderly'
  <2>1. Sound!OffsetKnown /\ Sound!DreqTrue /\ Sound!InPlace /\ Sound!WatchKnown
    BY <1>6 DEF Sound!SoundInv, Sound!Orderly
  <2>2. Sound!OffsetKnown' /\ Sound!DreqTrue'
    BY <1>1, <1>4, <1>5, <2>1 DEF Sound!OffsetKnown, Sound!DreqTrue
  <2>3. Sound!Stored' = Sound!Stored
    BY <1>1, <1>2 DEF Sound!Stored
  <2>4. irqinfo => Sound!Transferring' \/ Sound!Prog("choose")'
    BY <1>5, <2>1 DEF Sound!WatchKnown
  <2>5. Sound!InPlace' /\ Sound!WatchKnown'
    BY <1>1, <1>2, <1>5, <2>1, <2>3, <2>4, SoundWatched
  <2> QED
    BY <2>2, <2>5 DEF Sound!Orderly
<1> QED
  BY <1>1, <1>3, <1>5, <1>6 DEF Sound!SoundInv

LEMMA SoundRaiseInv ==
  ASSUME Sound!Spu2Assumption, Sound!SoundInv, Sound!RaiseIrq
  PROVE  Sound!SoundInv'
<1>1. /\ Sound!At("raise") /\ spu_stat' = TRUE /\ spu_raised' = TRUE /\ spu' = Sound!Nothing
      /\ UNCHANGED <<attr, dma_offset, admas, dreq, tsa, irqa, irqinfo, memory, fifo, dma>>
      /\ UNCHANGED <<spu_prog, sounds, between, early>>
  BY DEF Sound!RaiseIrq, Sound!registers, Sound!channel
<1>2. Sound!TypeOK /\ spu.at = "raise" /\ spu'.at = "look" /\ spu' \in Sound!SpuStates
  BY <1>1 DEF Sound!SoundInv, Sound!TypeOK, Sound!SpuStates, Sound!At, Sound!Nothing, Sound!Off,
     Sound!Admas
<1>3. Sound!TypeOK'
  BY <1>1, <1>2 DEF Sound!TypeOK
<1>4. /\ ~Sound!Carrying /\ ~Sound!Carrying' /\ Sound!Held' = Sound!Held /\ ~Sound!At("write_offset")'
      /\ ~Sound!Storing /\ ~Sound!Storing' /\ ~Sound!LookedInVain'
  BY <1>2 DEF Sound!Carrying, Sound!Held, Sound!At, Sound!Storing, Sound!LookedInVain
<1>5. Sound!ChannelKnown' /\ Sound!Taken' = Sound!Taken /\ Sound!Transferring' = Sound!Transferring
      /\ \A place : Sound!Prog(place)' = Sound!Prog(place)
  BY <1>1, <1>4, SoundMoves
<1>6. ASSUME ~early
      PROVE  Sound!Orderly'
  <2>1. Sound!OffsetKnown /\ Sound!DreqTrue /\ Sound!InPlace /\ Sound!WatchKnown
    BY <1>6 DEF Sound!SoundInv, Sound!Orderly
  <2>2. Sound!OffsetKnown' /\ Sound!DreqTrue'
    BY <1>1, <1>4, <1>5, <2>1 DEF Sound!OffsetKnown, Sound!DreqTrue
  <2>3. Sound!Stored' = Sound!Stored
    BY <1>1, <1>2 DEF Sound!Stored
  <2>4. Sound!InPlace'
    BY <1>1, <1>5, <2>1, <2>3, SoundKept
  <2>5. Sound!WatchKnown'
    BY <1>1, <1>5, <2>1 DEF Sound!WatchKnown
  <2> QED
    BY <2>2, <2>4, <2>5 DEF Sound!Orderly
<1> QED
  BY <1>1, <1>3, <1>5, <1>6 DEF Sound!SoundInv

(* Every step of the core.                                                 *)
LEMMA SoundStep ==
  ASSUME Sound!Spu2Assumption, Sound!SoundInv, [Sound!Next]_(Sound!vars)
  PROVE  Sound!SoundInv'
<1>1. CASE Sound!Program
  BY <1>1, SoundChooseInv, SoundResetInv, SoundWriteAttrInv, SoundEnableInv, SoundStartInv,
     SoundPollInv, SoundFinishInv DEF Sound!Program
<1>2. CASE Sound!Channel \/ Sound!Acknowledge
  BY <1>2, SoundSendInv, SoundEndInv, SoundAcknowledgeInv DEF Sound!Channel
<1>3. CASE Sound!SpuStep
  BY <1>3, SoundLookInv, SoundReadAdmasInv, SoundWriteAdmasInv, SoundSetDreqInv, SoundStoreInv,
     SoundReadOffsetInv, SoundWriteOffsetInv, SoundCheckInv, SoundRaiseInv DEF Sound!SpuStep
<1>4. CASE UNCHANGED Sound!vars
  <2>1. UNCHANGED <<attr, dma_offset, admas, dreq, tsa, irqa, irqinfo, memory, fifo, dma>>
        /\ UNCHANGED <<spu_stat, spu, spu_prog, sounds, spu_raised, between, early>>
    BY <1>4 DEF Sound!vars, Sound!registers, Sound!channel, Sound!history
  <2>2. UNCHANGED <<Sound!Carrying, Sound!Held, Sound!HasData, Sound!Storing, Sound!LookedInVain>>
        /\ \A place : Sound!At(place)' = Sound!At(place)
    BY <2>1, SoundHands
  <2>3. Sound!ChannelKnown' /\ Sound!Taken' = Sound!Taken /\ Sound!Transferring' = Sound!Transferring
        /\ \A place : Sound!Prog(place)' = Sound!Prog(place)
    <3>1. Sound!Storing' => Sound!HasData'
      BY <2>2 DEF Sound!SoundInv, Sound!ChannelKnown
    <3> QED
      BY <2>1, <3>1, SoundMoves
  <2>4. Sound!TypeOK'
    BY <2>1 DEF Sound!SoundInv, Sound!TypeOK
  <2>5. ASSUME ~early
        PROVE  Sound!Orderly'
    <3>1. Sound!OffsetKnown /\ Sound!DreqTrue /\ Sound!InPlace /\ Sound!WatchKnown
      BY <2>5 DEF Sound!SoundInv, Sound!Orderly
    <3>2. Sound!OffsetKnown' /\ Sound!DreqTrue'
      BY <2>1, <2>2, <2>3, <3>1 DEF Sound!OffsetKnown, Sound!DreqTrue
    <3>3. Sound!Stored' = Sound!Stored
      BY <2>1 DEF Sound!Stored
    <3>4. irqinfo => Sound!Transferring' \/ Sound!Prog("choose")'
      BY <2>3, <3>1 DEF Sound!WatchKnown
    <3>5. \/ ~(Sound!Transferring /\ attr.IRQENABLE /\ irqinfo /\ ~spu_raised)
          \/ spu'.at \in {"read_offset", "write_offset", "check", "raise"} /\ dreq' = dreq
      BY <2>1, <3>1 DEF Sound!WatchKnown
    <3>6. Sound!InPlace' /\ Sound!WatchKnown'
      BY <2>1, <2>3, <3>1, <3>3, <3>4, <3>5, SoundWatched
    <3> QED
      BY <3>2, <3>6 DEF Sound!Orderly
  <2> QED
    BY <2>1, <2>3, <2>4, <2>5 DEF Sound!SoundInv
<1> QED
  BY <1>1, <1>2, <1>3, <1>4 DEF Sound!Next

(* When the program is done, all that was taken has been stored, or is the *)
(* last halfword and in the SPU2's hands.                                  *)
LEMMA SoundArrivesAll ==
  ASSUME Sound!Spu2Assumption, Sound!SoundInv
  PROVE  Sound!SoundInPlace /\ Sound!WatchedRaised
<1> DEFINE last == 2 * spu_prog.words - 1
<1> SUFFICES ASSUME ~early, Sound!Prog("done"), Sound!Fits
             PROVE  /\ \A i \in 0..last :
                         \/ Sound!Place(i) \in DOMAIN memory /\ memory[Sound!Place(i)] = <<sounds, i>>
                         \/ i = last /\ between /\ Sound!Carrying /\ spu.data = <<sounds, i>>
                    /\ attr.IRQENABLE /\ ~spu_raised =>
                         \A i \in 0..last : irqa = Sound!Place(i) => i = last /\ between
  BY DEF Sound!SoundInPlace, Sound!WatchedRaised
<1>1. Sound!TypeOK /\ Sound!OffsetKnown /\ Sound!DreqTrue /\ Sound!InPlace /\ Sound!WatchKnown
  BY DEF Sound!SoundInv, Sound!Orderly
<1>2. Sound!Transferring /\ spu_prog.at = "done" /\ spu_prog.words \in Nat /\ dma_offset \in Nat
  BY <1>1, SoundWords DEF Sound!Prog, Sound!Transferring
<1>3. dma_offset + Sound!Held = 2 * spu_prog.words
  <2>1. Sound!Taken = 2 * spu_prog.words
    BY <1>2 DEF Sound!Taken, Sound!Prog
  <2> QED
    BY <1>1, <1>2, <2>1 DEF Sound!OffsetKnown
<1>4. \/ Sound!Stored = 2 * spu_prog.words
      \/ /\ Sound!Stored = last /\ Sound!Carrying /\ spu.data = <<sounds, last>>
         /\ between /\ spu.at \notin {"read_offset", "write_offset", "check", "raise"}
  <2>1. CASE Sound!Carrying
    <3>1. dma_offset = last /\ spu.data = <<sounds, dma_offset>> /\ between
      BY <1>1, <1>2, <1>3, <2>1 DEF Sound!Held, Sound!OffsetKnown
    <3>2. spu.at \notin {"check", "raise"}
      BY <2>1 DEF Sound!Carrying
    <3> QED
      BY <1>2, <2>1, <3>1, <3>2 DEF Sound!Stored
  <2>2. CASE ~Sound!Carrying
    <3>1. spu.at \notin {"read_offset", "write_offset"}
      BY <2>2 DEF Sound!Carrying
    <3> QED
      BY <1>2, <1>3, <2>2, <3>1 DEF Sound!Stored, Sound!Held
  <2> QED
    BY <2>1, <2>2
<1>5. ASSUME NEW i \in 0..last
      PROVE  \/ Sound!Place(i) \in DOMAIN memory /\ memory[Sound!Place(i)] = <<sounds, i>>
             \/ i = last /\ between /\ Sound!Carrying /\ spu.data = <<sounds, i>>
  <2>1. i \in 0..Sound!Stored - 1 \/ (i = last /\ Sound!Stored # 2 * spu_prog.words)
    BY <1>2, <1>4
  <2> QED
    BY <1>1, <1>2, <1>4, <2>1 DEF Sound!InPlace
<1>6. ASSUME attr.IRQENABLE, ~spu_raised, NEW i \in 0..last, irqa = Sound!Place(i), ~(i = last /\ between)
      PROVE  FALSE
  <2>1. i \in 0..Sound!Stored - 1
    BY <1>2, <1>4, <1>6
  <2>2. Sound!Touched
    BY <1>6, <2>1 DEF Sound!Touched
  <2>3. irqinfo
    BY <1>1, <1>2, <1>6, <2>2 DEF Sound!WatchKnown
  <2>4. /\ spu.at \in {"read_offset", "write_offset", "check", "raise"} /\ ~dreq
        /\ irqa = Sound!Place(Sound!Stored - 1)
    BY <1>1, <1>2, <1>6, <2>3 DEF Sound!WatchKnown
  <2>5. Sound!Stored = 2 * spu_prog.words /\ between
    BY <1>1, <1>4, <2>4 DEF Sound!DreqTrue
  <2>6. i = last
    <3>1. \A j, k \in 0..2 * spu_prog.words - 1 : Sound!Place(j) = Sound!Place(k) => j = k
      <4>1. 2 * spu_prog.words \in Nat
            /\ 2 * spu_prog.words <= IF Sound!Automatic(attr) THEN 4 * Block ELSE Sound!MemorySize
        BY <1>2 DEF Sound!Fits
      <4> QED
        BY <1>1, <4>1, SoundPlaces
    <3>2. last \in 0..2 * spu_prog.words - 1 /\ Sound!Stored - 1 = last
      BY <1>2, <2>5
    <3> QED
      BY <1>6, <2>4, <3>1, <3>2
  <2> QED
    BY <1>6, <2>5, <2>6
<1> QED
  BY <1>5, <1>6

(* Whatever the sizes of the blocks, the memory and the queue, the modes,  *)
(* the addresses and the lengths of the transfers are: once STATX asks for *)
(* data again, each halfword of a transfer that fits its buffers is in its *)
(* place and the interrupt of the watched address has been raised,         *)
(* although the position is changed in two steps and ATTR's write keeps    *)
(* nobody out - but for the last halfword, which the SPU2 may hold if it   *)
(* looked between the two halves of a word, and for what a program does to *)
(* later transfers that goes on while it does (CSpu2.cpp:64-260,           *)
(* CIopDmac.cpp:314-333, Spu2CoreRegisters.cpp:8-37).                      *)
THEOREM SoundInvariance == SpecDevices => []SoundArrives
<1>1. InitDevices => Sound!SoundInv
  BY SoundAssumption, SoundInitInv DEF InitDevices
<1>2. Sound!SoundInv /\ [NextDevices]_all => Sound!SoundInv'
  <2>1. UNCHANGED sound_vars => UNCHANGED Sound!vars
    BY DEF sound_vars, Sound!vars, Sound!registers, Sound!channel, Sound!history
  <2>2. [NextDevices]_all => [Sound!Next]_(Sound!vars)
    BY <2>1 DEF NextDevices, OfCore, OfCdvd, OfSio, OfSpu2, all
  <2> QED
    BY <2>2, SoundAssumption, SoundStep
<1>3. Sound!SoundInv => SoundArrives
  BY SoundAssumption, SoundArrivesAll DEF SoundArrives
<1> QED
  BY <1>1, <1>2, <1>3, PTL DEF SpecDevices
-----------------------------------------------------------------------------
(* The serial interfaces.                                                  *)
(* A claim that holds for 0, and for each number up to a bound if it holds *)
(* for the one before, holds for all of them.                              *)
LEMMA UpTo ==
  ASSUME NEW n \in Nat, NEW holds, 0 \in holds, \A p \in 1..n : p - 1 \in holds => p \in holds
  PROVE  0..n \subseteq holds
<1> SUFFICES ASSUME ~(0..n \subseteq holds)
             PROVE  FALSE
  OBVIOUS
<1> DEFINE rest == {p \in 0..n : p \notin holds}
<1>1. rest # {} /\ rest \subseteq Nat
  OBVIOUS
<1> HIDE DEF rest
<1>2. \E x \in rest : \A y \in rest : ~(<<y, x>> \in OpToRel(<, Nat))
  BY <1>1, NatLessThanWellFounded, WFMin
<1>3. PICK x \in rest : \A y \in rest : ~(y < x)
  BY <1>1, <1>2 DEF OpToRel
<1> USE DEF rest
<1>4. x \in 1..n
  BY <1>3
<1>5. x - 1 \in holds
  <2>1. x - 1 \in 0..n /\ x - 1 < x
    BY <1>4
  <2> QED
    BY <1>3, <2>1
<1> QED
  BY <1>3, <1>4, <1>5

(* A recursion over the numbers up to a bound defines a function.          *)
LEMMA Recursion ==
  ASSUME NEW n \in Nat, NEW S, NEW a \in S, NEW step \in [1..n -> [S -> S]]
  PROVE  \E f \in [0..n -> S] : f[0] = a /\ \A p \in 1..n : f[p] = step[p][f[p - 1]]
<1> DEFINE Defines(m, f) == f[0] = a /\ \A p \in 1..m : f[p] = step[p][f[p - 1]]
<1> DEFINE holds == {m \in 0..n : \E f \in [0..m -> S] : Defines(m, f)}
<1>1. 0 \in holds
  <2>1. Defines(0, [p \in 0..0 |-> a]) /\ [p \in 0..0 |-> a] \in [0..0 -> S]
    OBVIOUS
  <2>2. 0 \in 0..n
    OBVIOUS
  <2> HIDE DEF Defines
  <2> QED
    BY <2>1, <2>2
<1>2. ASSUME NEW m \in 1..n, m - 1 \in holds
      PROVE  m \in holds
  <2>1. PICK f \in [0..m - 1 -> S] : Defines(m - 1, f)
    BY <1>2
  <2> DEFINE g == [p \in 0..m |-> IF p = m THEN step[m][f[m - 1]] ELSE f[p]]
  <2>2. m \in Nat /\ m # 0 /\ m \in 1..n /\ m - 1 \in 0..m - 1 /\ f[m - 1] \in S
    OBVIOUS
  <2>3. ASSUME NEW p \in 0..m
        PROVE  g[p] \in S /\ IF p = 0 THEN g[p] = a ELSE g[p] = step[p][g[p - 1]]
    <3>1. CASE p = m
      BY <2>2, <3>1
    <3>2. CASE p # m
      <4>1. p \in 0..m - 1 /\ g[p] = f[p]
        BY <2>2, <3>2
      <4>2. IF p = 0 THEN f[p] = a ELSE f[p] = step[p][f[p - 1]]
        BY <2>1, <4>1
      <4>3. p # 0 => p - 1 \in 0..m /\ p - 1 # m
        BY <2>2
      <4> QED
        BY <4>1, <4>2, <4>3
    <3> QED
      BY <3>1, <3>2
  <2>4. Defines(m, g) /\ g \in [0..m -> S]
    BY <2>3
  <2>5. m \in 0..n
    OBVIOUS
  <2> HIDE DEF Defines, g
  <2> QED
    BY <2>4, <2>5
<1>3. n \in holds
  <2>1. n \in 0..n
    OBVIOUS
  <2> HIDE DEF holds
  <2> QED
    BY <1>1, <1>2, <2>1, UpTo
<1> QED
  BY <1>3

LEMMA AskedSum ==
  ASSUME Serial!SioAssumption, NEW lengths \in [Serial!PortNumbers -> Nat]
  PROVE  /\ Serial!AskedOf(lengths) \in [0..Ports -> Nat] /\ Serial!AskedOf(lengths)[0] = 0
         /\ \A p \in Serial!PortNumbers :
              Serial!AskedOf(lengths)[p + 1] = Serial!AskedOf(lengths)[p] + lengths[p]
<1> DEFINE step == [p \in 1..Ports |-> [total \in Nat |-> total + lengths[p - 1]]]
<1> DEFINE f == Serial!AskedOf(lengths)
<1>1. Ports \in Nat
  BY DEF Serial!SioAssumption
<1>2. \A p \in 1..Ports : p - 1 \in Serial!PortNumbers
  BY <1>1 DEF Serial!PortNumbers
<1>3. step \in [1..Ports -> [Nat -> Nat]]
  BY <1>2
<1>4. PICK g \in [0..Ports -> Nat] : g[0] = 0 /\ \A p \in 1..Ports : g[p] = step[p][g[p - 1]]
  <2> HIDE DEF step
  <2>1. 0 \in Nat
    OBVIOUS
  <2> HIDE DEF step
  <2> DEFINE Defined(S, a, s) ==
        \E g \in [0..Ports -> S] : g[0] = a /\ \A p \in 1..Ports : g[p] = s[p][g[p - 1]]
  <2>2. \A S : \A a \in S : \A s \in [1..Ports -> [S -> S]] : Defined(S, a, s)
    BY <1>1, Recursion
  <2>3. Defined(Nat, 0, step)
    <3> HIDE DEF Defined
    <3> QED
      BY <1>3, <2>1, <2>2, Zenon
  <2> QED
    BY <2>3
<1>5. ASSUME NEW p \in 0..Ports
      PROVE  g[p] = IF p = 0 THEN 0 ELSE g[p - 1] + lengths[p - 1]
  <2>1. p # 0 => p - 1 \in 0..Ports /\ p \in 1..Ports /\ g[p - 1] \in Nat
    BY <1>1
  <2> QED
    BY <1>4, <2>1
<1>6. g = [p \in 0..Ports |-> IF p = 0 THEN 0 ELSE g[p - 1] + lengths[p - 1]]
  BY <1>5
<1>7. f = [p \in 0..Ports |-> IF p = 0 THEN 0 ELSE f[p - 1] + lengths[p - 1]]
  BY <1>6 DEF Serial!AskedOf
<1> HIDE DEF f
<1>8. f[0] = 0 /\ \A p \in Serial!PortNumbers : f[p + 1] = f[p] + lengths[p]
  BY <1>1, <1>7 DEF Serial!PortNumbers
<1>9. \A p \in 0..Ports : f[p] \in Nat
  <2> DEFINE holds == {p \in 0..Ports : f[p] \in Nat}
  <2>1. \A p \in 1..Ports : p - 1 \in holds => p \in holds
    <3> SUFFICES ASSUME NEW p \in 1..Ports, p - 1 \in holds
                 PROVE  p \in holds
      OBVIOUS
    <3>1. p - 1 \in Serial!PortNumbers /\ f[p] = f[p - 1] + lengths[p - 1]
      BY <1>1, <1>7 DEF Serial!PortNumbers
    <3> QED
      BY <3>1
  <2>2. 0 \in holds
    BY <1>1, <1>8
  <2> QED
    BY <1>1, <2>1, <2>2, UpTo
<1> QED
  BY <1>7, <1>8, <1>9 DEF f
-----------------------------------------------------------------------------
LEMMA Concatenated ==
  ASSUME NEW s \in Seq(Serial!Bytes), NEW t \in Seq(Serial!Bytes)
  PROVE  Serial!Increasing(s \o t) <=> /\ Serial!Increasing(s) /\ Serial!Increasing(t)
                                       /\ \A i \in 1..Len(s), j \in 1..Len(t) : Serial!Before(s[i], t[j])
<1>1. /\ Len(s) \in Nat /\ Len(t) \in Nat /\ Len(s \o t) = Len(s) + Len(t)
      /\ \A i \in 1..Len(s) + Len(t) : (s \o t)[i] = IF i <= Len(s) THEN s[i] ELSE t[i - Len(s)]
  BY ConcatProperties
<1>2. ASSUME Serial!Increasing(s \o t)
      PROVE  /\ Serial!Increasing(s) /\ Serial!Increasing(t)
             /\ \A i \in 1..Len(s), j \in 1..Len(t) : Serial!Before(s[i], t[j])
  <2>1. \A i \in 1..Len(s) : i \in 1..Len(s) + Len(t) /\ (s \o t)[i] = s[i]
    BY <1>1
  <2>2. \A j \in 1..Len(t) : /\ Len(s) + j \in 1..Len(s) + Len(t) /\ (s \o t)[Len(s) + j] = t[j]
    <3>1. \A j \in 1..Len(t) : Len(s) + j \in 1..Len(s) + Len(t) /\ ~(Len(s) + j <= Len(s))
                               /\ (Len(s) + j) - Len(s) = j
      BY <1>1
    <3> QED
      BY <1>1, <3>1
  <2>3. Serial!Increasing(s)
    BY <1>1, <1>2, <2>1 DEF Serial!Increasing
  <2>4. Serial!Increasing(t)
    <3>1. \A i, j \in 1..Len(t) : i < j => Len(s) + i < Len(s) + j
      BY <1>1
    <3> QED
      BY <1>1, <1>2, <2>2, <3>1 DEF Serial!Increasing
  <2>5. \A i \in 1..Len(s), j \in 1..Len(t) : Serial!Before(s[i], t[j])
    <3>1. \A i \in 1..Len(s), j \in 1..Len(t) : i < Len(s) + j
      BY <1>1
    <3> QED
      BY <1>1, <1>2, <2>1, <2>2, <3>1 DEF Serial!Increasing
  <2> QED
    BY <2>3, <2>4, <2>5
<1>3. ASSUME Serial!Increasing(s), Serial!Increasing(t), \A i \in 1..Len(s),
             j \in 1..Len(t) : Serial!Before(s[i], t[j]),
             NEW i \in 1..Len(s \o t), NEW j \in 1..Len(s \o t), i < j
      PROVE  Serial!Before((s \o t)[i], (s \o t)[j])
  <2>1. CASE j <= Len(s)
    BY <1>1, <1>3, <2>1 DEF Serial!Increasing
  <2>2. CASE i <= Len(s) /\ ~(j <= Len(s))
    <3>1. j - Len(s) \in 1..Len(t) /\ i \in 1..Len(s)
      BY <1>1, <2>2
    <3> QED
      BY <1>1, <1>3, <2>2, <3>1
  <2>3. CASE ~(i <= Len(s))
    <3>1. j - Len(s) \in 1..Len(t) /\ i - Len(s) \in 1..Len(t) /\ i - Len(s) < j - Len(s)
          /\ ~(j <= Len(s))
      BY <1>1, <1>3, <2>3
    <3>2. Serial!Before(t[i - Len(s)], t[j - Len(s)])
      BY <1>3, <3>1 DEF Serial!Increasing
    <3> QED
      BY <1>1, <2>3, <3>1, <3>2
  <2> QED
    BY <1>1, <1>3, <2>1, <2>2, <2>3
<1> QED
  BY <1>2, <1>3 DEF Serial!Increasing

(* The bytes of a transfer are in their order.                             *)
LEMMA BytesSorted ==
  ASSUME Serial!SioAssumption, transfers \in Nat,
         NEW lengths \in [Serial!PortNumbers -> [CMDLEN : Nat, BUFSZ : Nat]]
  PROVE  /\ Serial!BytesFor(lengths) \in Seq(Serial!Bytes) /\ Serial!Increasing(Serial!BytesFor(lengths))
         /\ \A i \in 1..Len(Serial!BytesFor(lengths)) : Serial!BytesFor(lengths)[i][1] = transfers + 1
<1> DEFINE part(p) == [i \in 1..lengths[p - 1].CMDLEN |-> <<transfers + 1, p - 1, i>>]
<1> DEFINE step == [p \in 1..Ports |-> [bytes \in Seq(Serial!Bytes) |-> bytes \o part(p)]]
<1>1. Ports \in Nat /\ \A p \in 1..Ports : p - 1 \in Serial!PortNumbers /\ p - 1 \in Nat
      /\ lengths[p - 1].CMDLEN \in Nat
  BY DEF Serial!SioAssumption, Serial!PortNumbers
<1>2. ASSUME NEW p \in 1..Ports
      PROVE  part(p) \in Seq(Serial!Bytes) /\ Len(part(p)) = lengths[p - 1].CMDLEN
  <2>1. \A i \in 1..lengths[p - 1].CMDLEN : <<transfers + 1, p - 1, i>> \in Serial!Bytes
    BY <1>1 DEF Serial!Bytes
  <2> QED
    BY <1>1, <2>1
<1>3. step \in [1..Ports -> [Seq(Serial!Bytes) -> Seq(Serial!Bytes)]]
  <2> HIDE DEF part
  <2>1. \A p \in 1..Ports : \A bytes \in Seq(Serial!Bytes) : bytes \o part(p) \in Seq(Serial!Bytes)
    BY <1>2, ConcatProperties
  <2> QED
    BY <2>1
<1>4. PICK g \in [0..Ports -> Seq(Serial!Bytes)] : g[0] = <<>>
           /\ \A p \in 1..Ports : g[p] = step[p][g[p - 1]]
  <2>1. <<>> \in Seq(Serial!Bytes)
    OBVIOUS
  <2> HIDE DEF step
  <2> DEFINE Defined(S, a, s) ==
        \E g \in [0..Ports -> S] : g[0] = a /\ \A p \in 1..Ports : g[p] = s[p][g[p - 1]]
  <2>2. \A S : \A a \in S : \A s \in [1..Ports -> [S -> S]] : Defined(S, a, s)
    BY <1>1, Recursion
  <2>3. Defined(Seq(Serial!Bytes), <<>>, step)
    <3> HIDE DEF Defined
    <3> QED
      BY <1>3, <2>1, <2>2, Zenon
  <2> QED
    BY <2>3
<1>5. \A p \in 0..Ports : g[p] = IF p = 0 THEN <<>> ELSE g[p - 1] \o part(p)
  <2> HIDE DEF part
  <2>1. \A p \in 1..Ports : p - 1 \in 0..Ports
    BY <1>1
  <2>2. \A p \in 1..Ports : g[p] = g[p - 1] \o part(p)
    BY <1>4, <2>1
  <2>3. \A p \in 0..Ports : p # 0 => p \in 1..Ports
    BY <1>1
  <2> HIDE DEF step
  <2> QED
    BY <1>4, <2>2, <2>3
<1>6. g = [p \in 0..Ports |-> IF p = 0 THEN <<>> ELSE g[p - 1] \o part(p)]
  <2> HIDE DEF part
  <2> QED
    BY <1>5
<1> DEFINE f == CHOOSE f : f = [p \in 0..Ports |-> IF p = 0 THEN <<>> ELSE f[p - 1] \o part(p)]
<1>7. f = [p \in 0..Ports |-> IF p = 0 THEN <<>> ELSE f[p - 1] \o part(p)]
  <2> HIDE DEF part
  <2> QED
    BY <1>6
<1>8. Serial!BytesFor(lengths) = f[Ports]
  BY DEF Serial!BytesFor
<1> HIDE DEF f, step
<1>9. f[0] = <<>> /\ \A p \in 1..Ports : f[p] = f[p - 1] \o part(p)
  <2> HIDE DEF part
  <2>1. 0 \in 0..Ports /\ \A p \in 1..Ports : p \in 0..Ports /\ p # 0
    BY <1>1
  <2> QED
    BY <1>7, <2>1
<1> DEFINE Made(p, bytes) ==
      /\ bytes \in Seq(Serial!Bytes) /\ Serial!Increasing(bytes)
      /\ \A i \in 1..Len(bytes) : bytes[i][1] = transfers + 1 /\ bytes[i][2] < p
<1> DEFINE holds == {p \in 0..Ports : Made(p, f[p])}
<1>10. 0 \in holds
  <2>1. <<>> \in Seq(Serial!Bytes) /\ Len(<<>>) = 0 /\ 0 \in 0..Ports
    BY <1>1, EmptySeq
  <2>2. Made(0, <<>>)
    BY <2>1 DEF Serial!Increasing
  <2> HIDE DEF Made
  <2> QED
    BY <1>9, <2>1, <2>2
<1>11. ASSUME NEW p \in 1..Ports, p - 1 \in holds
       PROVE  p \in holds
  <2> DEFINE s == f[p - 1]
  <2> DEFINE t == part(p)
  <2>1. Made(p - 1, s) /\ f[p] = s \o t /\ p \in 0..Ports /\ p - 1 \in Nat
    <3> HIDE DEF part
    <3>1. f[p] = s \o t
      BY <1>9
    <3>2. p \in 0..Ports /\ p - 1 \in Nat
      BY <1>1
    <3>3. Made(p - 1, f[p - 1])
      <4> HIDE DEF Made
      <4> QED
        BY <1>11
    <3> QED
      BY <3>1, <3>2, <3>3
  <2>2. t \in Seq(Serial!Bytes) /\ Len(t) \in Nat /\ \A i \in 1..Len(t) : i \in Nat
        /\ t[i] = <<transfers + 1, p - 1, i>>
    BY <1>1, <1>2
  <2> HIDE DEF s, t
  <2>3. Serial!Increasing(t)
    BY <2>2 DEF Serial!Increasing, Serial!Before
  <2>4. \A i \in 1..Len(s), j \in 1..Len(t) : Serial!Before(s[i], t[j])
    <3> SUFFICES ASSUME NEW i \in 1..Len(s), NEW j \in 1..Len(t)
                 PROVE  Serial!Before(s[i], t[j])
      OBVIOUS
    <3>1. s[i][1] = transfers + 1 /\ s[i][2] < p - 1 /\ t[j] = <<transfers + 1, p - 1, j>>
      BY <2>1, <2>2
    <3> QED
      BY <3>1 DEF Serial!Before
  <2>5. Serial!Increasing(s \o t)
    BY <2>1, <2>2, <2>3, <2>4, Concatenated
  <2>6. /\ s \o t \in Seq(Serial!Bytes) /\ Len(s) \in Nat /\ Len(s \o t) = Len(s) + Len(t)
        /\ \A i \in 1..Len(s) + Len(t) : (s \o t)[i] = IF i <= Len(s) THEN s[i] ELSE t[i - Len(s)]
    BY <2>1, <2>2, ConcatProperties
  <2>7. ASSUME NEW i \in 1..Len(s \o t)
        PROVE  (s \o t)[i][1] = transfers + 1 /\ (s \o t)[i][2] < p
    <3>1. CASE i <= Len(s)
      <4>1. i \in 1..Len(s) /\ (s \o t)[i] = s[i] /\ s[i] \in Serial!Bytes
        BY <2>1, <2>6, <3>1, ElementOfSeq
      <4>2. s[i][2] < p - 1 /\ s[i][1] = transfers + 1
        BY <2>1, <4>1
      <4>3. s[i][2] \in Int
        BY <1>1, <4>1 DEF Serial!Bytes, Serial!PortNumbers
      <4> QED
        BY <2>1, <4>1, <4>2, <4>3
    <3>2. CASE ~(i <= Len(s))
      <4>1. i - Len(s) \in 1..Len(t) /\ (s \o t)[i] = t[i - Len(s)]
        BY <2>2, <2>6, <3>2
      <4>2. (s \o t)[i] = <<transfers + 1, p - 1, i - Len(s)>>
        BY <2>2, <4>1
      <4> QED
        BY <2>1, <4>2
    <3> QED
      BY <3>1, <3>2
  <2>8. Made(p, s \o t)
    BY <2>5, <2>6, <2>7
  <2> HIDE DEF Made
  <2> QED
    BY <2>1, <2>8
<1>12. Ports \in holds
  <2> HIDE DEF holds
  <2>1. Ports \in 0..Ports
    BY <1>1
  <2> QED
    BY <1>1, <1>10, <1>11, <2>1, UpTo
<1> QED
  BY <1>8, <1>12
-----------------------------------------------------------------------------
(* The way of a byte through the four queues.                              *)
Within(bytes, n) == \A i \in 1..Len(bytes) : bytes[i][1] <= n
Sorted(bytes, n) == Serial!Increasing(bytes) /\ Within(bytes, n)
Through(a, b, c, d) == (Serial!BytesOf(a) \o Serial!BytesOf(b)) \o (c \o d)

LEMMA WithinBoth ==
  ASSUME NEW s \in Seq(Serial!Bytes), NEW t \in Seq(Serial!Bytes), NEW n
  PROVE  Within(s \o t, n) <=> Within(s, n) /\ Within(t, n)
<1>1. /\ Len(s) \in Nat /\ Len(t) \in Nat /\ Len(s \o t) = Len(s) + Len(t)
      /\ \A i \in 1..Len(s) + Len(t) : (s \o t)[i] = IF i <= Len(s) THEN s[i] ELSE t[i - Len(s)]
  BY ConcatProperties
<1>2. \A i \in 1..Len(s) : i \in 1..Len(s) + Len(t) /\ (s \o t)[i] = s[i]
  BY <1>1
<1>3. \A j \in 1..Len(t) : /\ Len(s) + j \in 1..Len(s) + Len(t) /\ (s \o t)[Len(s) + j] = t[j]
  <2>1. \A j \in 1..Len(t) : Len(s) + j \in 1..Len(s) + Len(t) /\ ~(Len(s) + j <= Len(s))
                             /\ (Len(s) + j) - Len(s) = j
    BY <1>1
  <2> QED
    BY <1>1, <2>1
<1>4. \A i \in 1..Len(s) + Len(t) : i \in 1..Len(s) \/ i - Len(s) \in 1..Len(t)
  BY <1>1
<1>5. ASSUME Within(s \o t, n)
      PROVE  Within(s, n) /\ Within(t, n)
  BY <1>1, <1>2, <1>3, <1>5 DEF Within
<1>6. ASSUME Within(s, n), Within(t, n)
      PROVE  Within(s \o t, n)
  BY <1>1, <1>2, <1>4, <1>6 DEF Within
<1> QED
  BY <1>5, <1>6

LEMMA SortedBoth ==
  ASSUME NEW s \in Seq(Serial!Bytes), NEW t \in Seq(Serial!Bytes), NEW n, Sorted(s \o t, n)
  PROVE  /\ Sorted(s, n) /\ Sorted(t, n)
         /\ \A i \in 1..Len(s), j \in 1..Len(t) : Serial!Before(s[i], t[j])
BY Concatenated, WithinBoth DEF Sorted

LEMMA BytesOfAnswers ==
  ASSUME NEW q \in Seq(Serial!Answers)
  PROVE  /\ Serial!BytesOf(q) \in Seq(Serial!Bytes) /\ Len(Serial!BytesOf(q)) = Len(q)
         /\ \A i \in 1..Len(q) : Serial!BytesOf(q)[i] = q[i].byte
<1>1. Len(q) \in Nat /\ \A i \in 1..Len(q) : q[i].byte \in Serial!Bytes
  <2>1. \A answer \in Serial!Answers : answer.byte \in Serial!Bytes
    BY DEF Serial!Answers
  <2> QED
    BY <2>1, LenProperties, ElementOfSeq
<1> QED
  BY <1>1 DEF Serial!BytesOf

LEMMA MoveHead ==
  ASSUME NEW s \in Seq(Serial!Bytes), NEW t \in Seq(Serial!Bytes), t # <<>>
  PROVE  /\ Append(s, Head(t)) \in Seq(Serial!Bytes) /\ Tail(t) \in Seq(Serial!Bytes)
         /\ Append(s, Head(t)) \o Tail(t) = s \o t
<1>1. Head(t) \in Serial!Bytes /\ Tail(t) \in Seq(Serial!Bytes) /\ Len(t) \in Nat \ {0} /\ Head(t) = t[1]
      /\ Len(Tail(t)) = Len(t) - 1 /\ \A i \in 1..Len(Tail(t)) : Tail(t)[i] = t[i + 1]
  BY HeadTailProperties, EmptySeq
<1> DEFINE new == Append(s, Head(t))
<1>2. /\ new \in Seq(Serial!Bytes) /\ Len(new) = Len(s) + 1 /\ Len(s) \in Nat /\ new[Len(s) + 1] = t[1]
      /\ \A i \in 1..Len(s) : new[i] = s[i]
  BY <1>1, AppendProperties, LenProperties
<1> DEFINE rest == Tail(t)
<1> HIDE DEF new, rest
<1>3. /\ new \o rest \in Seq(Serial!Bytes) /\ Len(new \o rest) = Len(new) + Len(rest)
      /\ \A i \in 1..Len(new) + Len(rest) :
           (new \o rest)[i] = IF i <= Len(new) THEN new[i] ELSE rest[i - Len(new)]
  <2>1. rest \in Seq(Serial!Bytes)
    BY <1>1 DEF rest
  <2> QED
    BY <1>2, <2>1, ConcatProperties
<1>4. /\ s \o t \in Seq(Serial!Bytes) /\ Len(s \o t) = Len(s) + Len(t)
      /\ \A i \in 1..Len(s) + Len(t) : (s \o t)[i] = IF i <= Len(s) THEN s[i] ELSE t[i - Len(s)]
  BY ConcatProperties
<1>5. Len(rest) = Len(t) - 1 /\ \A i \in 1..Len(rest) : rest[i] = t[i + 1]
  BY <1>1 DEF rest
<1>6. ASSUME NEW i \in 1..Len(new \o rest)
      PROVE  (new \o rest)[i] = (s \o t)[i]
  <2>1. i \in 1..Len(s) + Len(t) /\ i \in 1..Len(new) + Len(rest)
    BY <1>1, <1>2, <1>3, <1>5
  <2>2. CASE i <= Len(s)
    BY <1>2, <1>3, <1>4, <2>1, <2>2
  <2>3. CASE i = Len(s) + 1
    <3>1. i <= Len(new) /\ ~(i <= Len(s)) /\ i - Len(s) = 1
      BY <1>2, <2>3
    <3> QED
      BY <1>2, <1>3, <1>4, <2>1, <2>3, <3>1
  <2>4. CASE i > Len(s) + 1
    <3>1. ~(i <= Len(new)) /\ ~(i <= Len(s)) /\ i - Len(new) \in 1..Len(rest)
          /\ (i - Len(new)) + 1 = i - Len(s)
      BY <1>1, <1>2, <1>5, <2>1, <2>4
    <3> QED
      BY <1>3, <1>4, <1>5, <2>1, <3>1
  <2> QED
    BY <1>2, <2>1, <2>2, <2>3, <2>4
<1>7. Len(new \o rest) = Len(s \o t)
  BY <1>1, <1>2, <1>3, <1>4, <1>5
<1>8. new \o rest = s \o t
  BY <1>3, <1>4, <1>6, <1>7, SeqEqual
<1> QED
  BY <1>1, <1>2, <1>8 DEF new, rest

LEMMA BytesOfAppend ==
  ASSUME NEW q \in Seq(Serial!Answers), NEW answer \in Serial!Answers
  PROVE  Serial!BytesOf(Append(q, answer)) = Append(Serial!BytesOf(q), answer.byte)
<1> DEFINE new == Append(q, answer)
<1>1. /\ new \in Seq(Serial!Answers) /\ Len(new) = Len(q) + 1 /\ new[Len(q) + 1] = answer
          /\ Len(q) \in Nat
      /\ \A i \in 1..Len(q) : new[i] = q[i]
  BY AppendProperties, LenProperties
<1>2. answer.byte \in Serial!Bytes
  BY DEF Serial!Answers
<1>3. /\ Serial!BytesOf(q) \in Seq(Serial!Bytes) /\ Len(Serial!BytesOf(q)) = Len(q)
      /\ \A i \in 1..Len(q) : Serial!BytesOf(q)[i] = q[i].byte
  BY BytesOfAnswers
<1> HIDE DEF new
<1>4. /\ Serial!BytesOf(new) \in Seq(Serial!Bytes) /\ Len(Serial!BytesOf(new)) = Len(new)
      /\ \A i \in 1..Len(new) : Serial!BytesOf(new)[i] = new[i].byte
  BY <1>1, BytesOfAnswers
<1> DEFINE other == Append(Serial!BytesOf(q), answer.byte)
<1>5. /\ other \in Seq(Serial!Bytes) /\ Len(other) = Len(q) + 1 /\ other[Len(q) + 1] = answer.byte
      /\ \A i \in 1..Len(q) : other[i] = q[i].byte
  BY <1>2, <1>3, AppendProperties
<1> HIDE DEF other
<1>6. \A i \in 1..Len(Serial!BytesOf(new)) : Serial!BytesOf(new)[i] = other[i]
  <2> SUFFICES ASSUME NEW i \in 1..Len(q) + 1
               PROVE  Serial!BytesOf(new)[i] = other[i]
    BY <1>1, <1>4
  <2>1. i \in 1..Len(q) \/ i = Len(q) + 1
    BY <1>1
  <2> QED
    BY <1>1, <1>4, <1>5, <2>1
<1>7. Serial!BytesOf(new) = other
  BY <1>1, <1>4, <1>5, <1>6, SeqEqual
<1> QED
  BY <1>7 DEF new, other

LEMMA BytesOfTail ==
  ASSUME NEW q \in Seq(Serial!Answers), q # <<>>
  PROVE  /\ Serial!BytesOf(q) # <<>> /\ Head(Serial!BytesOf(q)) = Head(q).byte
             /\ Head(q) \in Serial!Answers
         /\ Tail(q) \in Seq(Serial!Answers) /\ Serial!BytesOf(Tail(q)) = Tail(Serial!BytesOf(q))
<1>1. /\ Head(q) \in Serial!Answers /\ Head(q) = q[1] /\ Len(q) \in Nat \ {0}
          /\ Tail(q) \in Seq(Serial!Answers)
      /\ Len(Tail(q)) = Len(q) - 1 /\ \A i \in 1..Len(Tail(q)) : Tail(q)[i] = q[i + 1]
  BY HeadTailProperties, EmptySeq
<1>2. /\ Serial!BytesOf(q) \in Seq(Serial!Bytes) /\ Len(Serial!BytesOf(q)) = Len(q)
      /\ \A i \in 1..Len(q) : Serial!BytesOf(q)[i] = q[i].byte
  BY BytesOfAnswers
<1> DEFINE s == Serial!BytesOf(q)
<1> DEFINE rest == Tail(q)
<1>3. s # <<>> /\ Head(s) = Head(q).byte
  <2>1. Len(s) # 0
    BY <1>1, <1>2
  <2>2. s # <<>> /\ Head(s) = s[1]
    BY <2>1, EmptySeq
  <2> QED
    BY <1>1, <1>2, <2>2
<1>4. /\ Tail(s) \in Seq(Serial!Bytes) /\ Len(Tail(s)) = Len(s) - 1
      /\ \A i \in 1..Len(Tail(s)) : Tail(s)[i] = s[i + 1]
  BY <1>2, <1>3, HeadTailProperties
<1>5. rest \in Seq(Serial!Answers) /\ Len(rest) = Len(q) - 1 /\ \A i \in 1..Len(rest) : rest[i] = q[i + 1]
  BY <1>1
<1> HIDE DEF s, rest
<1>6. /\ Serial!BytesOf(rest) \in Seq(Serial!Bytes) /\ Len(Serial!BytesOf(rest)) = Len(rest)
      /\ \A i \in 1..Len(rest) : Serial!BytesOf(rest)[i] = rest[i].byte
  BY <1>5, BytesOfAnswers
<1>7. Len(s) = Len(q) /\ \A i \in 1..Len(q) : s[i] = q[i].byte
  BY <1>2 DEF s
<1>8. \A i \in 1..Len(rest) : i + 1 \in 1..Len(q)
  BY <1>1, <1>5
<1>9. \A i \in 1..Len(Serial!BytesOf(rest)) : Serial!BytesOf(rest)[i] = Tail(s)[i]
  BY <1>4, <1>5, <1>6, <1>7, <1>8
<1>10. Serial!BytesOf(rest) = Tail(s)
  BY <1>4, <1>5, <1>6, <1>7, <1>9, SeqEqual
<1> QED
  BY <1>1, <1>3, <1>10 DEF s, rest

LEMMA Grouped ==
  \A a, b, c, d \in Seq(Serial!Bytes) : (a \o b) \o (c \o d) = a \o ((b \o c) \o d)
<1> DEFINE Group(s, t, u) == (s \o t) \o u = s \o (t \o u)
<1>1. \A s, t, u \in Seq(Serial!Bytes) : Group(s, t, u)
  BY ConcatAssociative
<1> HIDE DEF Group
<1> TAKE a, b, c, d \in Seq(Serial!Bytes)
<1>2. c \o d \in Seq(Serial!Bytes)
  BY ConcatProperties
<1>3. Group(a, b, c \o d) /\ Group(b, c, d)
  BY <1>1, <1>2, Zenon
<1> QED
  BY <1>3, Zenon DEF Group

LEMMA Regrouped ==
  \A a, b, c, d, new, rest \in Seq(Serial!Bytes) :
    new \o rest = b \o c => (a \o new) \o (rest \o d) = (a \o b) \o (c \o d)
<1> DEFINE Group(a, b, c, d) == (a \o b) \o (c \o d) = a \o ((b \o c) \o d)
<1>1. \A a, b, c, d \in Seq(Serial!Bytes) : Group(a, b, c, d)
  BY Grouped
<1> HIDE DEF Group
<1> TAKE a, b, c, d, new, rest \in Seq(Serial!Bytes)
<1>2. Group(a, b, c, d)
  BY <1>1, Zenon
<1>3. Group(a, new, rest, d)
  BY <1>1, Zenon
<1> QED
  BY <1>2, <1>3, Zenon DEF Group

(* A byte that goes on to the next queue keeps its place.                  *)
LEMMA Moved ==
  ASSUME Serial!TypeOK, Serial!Ordered,
         \/ (Serial!SendByte /\ fifo_tosio2 # <<>>) \/ Serial!ReceiveByte \/ Serial!Answer
         \/ UNCHANGED <<Serial!queues, transfers>>
  PROVE  Serial!Ordered'
<1> DEFINE a == Serial!BytesOf(fifo_fromsio2)
<1> DEFINE b == Serial!BytesOf(response_queue)
<1> DEFINE c == command_queue
<1> DEFINE d == fifo_tosio2
<1>1. /\ fifo_fromsio2 \in Seq(Serial!Answers) /\ response_queue \in Seq(Serial!Answers)
      /\ c \in Seq(Serial!Bytes) /\ d \in Seq(Serial!Bytes) /\ sio0_ctrl.PORT \in Serial!PortNumbers
  BY DEF Serial!TypeOK
<1>2. a \in Seq(Serial!Bytes) /\ b \in Seq(Serial!Bytes)
  BY <1>1, BytesOfAnswers
<1>3. Serial!Way' = Serial!Way /\ transfers' = transfers
  <2>1. CASE Serial!SendByte /\ fifo_tosio2 # <<>>
    <3>1. /\ Serial!BytesOf(fifo_fromsio2)' = a /\ Serial!BytesOf(response_queue)' = b
          /\ command_queue' = Append(c, Head(d)) /\ fifo_tosio2' = Tail(d)
          /\ transfers' = transfers
      BY <2>1 DEF Serial!SendByte, Serial!progs
    <3>2. command_queue' \o fifo_tosio2' = c \o d
      BY <1>1, <2>1, <3>1, MoveHead
    <3> QED
      BY <3>1, <3>2 DEF Serial!Way
  <2>2. CASE Serial!ReceiveByte
    <3>1. command_queue' = c /\ fifo_tosio2' = d /\ transfers' = transfers
      BY <2>2 DEF Serial!ReceiveByte, Serial!progs
    <3>2. Serial!BytesOf(fifo_fromsio2') \o Serial!BytesOf(response_queue') = a \o b
      <4>1. CASE response_queue = <<>>
        BY <2>2, <4>1 DEF Serial!ReceiveByte
      <4>2. CASE response_queue # <<>>
        <5>1. /\ b # <<>> /\ Head(b) = Head(response_queue).byte
                  /\ Head(response_queue) \in Serial!Answers
              /\ Serial!BytesOf(Tail(response_queue)) = Tail(b)
          BY <1>1, <4>2, BytesOfTail
        <5>2. Serial!BytesOf(Append(fifo_fromsio2, Head(response_queue))) = Append(a, Head(b))
          BY <1>1, <5>1, BytesOfAppend
        <5>3. Append(a, Head(b)) \o Tail(b) = a \o b
          <6> HIDE DEF a, b
          <6> QED
            BY <1>2, <5>1, MoveHead
        <5>4. /\ fifo_fromsio2' = Append(fifo_fromsio2, Head(response_queue))
              /\ response_queue' = Tail(response_queue)
          BY <2>2, <4>2 DEF Serial!ReceiveByte
        <5> QED
          BY <5>1, <5>2, <5>3, <5>4
      <4> QED
        BY <4>1, <4>2
    <3> QED
      BY <3>1, <3>2 DEF Serial!Way
  <2>3. CASE Serial!Answer
    <3> DEFINE answer == [byte |-> Head(c), port |-> sio0_ctrl.PORT]
    <3>1. /\ fifo_fromsio2' = fifo_fromsio2 /\ fifo_tosio2' = d /\ transfers' = transfers /\ c # <<>>
          /\ command_queue' = Tail(c) /\ response_queue' = Append(response_queue, answer)
      BY <2>3 DEF Serial!Answer, Serial!progs
    <3>2. Head(c) \in Serial!Bytes /\ Tail(c) \in Seq(Serial!Bytes)
      BY <1>1, <3>1, HeadTailProperties
    <3>3. answer \in Serial!Answers /\ answer.byte = Head(c)
      BY <1>1, <3>2 DEF Serial!Answers
    <3>4. Serial!BytesOf(response_queue') = Append(b, Head(c))
      <4> HIDE DEF answer
      <4> QED
        BY <1>1, <3>1, <3>3, BytesOfAppend
    <3> DEFINE new == Append(b, Head(c))
    <3> DEFINE rest == Tail(c)
    <3>5. new \in Seq(Serial!Bytes) /\ rest \in Seq(Serial!Bytes) /\ new \o rest = b \o c
      <4> HIDE DEF b
      <4> QED
        BY <1>1, <1>2, <3>1, MoveHead
    <3>6. (a \o new) \o (rest \o d) = (a \o b) \o (c \o d)
      <4> DEFINE Group(p, q, r, t, u, v) == u \o v = q \o r => (p \o u) \o (v \o t) = (p \o q) \o (r \o t)
      <4> HIDE DEF a, b, c, d, new, rest
      <4>1. \A p, q, r, t, u, v \in Seq(Serial!Bytes) : Group(p, q, r, t, u, v)
        BY Regrouped, Zenon
      <4> HIDE DEF Group
      <4>2. Group(a, b, c, d, new, rest)
        BY <1>1, <1>2, <3>5, <4>1, Zenon
      <4> QED
        BY <3>5, <4>2, Zenon DEF Group
    <3> QED
      BY <3>1, <3>4, <3>6 DEF Serial!Way
  <2>4. CASE UNCHANGED <<Serial!queues, transfers>>
    BY <2>4 DEF Serial!Way, Serial!queues
  <2> QED
    BY <2>1, <2>2, <2>3, <2>4
<1> QED
  BY <1>3 DEF Serial!Ordered

(* A reset of the SIO0, and the program that takes the answers away, leave *)
(* the order of the others alone.                                          *)
LEMMA ThrownAway ==
  ASSUME Serial!TypeOK, Serial!Ordered, Serial!ResetCheck \/ Serial!Collect
  PROVE  Serial!Ordered'
<1> DEFINE a == Serial!BytesOf(fifo_fromsio2)
<1> DEFINE b == Serial!BytesOf(response_queue)
<1> DEFINE c == command_queue
<1> DEFINE d == fifo_tosio2
<1>1. c \in Seq(Serial!Bytes) /\ d \in Seq(Serial!Bytes) /\ a \in Seq(Serial!Bytes)
      /\ b \in Seq(Serial!Bytes)
  BY BytesOfAnswers DEF Serial!TypeOK
<1>2. Serial!BytesOf(<<>>) = <<>> /\ <<>> \in Seq(Serial!Answers) /\ <<>> \in Seq(Serial!Bytes)
  BY DEF Serial!BytesOf
<1>3. Serial!Way = (a \o b) \o (c \o d) /\ Sorted(Serial!Way, transfers)
  BY DEF Serial!Way, Serial!Ordered, Sorted, Within
<1>4. transfers' = transfers
  BY DEF Serial!ResetCheck, Serial!Collect, Serial!progs
<1>5. CASE Serial!ResetCheck /\ sio0_ctrl.SIO_RESET
  <2>1. Serial!Way' = (a \o <<>>) \o (<<>> \o d)
    BY <1>2, <1>5 DEF Serial!ResetCheck, Serial!Way
  <2> HIDE DEF a, b, c, d
  <2>2. Serial!Way' = a \o d
    BY <1>1, <2>1, ConcatEmptySeq
  <2>3. a \o b \in Seq(Serial!Bytes) /\ c \o d \in Seq(Serial!Bytes)
    BY <1>1, ConcatProperties
  <2>4. /\ Sorted(a \o b, transfers) /\ Sorted(c \o d, transfers)
        /\ \A i \in 1..Len(a \o b), j \in 1..Len(c \o d) : Serial!Before((a \o b)[i], (c \o d)[j])
    BY <1>3, <2>3, SortedBoth
  <2>5. Sorted(a, transfers) /\ Sorted(d, transfers)
    BY <1>1, <2>4, SortedBoth
  <2>6. \A i \in 1..Len(a) : i \in 1..Len(a \o b) /\ (a \o b)[i] = a[i]
    BY <1>1, ConcatProperties, LenProperties
  <2>7. \A j \in 1..Len(d) : Len(c) + j \in 1..Len(c \o d) /\ (c \o d)[Len(c) + j] = d[j]
    <3>1. /\ Len(c) \in Nat /\ Len(d) \in Nat /\ Len(c \o d) = Len(c) + Len(d)
          /\ \A i \in 1..Len(c) + Len(d) : (c \o d)[i] = IF i <= Len(c) THEN c[i] ELSE d[i - Len(c)]
      BY <1>1, ConcatProperties, LenProperties
    <3>2. \A j \in 1..Len(d) : Len(c) + j \in 1..Len(c) + Len(d) /\ ~(Len(c) + j <= Len(c))
                               /\ (Len(c) + j) - Len(c) = j
      BY <3>1
    <3> QED
      BY <3>1, <3>2
  <2>8. \A i \in 1..Len(a), j \in 1..Len(d) : Serial!Before(a[i], d[j])
    BY <2>4, <2>6, <2>7
  <2>9. Sorted(a \o d, transfers)
    BY <1>1, <2>5, <2>8, Concatenated, WithinBoth DEF Sorted
  <2> QED
    BY <1>4, <2>2, <2>9 DEF Serial!Ordered, Sorted, Within
<1>6. CASE Serial!ResetCheck /\ ~sio0_ctrl.SIO_RESET
  BY <1>4, <1>6 DEF Serial!ResetCheck, Serial!Ordered, Serial!Way
<1>7. CASE Serial!Collect
  <2>1. Serial!Way' = (<<>> \o b) \o (c \o d)
    BY <1>2, <1>7 DEF Serial!Collect, Serial!Way
  <2> HIDE DEF a, b, c, d
  <2>2. c \o d \in Seq(Serial!Bytes) /\ b \o (c \o d) \in Seq(Serial!Bytes)
    BY <1>1, ConcatProperties
  <2>3. Serial!Way' = b \o (c \o d) /\ Serial!Way = a \o (b \o (c \o d))
    <3>1. <<>> \o b = b
      BY <1>1, ConcatEmptySeq
    <3> DEFINE Group(s, t, u) == (s \o t) \o u = s \o (t \o u)
    <3>2. \A s, t, u \in Seq(Serial!Bytes) : Group(s, t, u)
      BY ConcatAssociative
    <3> HIDE DEF Group
    <3>3. Group(a, b, c \o d)
      BY <1>1, <2>2, <3>2, Zenon
    <3> QED
      BY <1>3, <2>1, <3>1, <3>3, Zenon DEF Group
  <2>4. Sorted(b \o (c \o d), transfers)
    <3> DEFINE rest == b \o (c \o d)
    <3>1. a \in Seq(Serial!Bytes) /\ rest \in Seq(Serial!Bytes) /\ Sorted(a \o rest, transfers)
      BY <1>1, <1>3, <2>2, <2>3
    <3> HIDE DEF rest
    <3>2. Sorted(rest, transfers)
      BY <3>1, SortedBoth
    <3> QED
      BY <3>2 DEF rest
  <2> QED
    BY <1>4, <2>3, <2>4 DEF Serial!Ordered, Sorted, Within
<1> QED
  BY <1>5, <1>6, <1>7

LEMMA Added ==
  ASSUME Serial!SioAssumption, Serial!TypeOK, Serial!Ordered, Serial!Send
  PROVE  Serial!Ordered' /\ fifo_tosio2' \in Seq(Serial!Bytes)
<1> DEFINE ab == Serial!BytesOf(fifo_fromsio2) \o Serial!BytesOf(response_queue)
<1> DEFINE c == command_queue
<1> DEFINE d == fifo_tosio2
<1>1. c \in Seq(Serial!Bytes) /\ d \in Seq(Serial!Bytes) /\ ab \in Seq(Serial!Bytes) /\ transfers \in Nat
  BY BytesOfAnswers, ConcatProperties DEF Serial!TypeOK
<1>2. PICK lengths \in Lengths : fifo_tosio2' = d \o Serial!BytesFor(lengths)
  BY DEF Serial!Send
<1>3. lengths \in [Serial!PortNumbers -> [CMDLEN : Nat, BUFSZ : Nat]]
  BY DEF Serial!SioAssumption
<1> DEFINE new == Serial!BytesFor(lengths)
<1>4. new \in Seq(Serial!Bytes) /\ Serial!Increasing(new)
      /\ \A i \in 1..Len(new) : new[i][1] = transfers + 1
  BY <1>1, <1>3, BytesSorted
<1>5. Serial!Way' = ab \o (c \o (d \o new)) /\ transfers' = transfers + 1
  BY <1>2 DEF Serial!Send, Serial!Way
<1>6. Serial!Way = ab \o (c \o d) /\ Sorted(Serial!Way, transfers)
  BY DEF Serial!Way, Serial!Ordered, Sorted, Within
<1> HIDE DEF ab, c, d, new
<1>7. c \o d \in Seq(Serial!Bytes) /\ d \o new \in Seq(Serial!Bytes) /\ Serial!Way \in Seq(Serial!Bytes)
  BY <1>1, <1>4, <1>6, ConcatProperties
<1>8. Serial!Way' = Serial!Way \o new
  <2> DEFINE Group(s, t, u) == (s \o t) \o u = s \o (t \o u)
  <2>1. \A s, t, u \in Seq(Serial!Bytes) : Group(s, t, u)
    BY ConcatAssociative
  <2> HIDE DEF Group
  <2>2. Group(c, d, new) /\ Group(ab, c \o d, new)
    BY <1>1, <1>4, <1>7, <2>1, Zenon
  <2> QED
    BY <1>5, <1>6, <2>2, Zenon DEF Group
<1>9. \A i \in 1..Len(Serial!Way), j \in 1..Len(new) : Serial!Before(Serial!Way[i], new[j])
  <2> SUFFICES ASSUME NEW i \in 1..Len(Serial!Way), NEW j \in 1..Len(new)
               PROVE  Serial!Way[i][1] < new[j][1]
    BY DEF Serial!Before
  <2>1. Serial!Way[i] \in Serial!Bytes
    BY <1>7, ElementOfSeq
  <2>2. Serial!Way[i][1] \in Nat
    BY <2>1 DEF Serial!Bytes
  <2>3. Serial!Way[i][1] <= transfers /\ new[j][1] = transfers + 1
    BY <1>4, <1>6 DEF Sorted, Within
  <2> QED
    BY <1>1, <2>2, <2>3
<1>10. Serial!Increasing(Serial!Way \o new)
  BY <1>4, <1>6, <1>7, <1>9, Concatenated DEF Sorted
<1>11. Within(Serial!Way, transfers + 1) /\ Within(new, transfers + 1)
  <2>1. \A i \in 1..Len(Serial!Way) : Serial!Way[i][1] \in Nat
    BY <1>7, ElementOfSeq DEF Serial!Bytes
  <2>2. Within(Serial!Way, transfers + 1)
    BY <1>1, <1>6, <2>1 DEF Sorted, Within
  <2>3. Within(new, transfers + 1)
    BY <1>1, <1>4 DEF Within
  <2> QED
    BY <2>2, <2>3
<1>12. Within(Serial!Way \o new, transfers + 1)
  BY <1>4, <1>7, <1>11, WithinBoth
<1> QED
  BY <1>2, <1>5, <1>7, <1>8, <1>10, <1>12 DEF Serial!Ordered, Within, d, new
-----------------------------------------------------------------------------
(* The steps of the two controllers and of the program.                    *)
LEMMA PortsInit ==
  ASSUME Serial!SioAssumption, Serial!Init
  PROVE  Serial!PortsInv
<1>1. 0 \in Serial!PortNumbers /\ 0 \in 0..Ports /\ Ports \in Nat \ {0} /\ OutCap \in Nat
  BY DEF Serial!SioAssumption, Serial!PortNumbers
<1>2. <<>> \in Seq(Serial!Bytes) /\ <<>> \in Seq(Serial!Answers) /\ Len(<<>>) = 0
  BY EmptySeq
<1>3. Serial!TypeOK
  <2>1. ctrl \in [DIRECTION : Serial!Directions, write_latch : BOOLEAN, started : BOOLEAN,
                 port : 0..Ports, count : Nat, direction : Serial!Directions]
    BY <1>1 DEF Serial!Init, Serial!Directions
  <2>2. ctrl3 \in [Serial!PortNumbers -> [length : [CMDLEN : Nat, BUFSZ : Nat],
                                  write_latch : BOOLEAN, started : BOOLEAN]]
    BY DEF Serial!Init
  <2>3. sio0_ctrl \in [SIO_RESET : BOOLEAN, PORT : Serial!PortNumbers] /\ stat \in Serial!Stats
    BY <1>1 DEF Serial!Init, Serial!Stats
  <2>4. 0 \in 0..MaxTransfers /\ "idle" \in Serial!Places
    BY DEF Serial!SioAssumption, Serial!Places
  <2> QED
    BY <1>2, <2>1, <2>2, <2>3, <2>4 DEF Serial!Init, Serial!TypeOK
<1>4. Serial!Phase /\ Serial!ReadyKnown
  BY DEF Serial!Init, Serial!Phase, Serial!ReadyKnown, Serial!At2, Serial!At0, Serial!SioAssumption
<1>5. Serial!Counted
  BY <1>1, <1>2 DEF Serial!Init, Serial!Counted, Serial!At2
<1>6. Serial!BytesOf(<<>>) = <<>>
  BY <1>2 DEF Serial!BytesOf
<1>7. Serial!Way = <<>>
  BY <1>2, <1>6, ConcatEmptySeq DEF Serial!Init, Serial!Way
<1>8. Serial!Ordered
  BY <1>2, <1>7 DEF Serial!Ordered, Serial!Increasing
<1> QED
  BY <1>3, <1>4, <1>5, <1>8 DEF Serial!PortsInv

LEMMA AskedStays ==
  ASSUME \A p \in Serial!PortNumbers : ctrl3'[p].length = ctrl3[p].length
  PROVE  Serial!Asked' = Serial!Asked /\ Serial!Total' = Serial!Total
<1>1. [p \in Serial!PortNumbers |-> ctrl3'[p].length.BUFSZ]
        = [p \in Serial!PortNumbers |-> ctrl3[p].length.BUFSZ]
  OBVIOUS
<1>2. Serial!Asked' = Serial!Asked
  BY <1>1 DEF Serial!Asked
<1> QED
  BY <1>2 DEF Serial!Total

LEMMA AskedSums ==
  ASSUME Serial!SioAssumption, Serial!TypeOK
  PROVE  /\ Serial!Asked \in [0..Ports -> Nat] /\ Serial!Asked[0] = 0
         /\ \A p \in Serial!PortNumbers : Serial!Asked[p + 1] = Serial!Asked[p] + ctrl3[p].length.BUFSZ
<1> DEFINE lengths == [p \in Serial!PortNumbers |-> ctrl3[p].length.BUFSZ]
<1>1. lengths \in [Serial!PortNumbers -> Nat]
  BY DEF Serial!TypeOK
<1>2. /\ Serial!AskedOf(lengths) \in [0..Ports -> Nat] /\ Serial!AskedOf(lengths)[0] = 0
      /\ \A p \in Serial!PortNumbers :
           Serial!AskedOf(lengths)[p + 1] = Serial!AskedOf(lengths)[p] + lengths[p]
  <2> HIDE DEF lengths
  <2> QED
    BY <1>1, AskedSum
<1>3. Serial!Asked = Serial!AskedOf(lengths)
  BY DEF Serial!Asked
<1> QED
  BY <1>2, <1>3

\* The SIO2.
PortStates == [length : [CMDLEN : Nat, BUFSZ : Nat], write_latch : BOOLEAN, started : BOOLEAN]
LEMMA PortWritten ==
  ASSUME Serial!SioAssumption, Serial!TypeOK, Serial!Phase, Serial!PortTransfer \/ Serial!NextPort
  PROVE  ctrl3' \in [Serial!PortNumbers -> PortStates]
         /\ \A p \in Serial!PortNumbers : ctrl3'[p].length = ctrl3[p].length
<1> DEFINE p == ctrl.port
<1>1. ctrl3 \in [Serial!PortNumbers -> PortStates]
  BY DEF Serial!TypeOK, PortStates
<1>5. ctrl.started => p \in Serial!PortNumbers
  <2>1. Ports \in Nat /\ ctrl.port \in 0..Ports /\ (ctrl.started => ctrl.port < Ports)
    BY DEF Serial!SioAssumption, Serial!TypeOK, Serial!Phase
  <2> QED
    BY <2>1 DEF Serial!PortNumbers
<1>2. CASE UNCHANGED ctrl3
  BY <1>1, <1>2
<1>3. CASE Serial!PortTransfer /\ ~Serial!Waits
  <2>1. p \in Serial!PortNumbers
    BY <1>3, <1>5 DEF Serial!Waits
  <2> DEFINE held == ctrl3[p].write_latch /\ ctrl3[p].started
  <2>2. held \in BOOLEAN
    OBVIOUS
  <2>3. ctrl3' = [ctrl3 EXCEPT ![p].started = TRUE, ![p].write_latch = held]
    BY <1>3 DEF Serial!PortTransfer
  <2> HIDE DEF held, p
  <2>4. \A q \in Serial!PortNumbers : ctrl3'[q] = IF q = p THEN [ctrl3[q] EXCEPT !.started = TRUE,
        !.write_latch = held]
                                           ELSE ctrl3[q]
    BY <1>1, <2>1, <2>3
  <2>5. \A port \in PortStates : /\ [port EXCEPT !.started = TRUE, !.write_latch = held] \in PortStates
                                 /\ [port EXCEPT !.started = TRUE,
                                    !.write_latch = held].length = port.length
    BY <2>2 DEF PortStates
  <2>6. DOMAIN ctrl3' = Serial!PortNumbers /\ ctrl3' = [q \in DOMAIN ctrl3' |-> ctrl3'[q]]
    BY <1>1, <2>3
  <2>7. \A q \in Serial!PortNumbers : ctrl3'[q] \in PortStates /\ ctrl3'[q].length = ctrl3[q].length
    BY <1>1, <2>4, <2>5
  <2> QED
    BY <2>6, <2>7
<1>4. CASE Serial!NextPort /\ Serial!Finished
  <2>1. p \in Serial!PortNumbers
    BY <1>4, <1>5 DEF Serial!NextPort, Serial!At2, Serial!Phase
  <2> DEFINE on == ctrl3[p].started /\ ctrl.direction # "RX"
  <2>2. on \in BOOLEAN
    OBVIOUS
  <2>3. ctrl3' = [ctrl3 EXCEPT ![p].started = on]
    BY <1>4 DEF Serial!NextPort
  <2> HIDE DEF on, p
  <2>4. \A q \in Serial!PortNumbers :
          ctrl3'[q] = IF q = p THEN [ctrl3[q] EXCEPT !.started = on] ELSE ctrl3[q]
    BY <1>1, <2>1, <2>3
  <2>5. \A port \in PortStates : /\ [port EXCEPT !.started = on] \in PortStates
                                 /\ [port EXCEPT !.started = on].length = port.length
    BY <2>2 DEF PortStates
  <2>6. DOMAIN ctrl3' = Serial!PortNumbers /\ ctrl3' = [q \in DOMAIN ctrl3' |-> ctrl3'[q]]
    BY <1>1, <2>3
  <2>7. \A q \in Serial!PortNumbers : ctrl3'[q] \in PortStates /\ ctrl3'[q].length = ctrl3[q].length
    BY <1>1, <2>4, <2>5
  <2> QED
    BY <2>6, <2>7
<1> QED
  BY <1>2, <1>3, <1>4 DEF Serial!PortTransfer, Serial!NextPort

LEMMA PlaceKept ==
  ASSUME Serial!TypeOK, NEW place \in Serial!Places, Serial!Goto2(place)
  PROVE  sio2' \in [at : Serial!Places, read : Serial!Stats, some : BOOLEAN]
BY DEF Serial!TypeOK, Serial!Goto2

LEMMA Sio2Types ==
  ASSUME Serial!SioAssumption, Serial!TypeOK, Serial!Phase, Serial!Sio2Step
  PROVE  Serial!TypeOK'
<1>1. Ports \in Nat \ {0} /\ 0 \in 0..Ports /\ \A p \in Serial!PortNumbers : p \in 0..Ports
      /\ p + 1 \in 0..Ports
  BY DEF Serial!SioAssumption, Serial!PortNumbers
<1>2. ctrl.started => ctrl.port \in Serial!PortNumbers
  BY <1>1 DEF Serial!Phase, Serial!TypeOK, Serial!PortNumbers
<1>3. CASE Serial!CtrlCheck
  <2>1. ctrl' \in [DIRECTION : Serial!Directions, write_latch : BOOLEAN, started : BOOLEAN,
                  port : 0..Ports, count : Nat, direction : Serial!Directions]
    <3>1. ctrl.DIRECTION \in Serial!Directions /\ "none" \in Serial!Directions
      BY DEF Serial!TypeOK, Serial!Directions
    <3>2. CASE ctrl.write_latch /\ ~ctrl.started
      <4>1. ctrl' = [DIRECTION |-> "none", write_latch |-> FALSE, started |-> TRUE,
                     port |-> 0, count |-> 0, direction |-> ctrl.DIRECTION]
        BY <1>3, <3>2 DEF Serial!CtrlCheck
      <4> QED
        BY <1>1, <3>1, <4>1
    <3>3. CASE ~(ctrl.write_latch /\ ~ctrl.started)
      BY <1>3, <3>3 DEF Serial!CtrlCheck, Serial!TypeOK
    <3> QED
      BY <3>2, <3>3
  <2>2. sio2' \in [at : Serial!Places, read : Serial!Stats, some : BOOLEAN]
    <3>1. PICK place \in {"reset", "port"} : Serial!Goto2(place)
      BY <1>3 DEF Serial!CtrlCheck
    <3> QED
      BY <3>1, PlaceKept DEF Serial!Places
  <2> QED
    BY <1>3, <2>1, <2>2 DEF Serial!CtrlCheck, Serial!TypeOK, Serial!queues, Serial!locks, Serial!progs
<1>4. CASE Serial!Sio0Reset
  <2>1. sio2' \in [at : Serial!Places, read : Serial!Stats, some : BOOLEAN]
    BY <1>4, PlaceKept DEF Serial!Sio0Reset, Serial!Places
  <2>2. sio0_ctrl' \in [SIO_RESET : BOOLEAN, PORT : Serial!PortNumbers]
    BY <1>4 DEF Serial!Sio0Reset, Serial!TypeOK
  <2> QED
    BY <1>4, <2>1, <2>2 DEF Serial!Sio0Reset, Serial!TypeOK, Serial!queues, Serial!locks, Serial!progs
<1>5. CASE Serial!PortTransfer
  <2>1. sio2' \in [at : Serial!Places, read : Serial!Stats, some : BOOLEAN]
    <3>1. PICK place \in {"idle", "send", "select", "receive", "next"} : Serial!Goto2(place)
      BY <1>5 DEF Serial!PortTransfer
    <3> QED
      BY <3>1, PlaceKept DEF Serial!Places
  <2>2. ctrl3' \in [Serial!PortNumbers -> [length : [CMDLEN : Nat, BUFSZ : Nat],
                                   write_latch : BOOLEAN, started : BOOLEAN]]
    BY <1>5, PortWritten DEF PortStates
  <2> QED
    BY <1>5, <2>1, <2>2 DEF Serial!PortTransfer, Serial!TypeOK, Serial!queues, Serial!locks,
       Serial!progs
<1>6. CASE Serial!SelectPort
  <2>1. sio2' \in [at : Serial!Places, read : Serial!Stats, some : BOOLEAN]
    BY <1>6, PlaceKept DEF Serial!SelectPort, Serial!Places
  <2>2. sio0_ctrl' \in [SIO_RESET : BOOLEAN, PORT : Serial!PortNumbers]
    BY <1>2, <1>6 DEF Serial!SelectPort, Serial!TypeOK, Serial!Phase, Serial!At2
  <2> QED
    BY <1>6, <2>1, <2>2 DEF Serial!SelectPort, Serial!TypeOK, Serial!queues, Serial!locks, Serial!progs
<1>7. CASE Serial!SendByte
  <2>1. Head(fifo_tosio2) \in Serial!Bytes /\ Tail(fifo_tosio2) \in Seq(Serial!Bytes)
    BY <1>7, HeadTailProperties DEF Serial!SendByte, Serial!TypeOK, Serial!Phase, Serial!At2
  <2>2. Append(command_queue, Head(fifo_tosio2)) \in Seq(Serial!Bytes)
    BY <2>1, AppendProperties DEF Serial!TypeOK
  <2>3. sio2' \in [at : Serial!Places, read : Serial!Stats, some : BOOLEAN]
    BY <1>7, PlaceKept DEF Serial!SendByte, Serial!Places
  <2> QED
    BY <1>7, <2>1, <2>2, <2>3 DEF Serial!SendByte, Serial!TypeOK, Serial!registers, Serial!locks,
       Serial!progs
<1>8. CASE Serial!ReceiveByte
  <2>1. response_queue' \in Seq(Serial!Answers) /\ fifo_fromsio2' \in Seq(Serial!Answers)
    <3>1. CASE response_queue = <<>>
      BY <1>8, <3>1 DEF Serial!ReceiveByte, Serial!TypeOK
    <3>2. CASE response_queue # <<>>
      <4>1. Head(response_queue) \in Serial!Answers /\ Tail(response_queue) \in Seq(Serial!Answers)
        BY <3>2, HeadTailProperties DEF Serial!TypeOK
      <4>2. Append(fifo_fromsio2, Head(response_queue)) \in Seq(Serial!Answers)
        BY <4>1, AppendProperties DEF Serial!TypeOK
      <4> QED
        BY <1>8, <3>2, <4>1, <4>2 DEF Serial!ReceiveByte
    <3> QED
      BY <3>1, <3>2
  <2>2. sio2' \in [at : Serial!Places, read : Serial!Stats, some : BOOLEAN]
    <3>1. PICK place \in {"failed", "received"} : Serial!Goto2(place)
      BY <1>8 DEF Serial!ReceiveByte
    <3> QED
      BY <3>1, PlaceKept DEF Serial!Places
  <2> QED
    BY <1>8, <2>1, <2>2 DEF Serial!ReceiveByte, Serial!TypeOK, Serial!registers, Serial!locks,
       Serial!progs
<1>9. CASE Serial!ReadStat
  <2>1. sio2' \in [at : Serial!Places, read : Serial!Stats, some : BOOLEAN] /\ stat_lock' = "sio2"
    BY <1>9 DEF Serial!ReadStat, Serial!TypeOK, Serial!Places
  <2> QED
    BY <1>9, <2>1 DEF Serial!ReadStat, Serial!TypeOK, Serial!registers, Serial!queues, Serial!progs
<1>10. CASE Serial!WriteStat
  <2>1. stat' \in Serial!Stats
    BY <1>10 DEF Serial!WriteStat, Serial!TypeOK, Serial!At2, Serial!Stats
  <2>2. ctrl' \in [DIRECTION : Serial!Directions, write_latch : BOOLEAN, started : BOOLEAN,
                  port : 0..Ports, count : Nat, direction : Serial!Directions]
    <3> DEFINE next == ctrl.count + 1
    <3>1. ctrl' = [ctrl EXCEPT !.count = next]
      BY <1>10 DEF Serial!WriteStat
    <3>2. next \in Nat
      BY DEF Serial!TypeOK
    <3> HIDE DEF next
    <3> QED
      BY <3>1, <3>2 DEF Serial!TypeOK
  <2>3. sio2' \in [at : Serial!Places, read : Serial!Stats, some : BOOLEAN]
    BY <1>10, PlaceKept DEF Serial!WriteStat, Serial!Places
  <2> QED
    BY <1>10, <2>1, <2>2, <2>3 DEF Serial!WriteStat, Serial!TypeOK, Serial!queues, Serial!progs
<1>11. CASE Serial!NextPort
  <2>1. ctrl' \in [DIRECTION : Serial!Directions, write_latch : BOOLEAN, started : BOOLEAN,
                   port : 0..Ports, count : Nat, direction : Serial!Directions]
    <3>1. (ctrl.port + 1 # Ports) \in BOOLEAN /\ ctrl.port + 1 \in 0..Ports
      BY <1>1, <1>2, <1>11 DEF Serial!NextPort, Serial!Phase, Serial!At2
    <3>2. CASE Serial!Finished
      <4> DEFINE on == ctrl.port + 1 # Ports
      <4> DEFINE next == ctrl.port + 1
      <4>1. ctrl' = [ctrl EXCEPT !.port = next, !.count = 0, !.started = on]
        BY <1>11, <3>2 DEF Serial!NextPort
      <4>2. on \in BOOLEAN
        OBVIOUS
      <4>3. next \in 0..Ports
        BY <3>1
      <4> HIDE DEF on, next
      <4> QED
        BY <4>1, <4>2, <4>3 DEF Serial!TypeOK
    <3>3. CASE ~Serial!Finished
      BY <1>11, <3>3 DEF Serial!NextPort, Serial!TypeOK
    <3> QED
      BY <3>2, <3>3
  <2>2. ctrl3' \in [Serial!PortNumbers -> [length : [CMDLEN : Nat, BUFSZ : Nat],
                                   write_latch : BOOLEAN, started : BOOLEAN]]
    BY <1>11, PortWritten DEF PortStates
  <2>3. intc' \in BOOLEAN
    BY <1>11 DEF Serial!NextPort, Serial!TypeOK
  <2>4. sio2' \in [at : Serial!Places, read : Serial!Stats, some : BOOLEAN]
    BY <1>11, PlaceKept DEF Serial!NextPort, Serial!Places
  <2> QED
    BY <1>11, <2>1, <2>2, <2>3, <2>4 DEF Serial!NextPort, Serial!TypeOK, Serial!queues, Serial!locks,
       Serial!progs
<1> QED
  BY <1>3, <1>4, <1>5, <1>6, <1>7, <1>8, <1>9, <1>10, <1>11 DEF Serial!Sio2Step

LEMMA Sio2Phase ==
  ASSUME Serial!SioAssumption, Serial!TypeOK, Serial!Phase, Serial!Sio2Step
  PROVE  Serial!Phase'
<1>1. Ports \in Nat \ {0}
  BY DEF Serial!SioAssumption
<1>2. CASE Serial!CtrlCheck
  BY <1>1, <1>2 DEF Serial!CtrlCheck, Serial!TypeOK, Serial!Phase, Serial!At2, Serial!Goto2,
     Serial!queues, Serial!locks, Serial!progs, Serial!Directions
<1>3. CASE Serial!Sio0Reset
  BY <1>3 DEF Serial!Sio0Reset, Serial!TypeOK, Serial!Phase, Serial!At2, Serial!Goto2, Serial!queues,
     Serial!locks, Serial!progs
<1>4. CASE Serial!PortTransfer
  BY <1>4 DEF Serial!PortTransfer, Serial!Waits, Serial!TypeOK, Serial!Phase, Serial!At2, Serial!Goto2,
     Serial!queues, Serial!locks, Serial!progs, Serial!Directions
<1>5. CASE Serial!SelectPort
  BY <1>5 DEF Serial!SelectPort, Serial!TypeOK, Serial!Phase, Serial!At2, Serial!Goto2, Serial!queues,
     Serial!locks, Serial!progs
<1>6. CASE Serial!SendByte
  BY <1>6 DEF Serial!SendByte, Serial!TypeOK, Serial!Phase, Serial!At2, Serial!Goto2, Serial!registers,
     Serial!locks, Serial!progs
<1>7. CASE Serial!ReceiveByte
  BY <1>7 DEF Serial!ReceiveByte, Serial!TypeOK, Serial!Phase, Serial!At2, Serial!Goto2,
     Serial!registers, Serial!locks, Serial!progs
<1>8. CASE Serial!ReadStat
  BY <1>8 DEF Serial!ReadStat, Serial!TypeOK, Serial!Phase, Serial!At2, Serial!registers,
     Serial!queues, Serial!progs
<1>9. CASE Serial!WriteStat
  BY <1>9 DEF Serial!WriteStat, Serial!TypeOK, Serial!Phase, Serial!At2, Serial!Goto2, Serial!queues,
     Serial!progs
<1>10. CASE Serial!NextPort
  <2>1. sio2'.at = "idle" /\ ctrl.started /\ ctrl.port < Ports /\ ctrl.port \in Nat
        /\ ctrl.direction # "none"
    BY <1>10 DEF Serial!NextPort, Serial!TypeOK, Serial!Phase, Serial!At2, Serial!Goto2
  <2>2. CASE Serial!Finished
    <3>1. /\ ctrl'.port = ctrl.port + 1 /\ ctrl'.started = (ctrl.port + 1 # Ports)
          /\ ctrl'.write_latch = ctrl.write_latch /\ ctrl'.DIRECTION = ctrl.DIRECTION
          /\ ctrl'.direction = ctrl.direction
          /\ intc' = (intc \/ (ctrl.direction = "RX" /\ ctrl.port + 1 = Ports))
          /\ UNCHANGED <<sio_program, transfers>>
      BY <1>10, <2>2 DEF Serial!NextPort, Serial!TypeOK, Serial!progs
    <3>2. ctrl'.started => ctrl'.port < Ports
      <4>1. ctrl.port + 1 # Ports => ctrl.port + 1 < Ports
        BY <1>1, <2>1
      <4> QED
        BY <3>1, <4>1
    <3>3. ctrl.write_latch \in BOOLEAN /\ intc \in BOOLEAN /\ sio_program \in {"send", "receive", "wait"}
      BY DEF Serial!TypeOK
    <3> QED
      BY <2>1, <3>1, <3>2, <3>3 DEF Serial!Phase
  <2>3. CASE ~Serial!Finished
    BY <1>10, <2>1, <2>3 DEF Serial!NextPort, Serial!Phase, Serial!queues, Serial!progs
  <2> QED
    BY <2>2, <2>3
<1> QED
  BY <1>2, <1>3, <1>4, <1>5, <1>6, <1>7, <1>8, <1>9, <1>10 DEF Serial!Sio2Step

LEMMA Sio2Ready ==
  ASSUME Serial!SioAssumption, Serial!TypeOK, Serial!Phase, Serial!ReadyKnown, Serial!Sio2Step
  PROVE  Serial!ReadyKnown'
<1>1. Nobody \notin {"sio0", "sio2"} /\ transfers \in Int
  BY DEF Serial!SioAssumption, Serial!TypeOK
<1>2. CASE Serial!CtrlCheck
  BY <1>1, <1>2 DEF Serial!CtrlCheck, Serial!TypeOK, Serial!ReadyKnown, Serial!Commanded, Serial!At2,
     Serial!At0, Serial!Goto2, Serial!queues, Serial!locks, Serial!progs
<1>3. CASE Serial!Sio0Reset
  BY <1>1, <1>3 DEF Serial!Sio0Reset, Serial!TypeOK, Serial!ReadyKnown, Serial!Commanded, Serial!Phase,
     Serial!At2, Serial!At0, Serial!Goto2, Serial!queues, Serial!locks, Serial!progs
<1>4. CASE Serial!PortTransfer
  <2>1. UNCHANGED <<ctrl, sio0_ctrl, stat, command_queue, stat_lock, sio0, transfers, discarded>>
    BY <1>4 DEF Serial!PortTransfer, Serial!queues, Serial!locks, Serial!progs
  <2>2. /\ sio2.at = "port" /\ sio2'.at \in {"idle", "next", "send", "select", "receive"}
        /\ sio2'.at \in {"send", "select"} => stat.TX_RDY1
    BY <1>4 DEF Serial!PortTransfer, Serial!TypeOK, Serial!At2, Serial!Goto2
  <2> QED
    BY <1>1, <2>1, <2>2 DEF Serial!ReadyKnown, Serial!Commanded, Serial!At2, Serial!At0
<1>5. CASE Serial!SelectPort
  BY <1>1, <1>5 DEF Serial!SelectPort, Serial!TypeOK, Serial!ReadyKnown, Serial!Commanded, Serial!At2,
     Serial!At0, Serial!Goto2, Serial!queues, Serial!locks, Serial!progs
<1>6. CASE Serial!SendByte
  BY <1>1, <1>6 DEF Serial!SendByte, Serial!TypeOK, Serial!ReadyKnown, Serial!Commanded, Serial!At2,
     Serial!At0, Serial!Goto2, Serial!registers, Serial!locks, Serial!progs
<1>7. CASE Serial!ReceiveByte
  <2>1. UNCHANGED <<ctrl, sio0_ctrl, stat, command_queue, stat_lock, sio0, transfers, discarded>>
    BY <1>7 DEF Serial!ReceiveByte, Serial!registers, Serial!locks, Serial!progs
  <2>2. sio2.at = "receive" /\ sio2'.at \in {"failed", "received"}
    BY <1>7 DEF Serial!ReceiveByte, Serial!TypeOK, Serial!At2, Serial!Goto2
  <2> QED
    BY <1>1, <2>1, <2>2 DEF Serial!ReadyKnown, Serial!Commanded, Serial!At2, Serial!At0
<1>8. CASE Serial!ReadStat
  BY <1>1, <1>8 DEF Serial!ReadStat, Serial!TypeOK, Serial!ReadyKnown, Serial!Commanded, Serial!At2,
     Serial!At0, Serial!registers, Serial!queues, Serial!progs
<1>9. CASE Serial!WriteStat
  BY <1>1, <1>9 DEF Serial!WriteStat, Serial!TypeOK, Serial!ReadyKnown, Serial!Commanded, Serial!At2,
     Serial!At0, Serial!Goto2, Serial!queues, Serial!progs, Serial!Stats
<1>10. CASE Serial!NextPort
  BY <1>1, <1>10 DEF Serial!NextPort, Serial!TypeOK, Serial!ReadyKnown, Serial!Commanded, Serial!At2,
     Serial!At0, Serial!Goto2, Serial!queues, Serial!locks, Serial!progs
<1> QED
  BY <1>2, <1>3, <1>4, <1>5, <1>6, <1>7, <1>8, <1>9, <1>10 DEF Serial!Sio2Step

LEMMA Sio2Counted ==
  ASSUME Serial!SioAssumption, Serial!TypeOK, Serial!Phase, Serial!Counted, Serial!Sio2Step
  PROVE  Serial!Counted'
<1>1. OutCap \in Nat /\ Len(fifo_fromsio2) \in Nat /\ ctrl.port \in 0..Ports /\ ctrl.count \in Nat
      /\ Ports \in Nat /\ (ctrl.started => ctrl.port \in Serial!PortNumbers)
  <2>1. OutCap \in Nat /\ ctrl.port \in 0..Ports /\ ctrl.count \in Nat /\ Ports \in Nat
    BY DEF Serial!SioAssumption, Serial!TypeOK
  <2>2. Len(fifo_fromsio2) \in Nat
    BY LenProperties DEF Serial!TypeOK
  <2>3. ctrl.started => ctrl.port \in Serial!PortNumbers
    BY <2>1 DEF Serial!Phase, Serial!PortNumbers
  <2> QED
    BY <2>1, <2>2, <2>3
<1>2. /\ Serial!Asked \in [0..Ports -> Nat] /\ Serial!Asked[0] = 0 /\ Serial!Total = Serial!Asked[Ports]
      /\ \A p \in Serial!PortNumbers : Serial!Asked[p + 1] = Serial!Asked[p] + ctrl3[p].length.BUFSZ
  BY AskedSums DEF Serial!Total
<1>3. Serial!Asked' = Serial!Asked /\ Serial!Total' = Serial!Total
  <2>1. CASE Serial!PortTransfer \/ Serial!NextPort
    BY <2>1, AskedStays, PortWritten
  <2>2. CASE UNCHANGED ctrl3
    BY <2>2, AskedStays
  <2> QED
    BY <2>1, <2>2 DEF Serial!Sio2Step, Serial!CtrlCheck, Serial!Sio0Reset, Serial!SelectPort,
       Serial!SendByte, Serial!ReceiveByte, Serial!ReadStat,
                      Serial!WriteStat, Serial!registers
<1>4. ASSUME UNCHANGED <<ctrl, sio_program, fifo_fromsio2>>, ~Serial!At2("receive")',
             sio2'.at \in {"received", "rx"} <=> sio2.at \in {"received", "rx"}
      PROVE  Serial!Counted'
  BY <1>3, <1>4 DEF Serial!Counted, Serial!Received, Serial!At2
<1>5. CASE Serial!CtrlCheck
  <2>1. UNCHANGED <<sio_program, fifo_fromsio2>> /\ sio2.at = "idle" /\ sio2'.at \in {"reset", "port"}
    BY <1>5 DEF Serial!CtrlCheck, Serial!At2, Serial!Goto2, Serial!queues, Serial!progs, Serial!TypeOK
  <2>2. CASE UNCHANGED ctrl
    BY <1>4, <2>1, <2>2 DEF Serial!At2
  <2>3. CASE ctrl.write_latch /\ ~ctrl.started
    <3>1. ctrl'.started /\ ctrl'.port = 0 /\ ctrl'.count = 0 /\ ~ctrl'.write_latch
      BY <1>5, <2>3 DEF Serial!CtrlCheck
    <3>2. Serial!Received' = 0
      BY <1>2, <1>3, <2>1, <3>1 DEF Serial!Received
    <3>3. Len(fifo_fromsio2) = 0
      BY <2>3 DEF Serial!Counted
    <3> QED
      BY <1>1, <2>1, <3>2, <3>3 DEF Serial!Counted, Serial!At2
  <2> QED
    BY <1>5, <2>2, <2>3 DEF Serial!CtrlCheck
<1>6. CASE Serial!Sio0Reset \/ Serial!SelectPort
  BY <1>4, <1>6 DEF Serial!Sio0Reset, Serial!SelectPort, Serial!At2, Serial!Goto2, Serial!queues,
     Serial!progs, Serial!TypeOK
<1>7. CASE Serial!PortTransfer
  <2>1. UNCHANGED <<ctrl, sio_program, fifo_fromsio2>> /\ sio2.at = "port"
        /\ sio2'.at \in {"idle", "next", "send", "select", "receive"}
        /\ (sio2'.at = "receive" => Len(fifo_fromsio2) # OutCap)
    BY <1>7 DEF Serial!PortTransfer, Serial!At2, Serial!Goto2, Serial!queues, Serial!progs,
       Serial!TypeOK
  <2> QED
    BY <1>1, <1>3, <2>1 DEF Serial!Counted, Serial!Received, Serial!At2
<1>8. CASE Serial!SendByte
  BY <1>4, <1>8 DEF Serial!SendByte, Serial!At2, Serial!Goto2, Serial!registers, Serial!progs,
     Serial!TypeOK
<1>9. CASE Serial!ReceiveByte
  <2>1. UNCHANGED <<ctrl, sio_program>> /\ sio2.at = "receive"
    BY <1>9 DEF Serial!ReceiveByte, Serial!At2, Serial!registers, Serial!progs
  <2>2. CASE response_queue = <<>>
    BY <1>4, <1>9, <2>1, <2>2 DEF Serial!ReceiveByte, Serial!At2, Serial!Goto2, Serial!TypeOK
  <2>3. CASE response_queue # <<>>
    <3>1. sio2'.at = "received" /\ fifo_fromsio2' = Append(fifo_fromsio2, Head(response_queue))
      BY <1>9, <2>3 DEF Serial!ReceiveByte, Serial!At2, Serial!Goto2, Serial!TypeOK
    <3>2. Len(fifo_fromsio2') = Len(fifo_fromsio2) + 1
      <4>1. Head(response_queue) \in Serial!Answers
        BY <2>3, HeadTailProperties DEF Serial!TypeOK
      <4> QED
        BY <3>1, <4>1, AppendProperties DEF Serial!TypeOK
    <3>3. sio_program = "wait" /\ ~ctrl.write_latch /\ ctrl.started
      BY <2>1 DEF Serial!Phase, Serial!TypeOK
    <3>4. Serial!Received' = Serial!Received + 1
      BY <1>1, <1>2, <1>3, <2>1, <3>1, <3>3 DEF Serial!Received
    <3>5. Len(fifo_fromsio2) = Serial!Received /\ Len(fifo_fromsio2) < OutCap
      BY <2>1, <3>3 DEF Serial!Counted, Serial!At2
    <3> QED
      BY <1>1, <2>1, <3>1, <3>2, <3>3, <3>4, <3>5 DEF Serial!Counted, Serial!At2
  <2> QED
    BY <2>2, <2>3
<1>10. CASE Serial!ReadStat
  BY <1>4, <1>10 DEF Serial!ReadStat, Serial!At2, Serial!registers, Serial!queues, Serial!progs,
     Serial!TypeOK
<1>11. CASE Serial!WriteStat
  <2>1. UNCHANGED <<sio_program, fifo_fromsio2>> /\ sio2.at \in {"tx", "rx"} /\ sio2'.at = "next"
        /\ ctrl' = [ctrl EXCEPT !.count = @ + 1]
    BY <1>11 DEF Serial!WriteStat, Serial!At2, Serial!Goto2, Serial!queues, Serial!progs, Serial!TypeOK
  <2>2. /\ ctrl'.count = ctrl.count + 1 /\ ctrl'.port = ctrl.port /\ ctrl'.started = ctrl.started
        /\ ctrl'.write_latch = ctrl.write_latch
    BY <2>1 DEF Serial!TypeOK
  <2>3. ctrl.started
    BY <2>1 DEF Serial!Phase
  <2>4. sio2.at = "tx" => ~(sio_program = "wait" /\ ~ctrl.write_latch)
    BY DEF Serial!Phase
  <2>5. sio2.at = "rx" => Serial!Received' = Serial!Received
    BY <1>1, <1>2, <1>3, <2>1, <2>2, <2>3 DEF Serial!Received
  <2> QED
    BY <1>1, <2>1, <2>2, <2>4, <2>5 DEF Serial!Counted, Serial!At2
<1>12. CASE Serial!NextPort
  <2>1. UNCHANGED <<sio_program, fifo_fromsio2>> /\ sio2.at = "next" /\ sio2'.at = "idle" /\ ctrl.started
    BY <1>12 DEF Serial!NextPort, Serial!At2, Serial!Goto2, Serial!queues, Serial!progs, Serial!TypeOK,
       Serial!Phase
  <2>2. CASE ~Serial!Finished
    BY <1>4, <1>12, <2>1, <2>2 DEF Serial!NextPort, Serial!At2
  <2>3. CASE Serial!Finished
    <3>1. /\ ctrl'.port = ctrl.port + 1 /\ ctrl'.count = 0 /\ ctrl'.started = (ctrl.port + 1 # Ports)
          /\ ctrl'.write_latch = ctrl.write_latch
      BY <1>12, <2>3 DEF Serial!NextPort, Serial!TypeOK
    <3>2. ASSUME sio_program = "wait", ~ctrl.write_latch
          PROVE  Serial!Received' = Serial!Received
      <4>1. ctrl.direction = "RX"
        BY <3>2 DEF Serial!Phase
      <4>2. ctrl.count = ctrl3[ctrl.port].length.BUFSZ
        BY <2>3, <4>1 DEF Serial!Finished, Serial!Length
      <4>3. Serial!Asked[ctrl.port + 1] = Serial!Asked[ctrl.port] + ctrl.count
        BY <1>1, <1>2, <2>1, <4>2
      <4>4. Serial!Received = Serial!Asked[ctrl.port + 1]
        BY <1>1, <1>2, <2>1, <4>3 DEF Serial!Received
      <4>5. CASE ctrl.port + 1 = Ports
        BY <1>2, <1>3, <2>1, <3>1, <4>4, <4>5 DEF Serial!Received
      <4>6. CASE ctrl.port + 1 # Ports
        <5>1. ctrl.port + 1 \in 0..Ports
          BY <1>1, <2>1 DEF Serial!PortNumbers
        <5>2. Serial!Received' = Serial!Asked[ctrl.port + 1] + 0 + 0
          BY <1>3, <2>1, <3>1, <4>6 DEF Serial!Received
        <5> QED
          BY <1>2, <4>4, <5>1, <5>2
      <4> QED
        BY <4>5, <4>6
    <3> QED
      BY <2>1, <3>1, <3>2 DEF Serial!Counted, Serial!At2
  <2> QED
    BY <2>2, <2>3
<1> QED
  BY <1>5, <1>6, <1>7, <1>8, <1>9, <1>10, <1>11, <1>12 DEF Serial!Sio2Step

LEMMA Sio2Order ==
  ASSUME Serial!TypeOK, Serial!Phase, Serial!Ordered, Serial!Sio2Step
  PROVE  Serial!Ordered'
<1>1. Serial!SendByte => fifo_tosio2 # <<>>
  BY DEF Serial!SendByte, Serial!Phase, Serial!At2
<1>2. Serial!SendByte \/ Serial!ReceiveByte \/ UNCHANGED <<Serial!queues, transfers>>
  BY DEF Serial!Sio2Step, Serial!CtrlCheck, Serial!Sio0Reset, Serial!PortTransfer, Serial!SelectPort,
     Serial!ReadStat, Serial!WriteStat, Serial!NextPort, Serial!progs
<1> QED
  BY <1>1, <1>2, Moved

\* The SIO0.
LEMMA Sio0Inv ==
  ASSUME Serial!SioAssumption, Serial!PortsInv, Serial!Sio0Step
  PROVE  Serial!PortsInv'
<1>1. /\ Serial!TypeOK /\ Serial!Phase /\ Serial!Counted /\ Serial!Ordered /\ Serial!ReadyKnown
          /\ Nobody \notin {"sio0", "sio2"}
      /\ transfers \in Int
  BY DEF Serial!PortsInv, Serial!SioAssumption, Serial!TypeOK
<1>2. <<>> \in Seq(Serial!Bytes) /\ <<>> \in Seq(Serial!Answers) /\ Len(command_queue) \in Nat
  BY <1>1, EmptySeq, LenProperties DEF Serial!TypeOK
<1>3. UNCHANGED <<ctrl, ctrl3, fifo_tosio2, fifo_fromsio2, sio2, intc, sio_program, transfers>>
  BY DEF Serial!Sio0Step, Serial!ResetCheck, Serial!Look, Serial!SetReady, Serial!Answer,
     Serial!TellAnswer, Serial!registers, Serial!queues, Serial!progs
<1>4. Serial!Phase' /\ Serial!Counted'
  <2>1. Serial!Asked' = Serial!Asked /\ Serial!Total' = Serial!Total
    BY <1>3, AskedStays
  <2> QED
    BY <1>1, <1>3, <2>1 DEF Serial!Phase, Serial!Counted, Serial!Received, Serial!At2
<1>5. Serial!Ordered'
  <2>1. Serial!ResetCheck \/ Serial!Answer \/ UNCHANGED <<Serial!queues, transfers>>
    BY DEF Serial!Sio0Step, Serial!Look, Serial!SetReady, Serial!TellAnswer, Serial!progs
  <2> QED
    BY <1>1, <2>1, Moved, ThrownAway
<1>6. CASE Serial!ResetCheck
  <2>1. Serial!TypeOK'
    <3>1. /\ command_queue' \in Seq(Serial!Bytes) /\ response_queue' \in Seq(Serial!Answers)
              /\ stat' \in Serial!Stats
          /\ sio0_ctrl' \in [SIO_RESET : BOOLEAN, PORT : Serial!PortNumbers] /\ discarded' \in Nat
      <4>1. CASE sio0_ctrl.SIO_RESET
        <5>1. /\ command_queue' = <<>> /\ response_queue' = <<>> /\ stat' = [stat EXCEPT !.TX_RDY1 = TRUE]
              /\ sio0_ctrl' = [sio0_ctrl EXCEPT !.SIO_RESET = FALSE]
              /\ discarded' = discarded + Len(command_queue)
          BY <1>6, <4>1 DEF Serial!ResetCheck
        <5>2. discarded' \in Nat
          BY <1>1, <1>2, <5>1 DEF Serial!TypeOK
        <5>3. stat' \in Serial!Stats /\ sio0_ctrl' \in [SIO_RESET : BOOLEAN, PORT : Serial!PortNumbers]
          BY <1>1, <5>1 DEF Serial!TypeOK, Serial!Stats
        <5> QED
          BY <1>2, <5>1, <5>2, <5>3
      <4>2. CASE ~sio0_ctrl.SIO_RESET
        BY <1>1, <1>6, <4>2 DEF Serial!ResetCheck, Serial!TypeOK
      <4> QED
        BY <4>1, <4>2
    <3>2. sio0' \in [at : {"idle", "transfer", "ready", "answered"}, read : Serial!Stats]
      BY <1>1, <1>6 DEF Serial!ResetCheck, Serial!TypeOK, Serial!Goto0
    <3>3. ctrl_lock' = "sio0" /\ UNCHANGED stat_lock
      BY <1>6 DEF Serial!ResetCheck
    <3> QED
      BY <1>1, <1>3, <3>1, <3>2, <3>3 DEF Serial!TypeOK
  <2>2. Serial!ReadyKnown'
    BY <1>1, <1>2, <1>3, <1>6 DEF Serial!ResetCheck, Serial!TypeOK, Serial!ReadyKnown,
       Serial!Commanded, Serial!At2, Serial!At0, Serial!Goto0, Serial!Stats
  <2> QED
    BY <1>4, <1>5, <2>1, <2>2 DEF Serial!PortsInv
<1>7. CASE Serial!Look
  <2>1. stat' \in Serial!Stats
        /\ sio0' \in [at : {"idle", "transfer", "ready", "answered"}, read : Serial!Stats]
    BY <1>1, <1>7 DEF Serial!Look, Serial!TypeOK, Serial!Goto0, Serial!Stats
  <2>2. UNCHANGED <<sio0_ctrl, command_queue, response_queue, stat_lock, discarded>>
        /\ ctrl_lock' \in {ctrl_lock, Nobody}
    BY <1>7 DEF Serial!Look, Serial!registers, Serial!queues, Serial!locks, Serial!progs
  <2>3. Serial!TypeOK'
    BY <1>1, <1>3, <2>1, <2>2 DEF Serial!TypeOK
  <2>4. Serial!ReadyKnown'
    BY <1>1, <1>3, <1>7, <2>2 DEF Serial!Look, Serial!TypeOK, Serial!ReadyKnown, Serial!Commanded,
       Serial!At2, Serial!At0, Serial!Goto0, Serial!Stats
  <2> QED
    BY <1>4, <1>5, <2>3, <2>4 DEF Serial!PortsInv
<1>8. CASE Serial!SetReady
  <2>1. stat' \in Serial!Stats
        /\ sio0' \in [at : {"idle", "transfer", "ready", "answered"}, read : Serial!Stats]
    BY <1>1, <1>8 DEF Serial!SetReady, Serial!TypeOK, Serial!Goto0, Serial!Stats
  <2>2. UNCHANGED <<sio0_ctrl, command_queue, response_queue, stat_lock, discarded>>
        /\ ctrl_lock' \in {ctrl_lock, Nobody}
    BY <1>8 DEF Serial!SetReady, Serial!registers, Serial!queues, Serial!locks, Serial!progs
  <2>3. Serial!TypeOK'
    BY <1>1, <1>3, <2>1, <2>2 DEF Serial!TypeOK
  <2>4. Serial!ReadyKnown'
    BY <1>1, <1>3, <1>8, <2>2 DEF Serial!SetReady, Serial!TypeOK, Serial!ReadyKnown, Serial!Commanded,
       Serial!At2, Serial!At0, Serial!Goto0, Serial!Stats
  <2> QED
    BY <1>4, <1>5, <2>3, <2>4 DEF Serial!PortsInv
<1>9. CASE Serial!Answer
  <2>1. Head(command_queue) \in Serial!Bytes /\ Tail(command_queue) \in Seq(Serial!Bytes)
    BY <1>1, <1>9, HeadTailProperties DEF Serial!Answer, Serial!TypeOK
  <2> DEFINE answer == [byte |-> Head(command_queue), port |-> sio0_ctrl.PORT]
  <2>2. answer \in Serial!Answers
    BY <1>1, <2>1 DEF Serial!Answers, Serial!TypeOK
  <2>3. Append(response_queue, answer) \in Seq(Serial!Answers)
    <3> HIDE DEF answer
    <3> QED
      BY <1>1, <2>2, AppendProperties DEF Serial!TypeOK
  <2>4. response_queue' \in Seq(Serial!Answers) /\ command_queue' \in Seq(Serial!Bytes)
    BY <1>9, <2>1, <2>3 DEF Serial!Answer
  <2>5. Serial!TypeOK'
    BY <1>1, <1>3, <1>9, <2>4 DEF Serial!Answer, Serial!TypeOK, Serial!Goto0, Serial!registers,
       Serial!locks, Serial!progs
  <2>6. Serial!ReadyKnown'
    BY <1>1, <1>3, <1>9 DEF Serial!Answer, Serial!TypeOK, Serial!ReadyKnown, Serial!Commanded,
       Serial!At2, Serial!At0, Serial!Goto0, Serial!registers, Serial!locks
  <2> QED
    BY <1>4, <1>5, <2>5, <2>6 DEF Serial!PortsInv
<1>10. CASE Serial!TellAnswer
  <2>1. stat' \in Serial!Stats
        /\ sio0' \in [at : {"idle", "transfer", "ready", "answered"}, read : Serial!Stats]
    BY <1>1, <1>10 DEF Serial!TellAnswer, Serial!TypeOK, Serial!Goto0, Serial!Stats
  <2>2. UNCHANGED <<sio0_ctrl, command_queue, response_queue, stat_lock, discarded>>
        /\ ctrl_lock' \in {ctrl_lock, Nobody}
    BY <1>10 DEF Serial!TellAnswer, Serial!registers, Serial!queues, Serial!locks, Serial!progs
  <2>3. Serial!TypeOK'
    BY <1>1, <1>3, <2>1, <2>2 DEF Serial!TypeOK
  <2>4. Serial!ReadyKnown'
    BY <1>1, <1>3, <1>10, <2>2 DEF Serial!TellAnswer, Serial!TypeOK, Serial!ReadyKnown,
       Serial!Commanded, Serial!At2, Serial!At0, Serial!Goto0, Serial!Stats
  <2> QED
    BY <1>4, <1>5, <2>3, <2>4 DEF Serial!PortsInv
<1> QED
  BY <1>6, <1>7, <1>8, <1>9, <1>10 DEF Serial!Sio0Step

\* The program.
LEMMA ProgramInv ==
  ASSUME Serial!SioAssumption, Serial!PortsInv, Serial!Program
  PROVE  Serial!PortsInv'
<1>1. /\ Serial!TypeOK /\ Serial!Phase /\ Serial!Counted /\ Serial!Ordered /\ Serial!ReadyKnown
      /\ transfers \in Nat /\ OutCap \in Nat /\ MaxTransfers \in Nat /\ ctrl.write_latch \in BOOLEAN
  BY DEF Serial!PortsInv, Serial!SioAssumption, Serial!TypeOK
<1>2. <<>> \in Seq(Serial!Answers) /\ Len(<<>>) = 0
  BY EmptySeq
<1>3. CASE Serial!Send
  <2>1. Serial!Ordered' /\ fifo_tosio2' \in Seq(Serial!Bytes)
    BY <1>1, <1>3, Added
  <2>2. /\ sio_program = "send" /\ sio_program' = "receive" /\ transfers < MaxTransfers
            /\ transfers' = transfers + 1
        /\ sio2.at = "idle" /\ ctrl' = [ctrl EXCEPT !.DIRECTION = "TX", !.write_latch = TRUE]
            /\ discarded' = 0
        /\ UNCHANGED <<sio0_ctrl, stat, command_queue, response_queue, fifo_fromsio2, Serial!locks,
           sio2, sio0, intc>>
    BY <1>3 DEF Serial!Send, Serial!Free, Serial!At2, Serial!WriteCtrl
  <2>3. ctrl3' \in [Serial!PortNumbers -> [length : [CMDLEN : Nat, BUFSZ : Nat],
                                   write_latch : BOOLEAN, started : BOOLEAN]]
    <3>1. PICK lengths \in Lengths :
            ctrl3' = [p \in Serial!PortNumbers |->
                         [ctrl3[p] EXCEPT !.length = lengths[p], !.write_latch = TRUE]]
      BY <1>3 DEF Serial!Send
    <3>2. \A p \in Serial!PortNumbers : lengths[p] \in [CMDLEN : Nat, BUFSZ : Nat]
      BY DEF Serial!SioAssumption
    <3> QED
      <4>1. \A new \in [CMDLEN : Nat, BUFSZ : Nat], old \in PortStates :
              [old EXCEPT !.length = new, !.write_latch = TRUE] \in PortStates
        BY DEF PortStates
      <4>2. \A p \in Serial!PortNumbers : ctrl3[p] \in PortStates
        BY <1>1 DEF Serial!TypeOK, PortStates
      <4>3. \A p \in Serial!PortNumbers : [ctrl3[p] EXCEPT !.length = lengths[p],
            !.write_latch = TRUE] \in PortStates
        BY <3>2, <4>1, <4>2
      <4> QED
        BY <3>1, <4>3 DEF PortStates
  <2>4. ctrl' \in [DIRECTION : Serial!Directions, write_latch : BOOLEAN, started : BOOLEAN,
                  port : 0..Ports, count : Nat, direction : Serial!Directions]
        /\ ctrl'.DIRECTION = "TX" /\ ctrl'.write_latch /\ ctrl'.started = ctrl.started
        /\ ctrl'.direction = ctrl.direction /\ ctrl'.port = ctrl.port
    BY <1>1, <2>2 DEF Serial!TypeOK, Serial!Directions
  <2>5. transfers' \in 0..MaxTransfers /\ transfers' # 0
    BY <1>1, <2>2
  <2>6. Serial!TypeOK'
    BY <1>1, <2>1, <2>2, <2>3, <2>4, <2>5 DEF Serial!TypeOK, Serial!locks
  <2>7. Serial!Phase'
    BY <1>1, <2>2, <2>4, <2>5 DEF Serial!Phase
  <2>8. Serial!Counted'
    BY <1>1, <2>2, <2>4 DEF Serial!Counted, Serial!Phase, Serial!At2
  <2>9. transfers' <= 1 => transfers = 0
    BY <1>1, <2>2
  <2>10. Serial!ReadyKnown'
    BY <1>1, <2>2, <2>4, <2>9 DEF Serial!ReadyKnown, Serial!Commanded, Serial!At2, Serial!At0,
       Serial!locks
  <2> QED
    BY <2>1, <2>6, <2>7, <2>8, <2>10 DEF Serial!PortsInv
<1>4. CASE Serial!Receive
  <2>1. /\ sio_program = "receive" /\ sio_program' = "wait" /\ sio2.at = "idle" /\ ~ctrl.write_latch
        /\ ctrl' = [ctrl EXCEPT !.DIRECTION = "RX", !.write_latch = TRUE]
        /\ UNCHANGED <<ctrl3, sio0_ctrl, stat, Serial!queues, Serial!locks, sio2, sio0, intc,
           transfers, discarded>>
    BY <1>4 DEF Serial!Receive, Serial!Free, Serial!At2, Serial!WriteCtrl
  <2>2. ctrl' \in [DIRECTION : Serial!Directions, write_latch : BOOLEAN, started : BOOLEAN,
                  port : 0..Ports, count : Nat, direction : Serial!Directions]
        /\ ctrl'.DIRECTION = "RX" /\ ctrl'.write_latch /\ ctrl'.started = ctrl.started
        /\ ctrl'.direction = ctrl.direction /\ ctrl'.port = ctrl.port
    BY <1>1, <2>1 DEF Serial!TypeOK, Serial!Directions
  <2>3. Serial!TypeOK'
    BY <1>1, <2>1, <2>2 DEF Serial!TypeOK, Serial!queues, Serial!locks
  <2>4. Serial!Phase'
    BY <1>1, <2>1, <2>2 DEF Serial!Phase, Serial!queues
  <2>5. Serial!Counted'
    BY <1>1, <2>1, <2>2 DEF Serial!Counted, Serial!At2, Serial!queues
  <2>6. Serial!ReadyKnown'
    BY <1>1, <2>1, <2>2 DEF Serial!ReadyKnown, Serial!Commanded, Serial!At2, Serial!At0, Serial!queues,
       Serial!locks
  <2>7. Serial!Ordered'
    BY <1>1, <2>1, Moved
  <2> QED
    BY <2>3, <2>4, <2>5, <2>6, <2>7 DEF Serial!PortsInv
<1>5. CASE Serial!Collect
  <2>1. /\ sio_program = "wait" /\ intc /\ ~intc' /\ sio_program' = "send" /\ fifo_fromsio2' = <<>>
        /\ UNCHANGED <<Serial!registers, stat, command_queue, response_queue, fifo_tosio2,
           Serial!locks, sio2, sio0,
                      transfers, discarded>>
    BY <1>5 DEF Serial!Collect
  <2>2. Serial!TypeOK'
    <3>1. /\ ctrl' = ctrl /\ ctrl3' = ctrl3 /\ sio0_ctrl' = sio0_ctrl /\ stat' = stat
          /\ ctrl_lock' = ctrl_lock /\ stat_lock' = stat_lock /\ sio2' = sio2 /\ sio0' = sio0
          /\ command_queue' = command_queue /\ response_queue' = response_queue
          /\ fifo_tosio2' = fifo_tosio2 /\ transfers' = transfers /\ discarded' = discarded
      BY <2>1 DEF Serial!registers, Serial!locks
    <3>2. fifo_fromsio2' \in Seq(Serial!Answers) /\ intc' \in BOOLEAN
          /\ sio_program' \in {"send", "receive", "wait"}
      BY <1>2, <1>5 DEF Serial!Collect
    <3> QED
      BY <1>1, <3>1, <3>2 DEF Serial!TypeOK
  <2>3. Serial!Phase'
    BY <1>1, <2>1 DEF Serial!Phase, Serial!registers
  <2>4. Serial!Counted'
    BY <1>1, <1>2, <2>1 DEF Serial!Counted, Serial!At2, Serial!registers, Serial!SioAssumption
  <2>5. Serial!ReadyKnown'
    BY <1>1, <2>1 DEF Serial!ReadyKnown, Serial!Commanded, Serial!At2, Serial!At0, Serial!registers,
       Serial!locks
  <2>6. Serial!Ordered'
    BY <1>1, <1>5, ThrownAway
  <2> QED
    BY <2>2, <2>3, <2>4, <2>5, <2>6 DEF Serial!PortsInv
<1> QED
  BY <1>3, <1>4, <1>5 DEF Serial!Program

LEMMA PortsStep ==
  ASSUME Serial!SioAssumption, Serial!PortsInv, [Serial!Next]_(Serial!vars)
  PROVE  Serial!PortsInv'
<1>1. CASE Serial!Sio2Step
  BY <1>1, Sio2Types, Sio2Phase, Sio2Counted, Sio2Order, Sio2Ready DEF Serial!PortsInv
<1>2. CASE Serial!Sio0Step
  BY <1>2, Sio0Inv
<1>3. CASE Serial!Program
  BY <1>3, ProgramInv
<1>4. CASE UNCHANGED Serial!vars
  <2>1. UNCHANGED <<Serial!queues, transfers>> /\ UNCHANGED ctrl3
    BY <1>4 DEF Serial!vars, Serial!progs, Serial!registers
  <2>2. Serial!Asked' = Serial!Asked /\ Serial!Total' = Serial!Total
    BY <2>1, AskedStays
  <2>3. Serial!TypeOK'
    <3>1. /\ ctrl' = ctrl /\ ctrl3' = ctrl3 /\ sio0_ctrl' = sio0_ctrl /\ stat' = stat
          /\ ctrl_lock' = ctrl_lock /\ stat_lock' = stat_lock /\ sio2' = sio2 /\ sio0' = sio0
          /\ command_queue' = command_queue /\ response_queue' = response_queue
          /\ fifo_tosio2' = fifo_tosio2 /\ fifo_fromsio2' = fifo_fromsio2
          /\ intc' = intc /\ sio_program' = sio_program /\ transfers' = transfers
              /\ discarded' = discarded
      BY <1>4 DEF Serial!vars, Serial!registers, Serial!queues, Serial!locks, Serial!progs
    <3>2. Serial!TypeOK
      BY DEF Serial!PortsInv
    <3> QED
      BY <3>1, <3>2 DEF Serial!TypeOK
  <2>4. Serial!Phase' /\ Serial!ReadyKnown'
    BY <1>4 DEF Serial!PortsInv, Serial!Phase, Serial!ReadyKnown, Serial!Commanded, Serial!At2,
       Serial!At0, Serial!vars, Serial!registers, Serial!queues, Serial!locks, Serial!progs
  <2>5. Serial!Counted'
    BY <1>4, <2>2 DEF Serial!PortsInv, Serial!Counted, Serial!Received, Serial!At2, Serial!vars,
       Serial!registers, Serial!queues, Serial!progs
  <2>6. Serial!Ordered'
    BY <2>1, Moved DEF Serial!PortsInv
  <2> QED
    BY <2>3, <2>4, <2>5, <2>6 DEF Serial!PortsInv
<1> QED
  BY <1>1, <1>2, <1>3, <1>4 DEF Serial!Next

LEMMA PortsAnswered ==
  ASSUME Serial!PortsInv
  PROVE  Serial!AnswersInOrder /\ Serial!FirstTransferWhole
<1>1. intc => Len(fifo_fromsio2) = Serial!Total
  BY DEF Serial!PortsInv, Serial!Phase, Serial!Counted, Serial!Received
<1>2. \A i \in 2..Len(fifo_fromsio2) : Serial!Before(fifo_fromsio2[i - 1].byte, fifo_fromsio2[i].byte)
  <2> DEFINE a == Serial!BytesOf(fifo_fromsio2)
  <2> DEFINE ab == a \o Serial!BytesOf(response_queue)
  <2> DEFINE cd == command_queue \o fifo_tosio2
  <2>1. /\ a \in Seq(Serial!Bytes) /\ Serial!BytesOf(response_queue) \in Seq(Serial!Bytes)
            /\ Len(a) = Len(fifo_fromsio2)
        /\ Len(fifo_fromsio2) \in Nat /\ \A i \in 1..Len(fifo_fromsio2) : a[i] = fifo_fromsio2[i].byte
    BY BytesOfAnswers, LenProperties DEF Serial!PortsInv, Serial!TypeOK
  <2>2. ab \in Seq(Serial!Bytes) /\ cd \in Seq(Serial!Bytes)
    <3> HIDE DEF a
    <3> QED
      BY <2>1, ConcatProperties DEF Serial!PortsInv, Serial!TypeOK
  <2>3. Serial!Increasing(ab \o cd)
    BY DEF Serial!PortsInv, Serial!Ordered, Serial!Way
  <2>4. Serial!Increasing(a)
    <3> HIDE DEF a, cd
    <3>1. Serial!Increasing(ab)
      <4> HIDE DEF ab
      <4> QED
        BY <2>2, <2>3, Concatenated
    <3> QED
      BY <2>1, <3>1, Concatenated
  <2> HIDE DEF a
  <2> SUFFICES ASSUME NEW i \in 2..Len(fifo_fromsio2)
               PROVE  Serial!Before(fifo_fromsio2[i - 1].byte, fifo_fromsio2[i].byte)
    OBVIOUS
  <2>5. i - 1 \in 1..Len(a) /\ i \in 1..Len(a) /\ i - 1 < i
    BY <2>1
  <2> QED
    BY <2>1, <2>4, <2>5 DEF Serial!Increasing
<1>3. Serial!FirstTransferWhole
  BY DEF Serial!PortsInv, Serial!ReadyKnown, Serial!FirstTransferWhole
<1> QED
  BY <1>1, <1>2, <1>3 DEF Serial!AnswersInOrder

(* Whatever the ports, the lengths of their commands and answers and the   *)
(* capacity of the queue are, and however the two controllers and the      *)
(* program take their turns: the interrupt announces every answer, in the  *)
(* order of the bytes sent, although STAT is read and written back by both *)
(* controllers and one of them takes no lock (CSio0.cpp:100-138,           *)
(* CSio2.cpp:138-233); and in the first transfer the reset finds nothing   *)
(* to discard (CSio0.cpp:80-82).                                           *)
THEOREM PortsInvariance == SpecDevices => []PortsAnswer
<1>1. InitDevices => Serial!PortsInv
  BY SerialAssumption, PortsInit DEF InitDevices
<1>2. Serial!PortsInv /\ [NextDevices]_all => Serial!PortsInv'
  <2>1. UNCHANGED serial_vars => UNCHANGED Serial!vars
    BY DEF serial_vars, Serial!vars, Serial!registers, Serial!queues, Serial!locks, Serial!progs
  <2>2. [NextDevices]_all => [Serial!Next]_(Serial!vars)
    BY <2>1 DEF NextDevices, OfCore, OfCdvd, OfSio, OfSpu2, all
  <2> QED
    BY <2>2, SerialAssumption, PortsStep
<1>3. Serial!PortsInv => PortsAnswer
  BY PortsAnswered DEF PortsAnswer
<1> QED
  BY <1>1, <1>2, <1>3, PTL DEF SpecDevices
=============================================================================
