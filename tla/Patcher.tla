------------------------------ MODULE Patcher ------------------------------
(***************************************************************************)
(* Exterminator's repair cycle: replicas of one program run over heaps with *)
(* their own random layout and stop at the same allocation (DH_DEATHTIME);  *)
(* each dumps its heap; the patcher compares the images, isolates buffer    *)
(* overflows and dangling pointers, and rewrites the patch file.            *)
(*                                                                          *)
(* One size class of Elements slots is modelled.  A slot holds Words words  *)
(* of eight nibbles, least significant first; a byte is two nibbles.        *)
(* Assertions are on (CXXFLAGS=-g): a failed one ends the patcher.          *)
(***************************************************************************)
EXTENDS Integers, FiniteSets, Sequences, SequencesExt, Bitwise

CONSTANTS
  NumReplicas,   \* images compared
  Elements,      \* slots of the partition
  Words,         \* words of a slot
  Locations,     \* sequences of return addresses [lib |-> , pc |-> ]
  FreeLocation,  \* where the program frees
  ContentAt,     \* ContentAt[l]: what the program stores in objects of l
  Lengths,       \* lengths of overflows, in bytes
  HASH_SIZE,
  ShiftBits, SiteModulus, STACK_DEPTH, \* of get_callsite
  Sure,          \* scores <<h, t>> that eval_probability finds too unlikely
  SureStatic,    \* the same for the sums kept in the patch file
  Schedules,     \* bound: sequences of operations per round
  MaxObjects,    \* bound: objects
  MaxErrors,     \* bound: errors of the program in one round
  MaxFrees       \* bound: frees in one round

ASSUME PatcherAssumption ==
  /\ NumReplicas \in Nat \ {0} /\ Elements \in Nat \ {0} /\ Words \in Nat \ {0}
  /\ HASH_SIZE \in Nat \ {0}

Replicas == 0 .. NumReplicas - 1

VARIABLES
  pc,      \* where the round is: "run", then the patcher's phases
  round,
  img,     \* the heap of each replica
  objs,    \* history: the objects of the program, by allocation id
  ops, errors, \* history: operations and errors of this round
  db,      \* the patcher's maps (patch_db.cpp)
  file,    \* the patch file: a sequence of words
  opsInRound \* bound: operations of the program, round by round

vars == <<pc, round, img, objs, ops, errors, db, file, opsInRound>>

----------------------------------------------------------------------------
(* Call sites *)

\* Shared libraries are loaded at an address of their own in every replica.
dl_base(r) == 4 + r

pcIn(r, frame) == IF frame.lib THEN dl_base(r) + frame.pc ELSE frame.pc

normalizedRaw(r, p) == p
normalized(r, p) == IF p > dl_base(r) THEN p - dl_base(r) ELSE p

\* The innermost STACK_DEPTH return addresses, folded into a word.
get_callsite(r, location) ==
  FoldLeft(LAMBDA ret, frame :
             ((ret * 2 ^ ShiftBits) % SiteModulus) ^^ normalized(r, pcIn(r, frame)),
           0, SubSeq(location, 1, Min({STACK_DEPTH, Len(location)})))

SiteIn == [r \in Replicas, l \in Locations \cup {FreeLocation} |-> get_callsite(r, l)]

----------------------------------------------------------------------------
(* Heap images *)

DX == 0 .. Elements - 1
WordIndices == 0 .. Words - 1
Nibbles == 0 .. 8 * Words - 1

Filled(v) == [x \in Nibbles |-> v]
SentinelNibble(r) == 4 + r
Sentinels == [r \in Replicas |-> Filled(SentinelNibble(r))]

\* A pointer to the start of slot dx, as it looks in replica r.
PointerTo(r, dx) == [x \in Nibbles |-> CASE x % 8 = 0 -> 0
                                         [] x % 8 = 1 -> dx
                                         [] OTHER -> 10 + r]

\* A pointer into a library, as it looks in replica r.
LibPointer(r) == [x \in Nibbles |-> IF x % 8 < 2 THEN 9 ELSE 13 + r]

Word(mem, i) == [x \in 0 .. 7 |-> mem[8 * i + x]]
SentinelWord == [r \in Replicas |-> Word(Sentinels[r], 0)]
LibWord == [r \in Replicas |-> Word(LibPointer(r), 0)]

EmptyImage(r) ==
  [id |-> [d \in DX |-> 0], alloc |-> [d \in DX |-> 0],
   free |-> [d \in DX |-> 0], ftime |-> [d \in DX |-> 0],
   live |-> {}, data |-> {}, mem |-> [d \in DX |-> Sentinels[r]]]

n == Len(objs)

\* The allocation that would be the next kills the replica.
global_allocs == n + 1

\* make_partition_maps; -1 when the slot of the object was used again.
IDtoDX(r, o) ==
  IF \E d \in DX : img[r].id[d] = o THEN CHOOSE d \in DX : img[r].id[d] = o
  ELSE -1

\* pinfo::pmap asserts that the object is still in the partition.
Absent(r, o) == IDtoDX(r, o) = -1

DXtoID(r, d) == img[r].id[d]
DXhasData(r, d) == d \in img[r].data
IDallocated(r, o) == IDtoDX(r, o) \in img[r].live
IDhasData(r, o) == IDtoDX(r, o) \in img[r].data
IDtoAllocSite(r, o) == img[r].alloc[IDtoDX(r, o)]
IDtoFreeSite(r, o) == img[r].free[IDtoDX(r, o)]
WordAt(r, d, i) == Word(img[r].mem[d], i)
isSentinel(r, w) == w = SentinelWord[r]
check_sentinel(r, d) == img[r].mem[d] = Sentinels[r]

\* verify_canaries marks a replica with a dead canary as bad.
isBadReplica(r) == \E d \in DX : ~DXhasData(r, d) /\ ~check_sentinel(r, d)

----------------------------------------------------------------------------
(* Comparison of words and objects *)

OK == 15
PTR_DIFF_ID == 16
ALLOC_ONLY_ONE == 18
DNE == 19
CALLSITE_MISMATCH == 20
ABORT == 21 \* an assertion fails

valid_pointer(r, w) == w[1] \in DX /\ \A x \in 2 .. 7 : w[x] = 10 + r

\* The object that a pointer into the heap points to; 0 if there was none.
alloc_desc(r, w) == DXtoID(r, w[1])

canonical_ptr(r, w) == IF w = LibWord[r] THEN <<>> ELSE w

ByteEqual(w1, w2, b) == w1[2 * b] = w2[2 * b] /\ w1[2 * b + 1] = w2[2 * b + 1]

\* One bit per byte, set where the bytes agree.
EqualBytes(w1, w2) ==
  LET bit(b) == IF ByteEqual(w1, w2, b) THEN 2 ^ b ELSE 0
  IN bit(0) + bit(1) + bit(2) + bit(3)

\* Two pointers into the heap, in slots d1 and d2: the same object, the same
\* distance from the slot, or different objects.
compare_pointers(d1, w1, id1, d2, w2, id2) ==
  IF \/ id1 = id2 /\ id1 > 0
     \/ d1 - w1[1] = d2 - w2[1] /\ w1[0] = w2[0]
  THEN OK
  ELSE IF id1 # 0 /\ id2 # 0 /\ w1[0] = w2[0] THEN PTR_DIFF_ID
  ELSE EqualBytes(w1, w2)

compare_values(r1, d1, w1, r2, d2, w2, allocated) ==
  IF w1 = w2 \/ (~allocated /\ isSentinel(r1, w1) /\ isSentinel(r2, w2)) THEN OK
  ELSE IF valid_pointer(r1, w1) /\ valid_pointer(r2, w2)
  THEN compare_pointers(d1, w1, alloc_desc(r1, w1), d2, w2, alloc_desc(r2, w2))
  ELSE IF canonical_ptr(r1, w1) = canonical_ptr(r2, w2) THEN OK
  ELSE EqualBytes(w1, w2)

\* Word i of slot d1 in replica r1 and of slot d2 in replica r2.
compare_words(r1, d1, r2, d2, i, allocated) ==
  compare_values(r1, d1, WordAt(r1, d1, i), r2, d2, WordAt(r2, d2, i), allocated)

\* The status of the last word that differs.
LastWrong(sts) ==
  LET W == {i \in DOMAIN sts : sts[i] # OK}
  IN IF W = {} THEN OK ELSE sts[Max(W)]
compare_range(r1, d1, r2, d2, allocated) ==
  LastWrong([i \in WordIndices |-> compare_words(r1, d1, r2, d2, i, allocated)])

\* Freed, filled with the sentinel and still intact: nothing to compare.
IntactCanary(r, o) == ~IDhasData(r, o) /\ check_sentinel(r, IDtoDX(r, o))

\* Compares object o over the replicas of the group g.  Looking up an
\* object whose slot was used again fails the assertion of pinfo::pmap.
compare_from(g, o, k0, p0) ==
  LET Result(pk) ==
        IF Absent(pk, o) THEN ABORT
        ELSE IF ~IDallocated(pk, o) /\ check_sentinel(pk, IDtoDX(pk, o)) THEN OK
        ELSE IF IDtoAllocSite(pk, o) # IDtoAllocSite(p0, o) THEN CALLSITE_MISMATCH
        ELSE compare_range(p0, IDtoDX(p0, o), pk, IDtoDX(pk, o), IDallocated(p0, o))
      FirstWrong(sts) == IF Range(sts) \subseteq {OK} THEN OK
                         ELSE sts[Min({k \in DOMAIN sts : sts[k] # OK})]
  IN IF Absent(p0, o) THEN ABORT
     ELSE IF k0 = Len(g) THEN ALLOC_ONLY_ONE
     ELSE FirstWrong([k \in k0 + 1 .. Len(g) |-> Result(g[k])])

compare_slot(g, o) ==
  LET First(K) == IF K = {} THEN DNE ELSE compare_from(g, o, Min(K), g[Min(K)])
  IN First({k \in DOMAIN g : Absent(g[k], o) \/ ~IntactCanary(g[k], o)})

\* Classes of replicas in which o has the same contents, smallest first.
SmallestFirst(eq) ==
  SortSeq(eq, LAMBDA a, b : \/ Len(a) < Len(b)
                            \/ Len(a) = Len(b) /\ a[1] < b[1])

EqClasses(g, o, allocated) ==
  LET Same(c, r) == OK = compare_range(c[1], IDtoDX(c[1], o), r, IDtoDX(r, o),
                                       allocated)
      AddTo(eq, r, J) == IF J = {} THEN Append(eq, <<r>>)
                         ELSE [eq EXCEPT ![Min(J)] = Append(@, r)]
  IN FoldLeft(LAMBDA eq, r : AddTo(eq, r, {j \in DOMAIN eq : Same(eq[j], r)}), <<>>, g)

AllReplicas == [k \in 1 .. NumReplicas |-> k - 1]

eq_partition(o) ==
  LET Of(g) == EqClasses(g, o, IDallocated(g[1], o) /\ IDhasData(g[1], o))
  IN SmallestFirst(Of(SelectSeq(AllReplicas, LAMBDA r : ~IntactCanary(r, o))))

----------------------------------------------------------------------------
(* The patch database.  A database that is not ok belongs to a patcher that *)
(* failed an assertion.                                                     *)

EmptyDB == [ok |-> TRUE, overflow |-> <<>>, dangle |-> <<>>, stat |-> <<>>,
            drag |-> <<>>, updated |-> {}]

Aborted(d) == [d EXCEPT !.ok = FALSE]

Put(f, key, val) ==
  [k \in DOMAIN f \cup {key} |-> IF k = key THEN val ELSE f[k]]
At(f, key, default) == IF key \in DOMAIN f THEN f[key] ELSE default

add_overflow_patch(d, site, delta) ==
  [d EXCEPT !.overflow = Put(@, site, delta)]

add_dangle_patch(d, key, td) ==
  [d EXCEPT !.dangle = Put(@, key, td), !.updated = @ \cup {key}]

do_overflow(d, site, delta) ==
  IF At(d.overflow, site, 0) > delta THEN d
  ELSE add_overflow_patch(d, site, delta)

do_dang_ptr(d, key, drag) ==
  LET td == 2 * (IF drag = 0 THEN 1 ELSE drag)
  IN IF At(d.dangle, key, 0) > td THEN d ELSE add_dangle_patch(d, key, td)

update_static_infoSet(d, key, h, t, drag) ==
  [d EXCEPT !.stat = Put(@, key, <<h, t>>), !.drag = Put(@, key, drag)]
update_static_info(d, key, h, t, drag) ==
  LET old == At(d.drag, key, 0) IN
  [d EXCEPT !.stat = Put(@, key, <<At(@, key, <<0, 0>>)[1] + h,
                                   At(@, key, <<0, 0>>)[2] + t>>),
            !.drag = IF old = 0 \/ old > drag THEN Put(@, key, drag) ELSE @]

----------------------------------------------------------------------------
(* Isolation of overflows *)

\* A byte of the mask looks at nibbles b and b + 1 of its word: the code
\* shifts by sizeof(unsigned long), four bits.
DiffersAt(w1, w2, b) == w1[b] # w2[b] \/ w1[b + 1] # w2[b + 1]

Bytes == 0 .. 4 * Words - 1

create_mask_sentinel(r, d) ==
  {b \in Bytes : DiffersAt(WordAt(r, d, b \div 4), SentinelWord[r], b % 4)}

create_mask(perr, g, o) ==
  {b \in Bytes : \E j \in DOMAIN g :
     LET de == IDtoDX(perr, o)
         dj == IDtoDX(g[j], o)
     IN /\ OK # compare_words(perr, de, g[j], dj, b \div 4, IDallocated(perr, o))
        /\ DiffersAt(WordAt(perr, de, b \div 4), WordAt(g[j], dj, b \div 4), b % 4)}

\* How many masked bytes the slot at this distance of o has in common with
\* the victim; 1 - 256^-m in double arithmetic no longer grows after m = 7.
correlation(g, perr, o, offset, mask) ==
  LET Matches(r) ==
        LET d == IDtoDX(r, o) + offset IN
        IF d >= Elements \/ DXhasData(r, d) THEN 0
        ELSE Cardinality({b \in mask :
               /\ ~isSentinel(r, WordAt(r, d, b \div 4))
               /\ ByteEqual(WordAt(perr, IDtoDX(perr, o) + offset, b \div 4),
                            WordAt(r, d, b \div 4), b % 4)})
      m == FoldLeft(LAMBDA s, r : s + Matches(r), 0, g)
  IN IF m > 7 THEN 7 ELSE m

\* The number of low bits of st that are set.
Ones(st) == Min({b \in 0 .. 4 : b = 4 \/ (st \div 2 ^ b) % 2 = 0})

\* The bytes, from the start of the victim, that agree in all replicas.
overflow_offset(g, perr, o, offset, mask) ==
  LET At0(r) == IDtoDX(r, o) + offset
      Counts(r) == At0(r) < Elements /\ DXtoID(r, At0(r)) <= o
      Looked(r) == {k \in WordIndices :
                      /\ 4 * k \in mask
                      /\ ~(DXtoID(r, At0(r)) = 0
                           /\ isSentinel(r, WordAt(r, At0(r), k)))}
      Status(s) == IF s = PTR_DIFF_ID THEN 0 ELSE s
      Agreeing(sts, Bad) ==
        IF Bad = {} THEN 4 * Cardinality(DOMAIN sts)
        ELSE 4 * Cardinality({k \in DOMAIN sts : k < Min(Bad)}) + Ones(sts[Min(Bad)])
      Acc(sts) == Agreeing(sts, {k \in DOMAIN sts : sts[k] # OK})
      Least(A) == IF A = {} THEN 0 ELSE Min(A)
  IN Least({Acc([k \in Looked(r) |->
                   Status(compare_words(perr, At0(perr), r, At0(r), k,
                                        At0(r) \in img[r].live))]) :
              r \in {x \in Range(g) : x # perr /\ Counts(x)}})

Better(c, best, off) == c > best /\ off > 0

\* Looks, from the victim d downwards, for the object whose distance to the
\* damage is the same in the other replicas.
check_overflow(db0, perr, g, d, mask) ==
  LET Consider(b, j, c, off) ==
        IF Better(c, b.c, off) THEN [ok |-> TRUE, c |-> c, j |-> j, d |-> off] ELSE b
      Try(b, j, o, st) ==
        IF ~b.ok \/ o = 0 THEN b
        ELSE IF st = ABORT THEN [b EXCEPT !.ok = FALSE]
        ELSE IF st \notin {OK, ALLOC_ONLY_ONE, DNE} THEN b
        ELSE IF \E k \in DOMAIN g : Absent(g[k], o) THEN [b EXCEPT !.ok = FALSE]
        ELSE Consider(b, j, correlation(g, perr, o, d - j, mask),
                      overflow_offset(g, perr, o, d - j, mask))
      Report(best) ==
        IF ~best.ok THEN Aborted(db0)
        ELSE IF best.c = 0 THEN db0
        ELSE do_overflow(db0, img[perr].alloc[best.j],
                         (d - best.j - 1) * 4 * Words + best.d)
  IN IF Len(g) < 2 THEN db0
     ELSE Report(FoldLeft(LAMBDA b, j : Try(b, j, DXtoID(perr, j),
                                            compare_slot(g, DXtoID(perr, j))),
                          [ok |-> TRUE, c |-> 0, j |-> 0, d |-> 0],
                          [k \in 1 .. d |-> d - k]))

\* Every replica that disagrees alone is examined against the largest class.
handle_discrepancy(db0, o) ==
  LET Examine(d, c, g) ==
        IF ~d.ok \/ Len(c) # 1 THEN d
        ELSE check_overflow(d, c[1], g, IDtoDX(c[1], o), create_mask(c[1], g, o))
      ExamineAll(eq) ==
        IF Len(eq[1]) # 1 \/ (NumReplicas > 2 /\ Len(eq) = NumReplicas) THEN db0
        ELSE FoldLeft(LAMBDA d, c : Examine(d, c, eq[Len(eq)]), db0,
                      SubSeq(eq, 1, Len(eq) - 1))
  IN IF \E r \in Replicas : Absent(r, o) THEN Aborted(db0)
     ELSE ExamineAll(eq_partition(o))

\* Primary loop 1 over one object.  When the first replica has lost o, the
\* code reads a partition before the first: the assertions on it hold or not.
Compare(st, o, lucky) ==
  LET Judge(s) ==
        IF s = ABORT THEN [st EXCEPT !.db = Aborted(@)]
        ELSE IF \/ s \in {OK, ALLOC_ONLY_ONE, DNE}
                \/ s = PTR_DIFF_ID /\ ~IDallocated(0, o)
        THEN st
        ELSE IF s = CALLSITE_MISMATCH THEN [st EXCEPT !.diverged = TRUE]
        ELSE [st EXCEPT !.db = handle_discrepancy(@, o)]
  IN IF ~st.db.ok \/ st.diverged THEN st
     ELSE IF ~Absent(0, o) THEN Judge(compare_slot(AllReplicas, o))
     ELSE IF lucky /\ \A r \in Replicas : Absent(r, o) THEN st
     ELSE [st EXCEPT !.db = Aborted(@)]

is_outlier(r, eq) == \E k \in DOMAIN eq : eq[k] = <<r>>

\* Primary loop 2 over slot d of replica r: an unused slot that lost its
\* canary was overflowed into or, when the object's slots lost it alike,
\* written through a dangling pointer.
CheckCanary(db0, r, d) ==
  LET o == DXtoID(r, d)
      canaries == Cardinality({x \in Replicas : ~IDhasData(x, o)})
  IN IF ~db0.ok \/ DXhasData(r, d) \/ check_sentinel(r, d) THEN db0
     ELSE IF o # 0 /\ \E x \in Replicas : Absent(x, o) THEN Aborted(db0)
     ELSE IF o = 0 \/ is_outlier(r, eq_partition(o))
     THEN check_overflow(db0, r, SelectSeq(AllReplicas, LAMBDA x : x # r),
                         d, create_mask_sentinel(r, d))
     ELSE IF canaries = 1 THEN Aborted(db0)
     ELSE do_dang_ptr(db0, <<img[r].alloc[d], img[r].free[d]>>,
                      global_allocs - img[r].ftime[d])

----------------------------------------------------------------------------
(* Statistics on reads through dangling pointers *)

\* Over all replicas: how often the object was seen, and how often its data
\* and the failure went together.
canary_score(o) ==
  LET Seen == {r \in Replicas : ~Absent(r, o)}
  IN <<Cardinality(Seen),
       Cardinality({r \in Seen : IDhasData(r, o) = ~isBadReplica(r)})>>

Record(d, o, score, key) ==
  LET h == score[2]
      t == score[1] - h
      Suspect(d1) == IF <<h, t>> \in Sure THEN do_dang_ptr(d1, key, global_allocs - o)
                     ELSE d1
  IN IF score[1] = 0 THEN d
     ELSE IF Absent(0, o) THEN Aborted(d)
     ELSE Suspect(IF key[2] = 0 THEN d
                  ELSE update_static_info(d, key, h, t, global_allocs - o))

SearchObject(d, o) ==
  IF ~d.ok THEN d
  ELSE Record(d, o, canary_score(o), <<IDtoAllocSite(0, o), IDtoFreeSite(0, o)>>)

PairLess(a, b) == a[1] < b[1] \/ (a[1] = b[1] /\ a[2] < b[2])

inspect_static_info(d) ==
  FoldLeft(LAMBDA e, key : IF e.stat[key] \in SureStatic
                           THEN do_dang_ptr(e, key, At(e.drag, key, 0)) ELSE e,
           d, SetToSortSeq(DOMAIN d.stat, PairLess))

----------------------------------------------------------------------------
(* The patch file *)

\* One line per patch, in the order of the keys; the statistics of a pair
\* that has a patch are dropped.
KeptStats(d) == DOMAIN d.stat \ d.updated

output_patch(d) ==
  LET O == SetToSortSeq(DOMAIN d.overflow, LAMBDA a, b : a < b)
      D == SetToSortSeq(DOMAIN d.dangle, PairLess)
      S == SetToSortSeq(KeptStats(d), PairLess)
  IN FlattenSeq(
       [k \in DOMAIN O |-> <<"overflow", O[k], d.overflow[O[k]]>>]
       \o [k \in DOMAIN D |-> <<"dangle", D[k][1], D[k][2], d.dangle[D[k]]>>]
       \o [k \in DOMAIN S |-> <<"stat", S[k][1], S[k][2], d.stat[S[k]][1],
                                d.stat[S[k]][2]>>])

\* How many words a line has that starts with this one.
LineLength(w) == CASE w = "overflow" -> 3 [] w = "dangle" -> 4 [] OTHER -> 5

\* The lines of a file, as both readers find them: by counting words.
Lines(f) ==
  LET from[i \in 1 .. Len(f) + 5] ==
        IF i > Len(f) THEN <<>>
        ELSE LET l == LineLength(f[i])
             IN <<SubSeq(f, i, i + l - 1)>> \o from[i + l]
  IN from[1]

\* read_patch: the patcher's own reader.
read_patch(f) ==
  LET Read(d, l) ==
        CASE l[1] = "overflow" -> add_overflow_patch(d, l[2], l[3])
          [] l[1] = "dangle" -> add_dangle_patch(d, <<l[2], l[3]>>, l[4])
          [] OTHER -> update_static_info(d, <<l[2], l[3]>>, l[4], l[5], 0)
  IN FoldLeft(Read, EmptyDB, Lines(f))

\* PatchInfo::readFile: the reader of the heap, which skips statistics.
hash(site) == site % HASH_SIZE

readFile(f) ==
  LET Read(t, l) ==
        CASE l[1] = "overflow" -> [t EXCEPT !.overflow[hash(l[2])] = l[3]]
          [] l[1] = "dangle" -> [t EXCEPT !.dangle[hash(l[2] ^^ l[3])] = l[4]]
          [] OTHER -> t
      None == [x \in 0 .. HASH_SIZE - 1 |-> 0]
  IN FoldLeft(Read, [overflow |-> None, dangle |-> None], Lines(f))

getPadding(t, site) == t.overflow[hash(site)]
getLifeExtensionByAlloc(t, alloc, free) == t.dangle[hash(alloc)]
getLifeExtension(t, alloc, free) == t.dangle[hash(alloc ^^ free)]

----------------------------------------------------------------------------
(* The replicas run *)

EmptyImages == [r \in Replicas |-> EmptyImage(r)]

Init ==
  /\ pc = "run" /\ round = 1
  /\ img = EmptyImages /\ objs = <<>> /\ ops = 0 /\ errors = {}
  /\ db = EmptyDB /\ file = <<>> /\ opsInRound \in Schedules

Running == pc = "run" /\ ops < opsInRound[round]

Corrupted(r, d) == ~DXhasData(r, d) /\ ~check_sentinel(r, d)

Contents(r, kind, o) ==
  CASE kind = "data" -> Filled(o)
    [] kind = "lib" -> LibPointer(r)
    [] OTHER -> IF o = 1 THEN Filled(1) ELSE PointerTo(r, objs[o - 1].at[r])

\* Every replica places the object at random.  A run in which DieFast meets
\* a dead canary is stopped there and is not modelled further.
AllocObject ==
  /\ Running /\ n < MaxObjects
  /\ \E l \in Locations, f \in [Replicas -> DX] :
       /\ \A r \in Replicas : f[r] \notin img[r].live /\ ~Corrupted(r, f[r])
       /\ img' = [r \in Replicas |->
                    [img[r] EXCEPT !.id[f[r]] = n + 1,
                                   !.alloc[f[r]] = SiteIn[r, l],
                                   !.live = @ \cup {f[r]},
                                   !.data = @ \cup {f[r]},
                                   !.mem[f[r]] = Contents(r, ContentAt[l], n + 1)]]
       /\ objs' = Append(objs, [at |-> f, loc |-> l, live |-> TRUE])
  /\ ops' = ops + 1
  /\ UNCHANGED <<pc, round, errors, db, file, opsInRound>>

forceFreeUnfilled(r, d, fill) ==
  [img[r] EXCEPT !.live = @ \ {d}, !.free[d] = SiteIn[r, FreeLocation],
                 !.ftime[d] = n, !.data = IF fill THEN @ \ {d} ELSE @]
forceFree(r, d, fill) ==
  [img[r] EXCEPT !.live = @ \ {d}, !.free[d] = SiteIn[r, FreeLocation],
                 !.ftime[d] = n, !.data = IF fill THEN @ \ {d} ELSE @,
                 !.mem[d] = IF fill THEN Sentinels[r] ELSE @]

\* Every replica tosses a coin on whether to fill the slot with the sentinel.
FreeObject ==
  /\ Running /\ Cardinality({o \in 1 .. n : ~objs[o].live}) < MaxFrees
  /\ \E o \in 1 .. n, fill \in SUBSET Replicas :
       /\ objs[o].live
       /\ \A r \in Replicas : objs[o].at[r] + 1 \in DX
                                => ~Corrupted(r, objs[o].at[r] + 1)
       /\ img' = [r \in Replicas |-> forceFree(r, objs[o].at[r], r \in fill)]
       /\ objs' = [objs EXCEPT ![o].live = FALSE]
  /\ ops' = ops + 1
  /\ UNCHANGED <<pc, round, errors, db, file, opsInRound>>

Erring == Running /\ Cardinality(errors) < MaxErrors

\* The program writes len bytes past the end of a live object.
ProgramOverflows ==
  /\ Erring
  /\ \E o \in 1 .. n, len \in Lengths :
       /\ objs[o].live
       /\ img' = [r \in Replicas |->
                    LET d == objs[o].at[r] + 1
                    IN IF d \notin DX THEN img[r]
                       ELSE [img[r] EXCEPT !.mem[d] =
                               [x \in Nibbles |-> IF x < 2 * len THEN 7 ELSE @[x]]]]
       /\ errors' = errors \cup {[kind |-> "overflow", o |-> o, len |-> len]}
  /\ ops' = ops + 1
  /\ UNCHANGED <<pc, round, objs, db, file, opsInRound>>

\* The program writes to an object it has freed.
ProgramDangles ==
  /\ Erring
  /\ \E o \in 1 .. n :
       /\ ~objs[o].live
       /\ img' = [r \in Replicas |->
                    [img[r] EXCEPT !.mem[objs[o].at[r]] = Filled(8)]]
       /\ errors' = errors \cup {[kind |-> "dangle", o |-> o, len |-> 0]}
  /\ ops' = ops + 1
  /\ UNCHANGED <<pc, round, objs, db, file, opsInRound>>

----------------------------------------------------------------------------
(* The patcher runs *)

Finish(d, next) == db' = d /\ pc' = IF d.ok THEN next ELSE "aborted"

\* main reads the existing patches, then the images, and compares them.
Loop1 ==
  /\ pc = "run" /\ n > 0
  /\ \E lucky \in BOOLEAN :
       Finish(FoldLeft(LAMBDA st, o : Compare(st, o, lucky),
                       [db |-> read_patch(file), diverged |-> FALSE],
                       [o \in 1 .. n |-> o]).db, "loop2")
  /\ UNCHANGED <<round, img, objs, ops, errors, file, opsInRound>>

Loop2 ==
  /\ pc = "loop2"
  /\ Finish(FoldLeft(LAMBDA d, k : CheckCanary(d, (k - 1) \div Elements,
                                               (k - 1) % Elements),
                     db, [k \in 1 .. NumReplicas * Elements |-> k]), "search")
  /\ UNCHANGED <<round, img, objs, ops, errors, file, opsInRound>>

dang_ptr_read_search ==
  /\ pc = "search"
  /\ LET d == FoldLeft(SearchObject, db, [o \in 1 .. n |-> o])
     IN Finish(IF d.ok THEN inspect_static_info(d) ELSE d, "output")
  /\ UNCHANGED <<round, img, objs, ops, errors, file, opsInRound>>

NewRound ==
  /\ round' = round + 1
  /\ pc' = IF round' \in DOMAIN opsInRound THEN "run" ELSE "done"
  /\ img' = EmptyImages /\ objs' = <<>> /\ ops' = 0 /\ errors' = {}
  /\ db' = EmptyDB /\ UNCHANGED opsInRound

\* The file is rewritten and the next round begins.
Output ==
  /\ pc = "output"
  /\ file' = output_patch(db)
  /\ NewRound

\* After a failed assertion the file is as it was.
AfterAbort ==
  /\ pc = "aborted"
  /\ NewRound
  /\ UNCHANGED file

Next ==
  \/ AllocObject \/ FreeObject \/ ProgramOverflows \/ ProgramDangles
  \/ Loop1 \/ Loop2 \/ dang_ptr_read_search
  \/ Output \/ AfterAbort

Spec == Init /\ [][Next]_vars

----------------------------------------------------------------------------
(* Properties *)

\* The patcher's maps hold sites, pairs of sites and natural numbers, and
\* the file parses into such maps (the types of patch_db.cpp).
TypeOK ==
  /\ pc \in {"run", "loop2", "search", "output", "aborted", "done"}
  /\ round \in 1 .. Len(opsInRound) + 1 /\ ops \in Nat
  /\ \A d \in {db} \cup (IF ops = 0 THEN {read_patch(file)} ELSE {}) :
       /\ d.ok \in BOOLEAN
       /\ \A s \in DOMAIN d.overflow : s \in Nat /\ d.overflow[s] \in Nat \ {0}
       /\ \A k \in DOMAIN d.dangle : k \in Nat \X Nat /\ d.dangle[k] \in Nat \ {0}
       /\ \A k \in DOMAIN d.stat : k \in Nat \X Nat /\ d.stat[k] \in Nat \X Nat
  /\ \A r \in Replicas : img[r].live \subseteq img[r].data

SiteOf(o) == SiteIn[0, objs[o].loc]

\* compare_heaps accuses no correct program: without an error of the program
\* no overflow patch appears or grows, and a dangling-pointer patch only
\* where the statistics of the file demand it.  A write through a dangling
\* pointer is never taken for an overflow: the slots of the object change
\* alike, so none of them is an outlier.
NoFalsePatch ==
  pc = "output" =>
    \A known \in {read_patch(file)} :
      /\ (\A e \in errors : e.kind = "dangle") => db.overflow = known.overflow
      /\ errors = {} => \A k \in DOMAIN db.dangle :
           \/ At(known.dangle, k, 0) = db.dangle[k]
           \/ At(db.stat, k, {}) \in SureStatic

\* check_overflow finds the culprit and the length of a single overflow
\* whose victim is, in every image, a slot that was never used.
OverflowPatched(e) ==
  (\A r \in Replicas : LET d == objs[e.o].at[r] + 1 IN d \in DX /\ img[r].id[d] = 0)
  => /\ SiteOf(e.o) \in DOMAIN db.overflow
     /\ db.overflow[SiteOf(e.o)] >= e.len

\* A single write through a dangling pointer is patched for the pair of
\* sites when every image still has the object's slot and had filled it
\* with the sentinel.
DanglePatched(e) ==
  (\A r \in Replicas : LET d == objs[e.o].at[r] IN img[r].id[d] = e.o /\ d \notin img[r].data)
  => LET d == objs[e.o].at[0] IN
     At(db.dangle, <<img[0].alloc[d], img[0].free[d]>>, 0)
       >= 2 * (global_allocs - img[0].ftime[d])

\* compare_heaps patches every single error that the images show.
ErrorsPatched ==
  pc = "output" =>
    \A e \in errors :
      errors = {e} => /\ e.kind = "overflow" => OverflowPatched(e)
                      /\ e.kind = "dangle" => DanglePatched(e)

Grown(old, new) ==
  /\ \A s \in DOMAIN old.overflow : At(new.overflow, s, 0) >= old.overflow[s]
  /\ \A k \in DOMAIN old.dangle : At(new.dangle, k, 0) >= old.dangle[k]
  /\ \A k \in DOMAIN old.stat :
       \/ k \in DOMAIN new.dangle
       \/ /\ k \in DOMAIN new.stat
          /\ new.stat[k][1] >= old.stat[k][1]
          /\ new.stat[k][2] >= old.stat[k][2]

\* From round to round no patch of the file shrinks or disappears, and the
\* statistics of a pair accumulate until the pair is patched: read_patch,
\* do_overflow, do_dang_ptr and output_patch together.
PatchesGrow == [][file' # file => Grown(read_patch(file), read_patch(file'))]_vars

InForceIn(t, known) ==
  /\ \A s \in DOMAIN known.overflow :
       \/ getPadding(t, s) = known.overflow[s]
       \/ \E u \in DOMAIN known.overflow \ {s} : hash(u) = hash(s)
  /\ \A k \in DOMAIN known.dangle :
       \/ getLifeExtension(t, k[1], k[2]) = known.dangle[k]
       \/ \E u \in DOMAIN known.dangle \ {k} :
            hash(u[1] ^^ u[2]) = hash(k[1] ^^ k[2])

\* What the patcher wrote is what the heap's reader puts in force, except
\* where two sites share an entry of its hash tables; the maps are well typed.
InForce ==
  /\ TypeOK
  /\ pc \in {"run", "done"} /\ ops = 0 => InForceIn(readFile(file), read_patch(file))
=============================================================================
