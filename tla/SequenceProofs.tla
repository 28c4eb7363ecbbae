---------------------------- MODULE SequenceProofs ----------------------------
(* Proofs about ActionSequence, for any number of options, markets, oracles,   *)
(* overlapping runs, clicks and faults, and any capacity of a transaction:     *)
(* what a form shows as done is on chain, and a deposit is paid once a click.  *)
EXTENDS ActionSequence, SequenceTheorems, Sums

-----------------------------------------------------------------------------
\* The lists of steps

Lists == {"activate", "create", "contribute", "add", "compose"} \X Oracles
Count(list) == Len(Steps[list])

LEMMA ListIs ==
    ASSUME NEW o \in Oracles
    PROVE  /\ Steps[<<"activate", o>>] = ActivateSteps(1)
           /\ Steps[<<"create", o>>] = CreateSteps(o)
           /\ Steps[<<"contribute", o>>] = ContributeSteps
           /\ Steps[<<"add", o>>] = AddLiquiditySteps
           /\ Steps[<<"compose", o>>] = ComposeSteps
<1> DEFINE step(list) ==
        CASE list[1] = "activate"   -> ActivateSteps(1)
          [] list[1] = "create"     -> CreateSteps(list[2])
          [] list[1] = "contribute" -> ContributeSteps
          [] list[1] = "add"        -> AddLiquiditySteps
          [] list[1] = "compose"    -> ComposeSteps
<1>1. \A list \in Lists : Steps[list] = step(list)
    BY DEF Steps, Lists
<1>2. step(<<"activate", o>>) = ActivateSteps(1)
    BY Zenon
<1>3. step(<<"create", o>>) = CreateSteps(o)
    BY Zenon
<1>4. step(<<"contribute", o>>) = ContributeSteps
    BY Zenon
<1>5. step(<<"add", o>>) = AddLiquiditySteps
    BY Zenon
<1>6. step(<<"compose", o>>) = ComposeSteps
    BY Zenon
<1> HIDE DEF step
<1> QED
    BY <1>1, <1>2, <1>3, <1>4, <1>5, <1>6 DEF Lists

LEMMA ReadyInOrder ==
    /\ IsFiniteSet(Ready)
    /\ Cardinality(Ready) \in Nat
    /\ SetToSeq(Ready) \in [1..Cardinality(Ready) -> Ready]
    /\ \A m \in Ready : \E k \in 1..Cardinality(Ready) : SetToSeq(Ready)[k] = m
<1>1. IsFiniteSet(Ready)
  <2>1. IsFiniteSet(1..Group)
      BY FS_Interval, SequenceAssumption
  <2> QED
      BY <2>1, FS_Subset, SequenceAssumption
<1> DEFINE n == Cardinality(Ready)
<1>2. n \in Nat /\ ExistsBijection(1..n, Ready)
    BY <1>1, FS_CardinalityType
<1>3. \E f \in [1..n -> Ready] : IsInjective(f)
    BY <1>2 DEF ExistsBijection, Bijection, Injection
<1>4. SetToSeq(Ready) \in [1..n -> Ready] /\ IsInjective(SetToSeq(Ready))
    BY <1>3 DEF SetToSeq
<1>5. IsFiniteSet(1..n) /\ Cardinality(1..n) = n
    BY <1>2, FS_Interval
<1>6. SetToSeq(Ready) \in Injection(1..n, Ready)
    BY <1>4 DEF Injection
<1>7. SetToSeq(Ready) \in Surjection(1..n, Ready)
    BY <1>1, <1>5, <1>6, FS_Injection
<1> QED
    BY <1>1, <1>2, <1>4, <1>7 DEF Surjection

\* The activations that follow the contributions, one after the other.
Activations ==
    [i \in 1..4 * Cardinality(Ready) |->
        ActivateSteps(SetToSeq(Ready)[(i + 3) \div 4])[((i - 1) % 4) + 1]]

LEMMA ActivationsPayNothing ==
    ASSUME NEW i \in 1..4 * Cardinality(Ready)
    PROVE  Activations[i].pays = 0
<1> DEFINE m == SetToSeq(Ready)[(i + 3) \div 4]
           k == ((i - 1) % 4) + 1
<1>1. k \in 1..4
    BY ReadyInOrder
<1>2. Activations[i] = ActivateSteps(m)[k]
    BY DEF Activations
<1> HIDE DEF m, k
<1>3. ActivateSteps(m)[k].pays = 0
    BY <1>1 DEF ActivateSteps, Creates
<1> QED
    BY <1>2, <1>3

LEMMA ActivationsActivate ==
    ASSUME NEW m \in Ready
    PROVE  \E i \in 1..4 * Cardinality(Ready) : <<"active", "market", m>> \in Activations[i].adds
<1>1. PICK k \in 1..Cardinality(Ready) : SetToSeq(Ready)[k] = m
    BY ReadyInOrder
<1>2. /\ 4 * k \in 1..4 * Cardinality(Ready)
      /\ (4 * k + 3) \div 4 = k /\ ((4 * k - 1) % 4) + 1 = 4
    BY ReadyInOrder
<1>3. Activations[4 * k] = ActivateSteps(m)[4]
    BY <1>1, <1>2 DEF Activations
<1>4. <<"active", "market", m>> \in ActivateSteps(m)[4].adds
    BY DEF ActivateSteps, Creates
<1> QED
    BY <1>2, <1>3, <1>4

LEMMA ContributeList ==
    /\ Len(ContributeSteps) = Group + 4 * Cardinality(Ready)
    /\ DOMAIN ContributeSteps = 1..Len(ContributeSteps)
    /\ \A i \in 1..Len(ContributeSteps) : ContributeSteps[i].pays = IF i <= Group THEN i ELSE 0
    /\ \A m \in Ready : \E i \in 1..Len(ContributeSteps) :
          <<"active", "market", m>> \in ContributeSteps[i].adds
<1> DEFINE first == [m \in 1..Group |->
                [adds |-> IF m \in Ready THEN {<<"funded", "market", m>>} ELSE {},
                 bars |-> {<<"active", "market", m>>}, needs |-> {}, size |-> 1, pays |-> m]]
           S == {first[m] : m \in 1..Group}
                  \cup {Activations[i] : i \in 1..4 * Cardinality(Ready)}
<1>1. Group \in Nat /\ Cardinality(Ready) \in Nat /\ 4 * Cardinality(Ready) \in Nat
    BY SequenceAssumption, ReadyInOrder
<1>2. first \in Seq(S) /\ Len(first) = Group
  <2>1. first \in [1..Group -> S] /\ DOMAIN first = 1..Group
      OBVIOUS
  <2> HIDE DEF first, S
  <2> QED
      BY <1>1, <2>1
<1>3. Activations \in Seq(S) /\ Len(Activations) = 4 * Cardinality(Ready)
  <2>1. /\ Activations \in [1..4 * Cardinality(Ready) -> S]
        /\ DOMAIN Activations = 1..4 * Cardinality(Ready)
    <3>1. /\ Activations = [i \in 1..4 * Cardinality(Ready) |-> Activations[i]]
          /\ DOMAIN Activations = 1..4 * Cardinality(Ready)
        BY DEF Activations
    <3>2. \A i \in 1..4 * Cardinality(Ready) : Activations[i] \in S
        OBVIOUS
    <3> HIDE DEF S
    <3> QED
        BY <3>1, <3>2
  <2> HIDE DEF S
  <2> QED
      BY <1>1, <2>1
<1>4. Len(SetToSeq(Ready)) = Cardinality(Ready)
    BY ReadyInOrder, <1>1
<1>5. ContributeSteps = first \o Activations
    BY <1>4 DEF ContributeSteps, Activations
<1>6. \A m \in 1..Group : first[m].pays = m
    OBVIOUS
<1> HIDE DEF first, S
<1>7. /\ ContributeSteps \in Seq(S)
      /\ Len(ContributeSteps) = Group + 4 * Cardinality(Ready)
      /\ \A i \in 1..Group + 4 * Cardinality(Ready) :
            ContributeSteps[i] = IF i <= Group THEN first[i] ELSE Activations[i - Group]
    BY <1>1, <1>2, <1>3, <1>5, ConcatProperties
<1>8. DOMAIN ContributeSteps = 1..Len(ContributeSteps)
    BY <1>7, LenProperties
<1>9. ASSUME NEW i \in 1..Len(ContributeSteps)
      PROVE  ContributeSteps[i].pays = IF i <= Group THEN i ELSE 0
  <2>1. CASE i <= Group
      BY <1>1, <1>6, <1>7, <2>1
  <2>2. CASE ~(i <= Group)
    <3>1. i - Group \in 1..4 * Cardinality(Ready)
        BY <1>1, <1>7, <2>2
    <3> QED
        BY <1>1, <1>7, <2>2, <3>1, ActivationsPayNothing
  <2> QED
      BY <2>1, <2>2
<1>10. ASSUME NEW m \in Ready
       PROVE  \E i \in 1..Len(ContributeSteps) :
                 <<"active", "market", m>> \in ContributeSteps[i].adds
  <2>1. PICK i \in 1..4 * Cardinality(Ready) : <<"active", "market", m>> \in Activations[i].adds
      BY ActivationsActivate
  <2>2. Group + i \in 1..Len(ContributeSteps) /\ ~(Group + i <= Group) /\ (Group + i) - Group = i
      BY <1>1, <1>7
  <2> QED
      BY <1>7, <2>1, <2>2
<1> QED
    BY <1>7, <1>8, <1>9, <1>10

\* Every list is numbered from 1; those of one form are equally long, but for
\* the two of a deposit.
LEMMA ListShapes ==
    /\ \A list \in Lists : Count(list) \in Nat /\ DOMAIN Steps[list] = 1..Count(list)
    /\ DOMAIN Steps = Lists
    /\ \A kind \in {"activate", "create", "compose"}, o, p \in Oracles :
          Count(<<kind, o>>) = Count(<<kind, p>>)
    /\ \A kind \in {"contribute", "add"}, o \in Oracles :
          /\ Count(<<kind, o>>) >= Group
          /\ \A i \in 1..Count(<<kind, o>>) :
                Steps[<<kind, o>>][i].pays = IF i <= Group THEN i ELSE 0
    /\ \A o \in Oracles, m \in Ready : \E i \in 1..Count(<<"contribute", o>>) :
          <<"active", "market", m>> \in Steps[<<"contribute", o>>][i].adds
<1>1. \A o \in Oracles : /\ DOMAIN Steps[<<"activate", o>>] = 1..4
                         /\ Count(<<"activate", o>>) = 4
  <2>1. DOMAIN ActivateSteps(1) = 1..4 /\ Len(ActivateSteps(1)) = 4
      BY DEF ActivateSteps
  <2> QED
      BY ListIs, <2>1 DEF Count
<1>2. \A o \in Oracles : /\ DOMAIN Steps[<<"create", o>>] = 1..Options
                         /\ Count(<<"create", o>>) = Options
  <2>1. \A o \in Oracles : DOMAIN CreateSteps(o) = 1..Options
                           /\ Len(CreateSteps(o)) = Options
    <3> SUFFICES ASSUME NEW o \in Oracles
                 PROVE  DOMAIN CreateSteps(o) = 1..Options /\ Len(CreateSteps(o)) = Options
        OBVIOUS
    <3> QED
        BY SequenceAssumption DEF CreateSteps
  <2> QED
      BY ListIs, <2>1 DEF Count
<1>3. \A o \in Oracles : /\ DOMAIN Steps[<<"compose", o>>] = 1..7
                         /\ Count(<<"compose", o>>) = 7
  <2>1. DOMAIN ComposeSteps = 1..7 /\ Len(ComposeSteps) = 7
      BY DEF ComposeSteps
  <2> QED
      BY ListIs, <2>1 DEF Count
<1>4. \A o \in Oracles : /\ DOMAIN Steps[<<"add", o>>] = 1..Group
                         /\ Count(<<"add", o>>) = Group
                         /\ \A i \in 1..Group : Steps[<<"add", o>>][i].pays = i
  <2>1. /\ DOMAIN AddLiquiditySteps = 1..Group /\ Len(AddLiquiditySteps) = Group
        /\ \A i \in 1..Group : AddLiquiditySteps[i].pays = i
      BY SequenceAssumption DEF AddLiquiditySteps
  <2> QED
      BY ListIs, <2>1 DEF Count
<1>5. \A o \in Oracles :
        /\ DOMAIN Steps[<<"contribute", o>>] = 1..Count(<<"contribute", o>>)
        /\ Count(<<"contribute", o>>) = Group + 4 * Cardinality(Ready)
        /\ \A i \in 1..Count(<<"contribute", o>>) :
              Steps[<<"contribute", o>>][i].pays = IF i <= Group THEN i ELSE 0
        /\ \A m \in Ready : \E i \in 1..Count(<<"contribute", o>>) :
              <<"active", "market", m>> \in Steps[<<"contribute", o>>][i].adds
    BY ListIs, ContributeList DEF Count
<1>6. Group \in Nat \ {0} /\ Options \in Nat /\ Cardinality(Ready) \in Nat
    BY SequenceAssumption, ReadyInOrder
<1>7. DOMAIN Steps = Lists
    BY DEF Steps, Lists
<1>8. ASSUME NEW list \in Lists
      PROVE  Count(list) \in Nat /\ DOMAIN Steps[list] = 1..Count(list)
  <2>1. PICK kind \in {"activate", "create", "contribute", "add", "compose"}, o \in Oracles :
            list = <<kind, o>>
      BY DEF Lists
  <2>2. CASE kind = "activate" \/ kind = "compose"
    <3>1. 4 \in Nat /\ 7 \in Nat
        OBVIOUS
    <3> QED
        BY <1>1, <1>3, <2>1, <2>2, <3>1, Zenon
  <2>3. CASE kind = "create" \/ kind = "add"
      BY <1>2, <1>4, <1>6, <2>1, <2>3
  <2>4. CASE kind = "contribute"
    <3>1. Group + 4 * Cardinality(Ready) \in Nat
        BY <1>6
    <3> QED
        BY <1>5, <2>1, <2>4, <3>1
  <2> QED
      BY <2>1, <2>2, <2>3, <2>4
<1>9. \A kind \in {"contribute", "add"}, o \in Oracles :
          /\ Count(<<kind, o>>) >= Group
          /\ \A i \in 1..Count(<<kind, o>>) :
                Steps[<<kind, o>>][i].pays = IF i <= Group THEN i ELSE 0
    BY <1>4, <1>5, <1>6
<1> QED
    BY <1>1, <1>2, <1>3, <1>5, <1>7, <1>8, <1>9

-----------------------------------------------------------------------------
\* How steps are packed

LEMMA MinIsLeast ==
    ASSUME NEW n \in Nat, NEW S \in SUBSET (0..n), S # {}
    PROVE  Min(S) \in S /\ \A x \in S : Min(S) <= x
<1> DEFINE C == {1..x : x \in S}
<1>1. IsFiniteSet(1..n)
    BY FS_Interval
<1>2. C \subseteq SUBSET (1..n) /\ C # {}
  <2>1. \A x \in S : 1..x \subseteq 1..n
      OBVIOUS
  <2> QED
      BY <2>1
<1>3. \E T \in C : \A U \in C : ~(U \subseteq T /\ U # T)
  <2> DEFINE N == 1..n
  <2>1. IsFiniteSet(N) /\ C \subseteq SUBSET N /\ C # {}
      BY <1>1, <1>2
  <2> HIDE DEF C, N
  <2> QED
      BY <2>1, SmallestSubset
<1>4. PICK x \in S : \A U \in C : ~(U \subseteq 1..x /\ U # 1..x)
    BY <1>3
<1>5. ASSUME NEW y \in S, y < x
      PROVE  FALSE
  <2>1. x \in Nat /\ y \in Nat
      OBVIOUS
  <2>2. 1..y \subseteq 1..x /\ x \in 1..x /\ x \notin 1..y
      BY <1>5, <2>1
  <2>3. 1..y \in C
      OBVIOUS
  <2> QED
      BY <1>4, <2>2, <2>3
<1>6. \A y \in S : x <= y
    BY <1>5
<1> QED
    BY <1>6 DEF Min

\* The steps of the b-th transaction, if those in opening open one each.
Numbered(steps, opening) ==
    [b \in 1..Cardinality(opening) |->
        {i \in steps : Cardinality({j \in opening : j <= i}) = b}]

\* Whichever steps open a transaction, if the first one does: each step is in
\* one transaction.
LEMMA NumberedApart ==
    ASSUME NEW n \in Nat, NEW steps \in SUBSET (1..n), NEW opening \in SUBSET steps,
           steps # {} => Min(steps) \in opening,
           NEW batches, batches = Numbered(steps, opening)
    PROVE  /\ batches \in Seq(SUBSET Nat)
           /\ UNION Range(batches) = steps
           /\ \A b, c \in DOMAIN batches : b # c => batches[b] \cap batches[c] = {}
<1>1. IsFiniteSet(opening) /\ Cardinality(opening) \in Nat
  <2>1. IsFiniteSet(1..n)
      BY FS_Interval
  <2>2. opening \subseteq 1..n
      OBVIOUS
  <2> QED
      BY <2>1, <2>2, FS_Subset, FS_CardinalityType
<1>2. /\ DOMAIN batches = 1..Cardinality(opening)
      /\ batches = [b \in 1..Cardinality(opening) |-> batches[b]]
      /\ \A b \in 1..Cardinality(opening) :
            batches[b] = {i \in steps : Cardinality({j \in opening : j <= i}) = b}
    BY DEF Numbered
<1>3. batches \in Seq(SUBSET Nat)
  <2>1. steps \subseteq Nat
      OBVIOUS
  <2>2. \A b \in 1..Cardinality(opening) : batches[b] \in SUBSET Nat
      BY <1>2, <2>1, Zenon
  <2>3. batches \in [1..Cardinality(opening) -> SUBSET Nat]
      BY <1>2, <2>2, Zenon
  <2> DEFINE k == Cardinality(opening)
  <2>4. k \in Nat /\ batches \in [1..k -> SUBSET Nat]
      BY <1>1, <2>3
  <2> HIDE DEF k
  <2> QED
      BY <2>4, SeqDef, Zenon
<1>4. ASSUME NEW i \in steps
      PROVE  Cardinality({j \in opening : j <= i}) \in 1..Cardinality(opening)
  <2> DEFINE T == {j \in opening : j <= i}
  <2>1. IsFiniteSet(T) /\ Cardinality(T) <= Cardinality(opening)
      BY <1>1, FS_Subset
  <2>2. Min(steps) \in T
    <3>1. steps \in SUBSET (0..n) /\ steps # {} /\ i \in steps
        OBVIOUS
    <3>2. Min(steps) \in steps /\ Min(steps) <= i
        BY <3>1, MinIsLeast
    <3>3. Min(steps) \in opening
        BY <3>1
    <3> QED
        BY <3>2, <3>3
  <2>3. Cardinality(T) # 0 /\ Cardinality(T) \in Nat
      BY <2>1, <2>2, FS_EmptySet, FS_CardinalityType
  <2> HIDE DEF T
  <2>4. Cardinality(T) \in 1..Cardinality(opening)
      BY <1>1, <2>1, <2>3
  <2> QED
      BY <2>4 DEF T
<1>5. UNION Range(batches) = steps
  <2>1. ASSUME NEW i \in steps PROVE i \in UNION Range(batches)
    <3> DEFINE b == Cardinality({j \in opening : j <= i})
    <3>1. b \in 1..Cardinality(opening)
        BY <1>4
    <3>2. i \in {j \in steps : Cardinality({k \in opening : k <= j}) = b}
        OBVIOUS
    <3> HIDE DEF b
    <3>3. i \in batches[b] /\ b \in DOMAIN batches
        BY <1>2, <3>1, <3>2
    <3> QED
        BY <3>3 DEF Range
  <2>2. ASSUME NEW i \in UNION Range(batches) PROVE i \in steps
    <3>1. PICK b \in DOMAIN batches : i \in batches[b]
        BY DEF Range
    <3>2. batches[b] \subseteq steps
        BY <1>2, <3>1
    <3> QED
        BY <3>1, <3>2
  <2> QED
      BY <2>1, <2>2
<1> QED
    BY <1>2, <1>3, <1>5

LEMMA Packed ==
    ASSUME NEW list \in Lists, NEW steps \in SUBSET (1..Count(list)), NEW batches,
           batches = packSteps[list][steps]
    PROVE  /\ batches \in Seq(SUBSET Nat)
           /\ UNION Range(batches) = steps
           /\ \A b, c \in DOMAIN batches : b # c => batches[b] \cap batches[c] = {}
<1>1. PICK opening \in SUBSET steps :
        /\ steps # {} => Min(steps) \in opening
        /\ batches = Numbered(steps, opening)
  <2> DEFINE size(i) == Steps[list][i].size
             load[i \in 0..Len(Steps[list])] ==
                IF i = 0 THEN 0
                ELSE IF i \notin steps THEN load[i - 1]
                ELSE IF load[i - 1] + size(i) <= CAPACITY THEN load[i - 1] + size(i)
                ELSE size(i)
             opening == {i \in steps : i = Min(steps) \/ load[i - 1] + size(i) > CAPACITY}
  <2>1. list \in DOMAIN Steps /\ steps \in SUBSET DOMAIN Steps[list]
      BY ListShapes
  <2>2. batches = Numbered(steps, opening)
      BY <2>1 DEF packSteps, Numbered
  <2>3. opening \in SUBSET steps
      OBVIOUS
  <2>4. steps # {} => Min(steps) \in opening
    <3>1. Count(list) \in Nat /\ steps \in SUBSET (0..Count(list))
        BY ListShapes
    <3>2. steps # {} => Min(steps) \in steps
        BY <3>1, MinIsLeast
    <3> QED
        BY <3>2
  <2> HIDE DEF opening
  <2> QED
      BY <2>2, <2>3, <2>4
<1>2. Count(list) \in Nat
    BY ListShapes
<1> DEFINE n == Count(list)
<1>3. n \in Nat /\ steps \in SUBSET (1..n)
    BY <1>2
<1> HIDE DEF n
<1> QED
    BY <1>1, <1>3, NumberedApart

-----------------------------------------------------------------------------
\* The invariant.  It is stated of a run, and of statuses, beside a world: what
\* is on screen and on chain.

Here == [form |-> form, oracle |-> oracle, shown |-> shown, edited |-> edited,
         accounts |-> accounts]

Marks == {"pending", "running", "done", "error"}
Kinds(f) == IF f = "deposit" THEN {"contribute", "add"} ELSE {f}
Ours(f) == Kinds(f) \X Oracles
Width(f) == Count(<<f, CHOOSE o \in Oracles : TRUE>>)
Held(w, list, i) == Steps[list][i].adds \subseteq w.accounts
AllActive(w) == \A m \in Ready : <<"active", "market", m>> \in w.accounts

\* Statuses are of the steps of the form's list, and those done are done.
Fits(w, st) ==
    /\ \A i \in DOMAIN st : st[i] \in Marks
    /\ w.form # "deposit" => DOMAIN st \subseteq 1..Width(w.form)
Honest(w, st) ==
    w.form # "deposit" =>
        \A i \in DOMAIN st : st[i] = "done" => Held(w, <<w.form, w.oracle>>, i)
GoodStatuses(w, st) ==
    /\ Fits(w, st)
    /\ ~w.edited => Honest(w, st) /\ (DOMAIN st = {} \/ w.shown = w.oracle)

\* A run whose steps are being built will start from statuses as good.
Building(w, r) ==
    /\ r.pc = "build"
    /\ r = [pc |-> "build", oracle |-> r.oracle, seen |-> r.seen, click |-> r.click]
    /\ r.oracle \in Oracles /\ r.click \in Nat /\ Fits(w, r.seen)
    /\ ~w.edited => r.oracle = w.oracle /\ Honest(w, r.seen)

RunType ==
    [pc : {"probe", "sign", "relay", "confirm"}, list : Lists, click : Nat, next : Nat \ {0},
     missing : SUBSET Nat, batches : Seq(SUBSET Nat), fate : {"none", "landed", "failed"}]
ToSend(r) == UNION Range(r.batches)
Apart(batches) == \A b, c \in DOMAIN batches : b # c => batches[b] \cap batches[c] = {}

\* The run of a deposit goes through all steps, and skips none that pays.
Paying(w, r) ==
    /\ r.pc = "probe" => \A i \in 1..Count(r.list) :
          i < r.next => i \in r.missing \/ (i > Group /\ Held(w, r.list, i))
    /\ r.pc # "probe" => \A i \in 1..Count(r.list) : i \in ToSend(r) \/ Held(w, r.list, i)
    /\ r.list[1] = "add" => AllActive(w)

UnderWay(w, r) ==
    /\ r \in RunType /\ r.list \in Ours(w.form)
    /\ r.missing \subseteq 1..Count(r.list) /\ ToSend(r) \subseteq 1..Count(r.list)
    /\ Apart(r.batches)
    /\ r.pc # "probe" => r.batches # <<>>
    /\ r.pc # "confirm" => r.fate = "none"
    /\ r.fate = "landed" => \A i \in r.batches[1] : Held(w, r.list, i)
    /\ ~w.edited => r.list[2] = w.oracle /\ w.shown = w.oracle
    /\ w.form = "deposit" => Paying(w, r)

GoodRun(w, r) == r = Idle \/ Building(w, r) \/ UnderWay(w, r)

\* A transaction in flight is the one its run waits for, or nobody's.
TxType == [by : Nat, click : Nat, list : Lists, batch : SUBSET Nat]
Linked(tx, rs) ==
    /\ tx.by \in Invocations /\ rs[tx.by].pc = "confirm" /\ rs[tx.by].fate = "none"
    /\ tx = Transaction(tx.by, rs[tx.by])
GoodFlight(f, rs, txs) ==
    /\ IsFiniteSet(txs)
    /\ \A tx \in txs : /\ tx \in TxType /\ tx.list \in Ours(f) /\ tx.batch \subseteq 1..Count(tx.list)
                       /\ tx.by # 0 => Linked(tx, rs)

\* Each click owes each market one deposit at most: a run that has not sent
\* it, or a transaction in flight.  What a run may still report as paid was.
Unsent(r) ==
    CASE r.pc = "idle" -> {}
      [] r.pc \in {"build", "probe"} -> Nat
      [] r.pc \in {"sign", "relay"} -> ToSend(r)
      [] r.pc = "confirm" -> ToSend(r) \ r.batches[1]
Credits(r, m) ==
    /\ r.pc \in {"sign", "relay", "confirm"}
    /\ m \in ToSend(r) => r.pc = "confirm" /\ r.fate = "landed" /\ m \in r.batches[1]
Owing(rs, m) == {s \in Invocations : m \in Unsent(rs[s])}
Carrying(txs, m) == {tx \in txs : m \in tx.batch}
Crediting(rs, m) == {s \in Invocations : Credits(rs[s], m)}

Deposits ==
    form = "deposit" =>
        /\ \A m \in 1..Group :
              /\ paid[m] + Cardinality(Owing(runs, m)) + Cardinality(Carrying(flight, m)) <= clicks
              /\ finished + Cardinality(Crediting(runs, m)) <= paid[m]
        /\ finished > 0 => AllActive(Here)

\* The types; what is true of screen and runs beside the world; the invariant.
Plain ==
    /\ form \in Forms /\ oracle \in Oracles /\ shown \in Oracles /\ listed \subseteq Oracles
    /\ clicks \in 0..MaxDeposits /\ paid \in [1..Group -> Nat] /\ finished \in Nat
    /\ edited \in BOOLEAN /\ faults \in 0..MaxFaults
    /\ DOMAIN runs = Invocations /\ runs = [s \in Invocations |-> runs[s]]
Truth == GoodStatuses(Here, statuses) /\ \A s \in Invocations : GoodRun(Here, runs[s])
SequenceInv == Plain /\ Truth /\ GoodFlight(form, runs, flight) /\ Deposits

-----------------------------------------------------------------------------
\* What a step leaves true

LEMMA OursAreWide ==
    ASSUME NEW f \in Forms, NEW list \in Ours(f)
    PROVE  /\ list \in Lists /\ list[2] \in Oracles
           /\ Count(list) \in Nat
           /\ f # "deposit" => /\ list = <<f, list[2]>>
                             /\ Width(f) \in Nat /\ Count(list) = Width(f)
           /\ f = "deposit" => list = <<"contribute", list[2]>> \/ list = <<"add", list[2]>>
<1> DEFINE some == CHOOSE o \in Oracles : TRUE
<1>1. some \in Oracles /\ f \in {"activate", "create", "deposit", "compose"}
    BY SequenceAssumption
<1>2. PICK kind \in Kinds(f), o \in Oracles : list = <<kind, o>>
    BY DEF Ours
<1>3. list \in Lists /\ list[2] = o
    BY <1>1, <1>2 DEF Lists, Kinds
<1> HIDE DEF some
<1>4. CASE f = "deposit"
    BY <1>2, <1>3, <1>4, ListShapes DEF Kinds
<1>5. CASE f # "deposit"
  <2>1. <<f, some>> \in Lists
      BY <1>1, <1>5 DEF Lists
  <2>2. Count(<<f, o>>) = Count(<<f, some>>)
      BY <1>1, <1>5, ListShapes
  <2> QED
      BY <1>2, <1>3, <1>5, <2>1, <2>2, ListShapes DEF Kinds, Width, some
<1> QED
    BY <1>4, <1>5

\* The world w comes after v, and no other oracle was entered between.
Onward(v, w) ==
    /\ w.form = v.form /\ v.accounts \subseteq w.accounts
    /\ ~w.edited => ~v.edited /\ w.oracle = v.oracle /\ w.shown \in {v.shown, v.oracle}

LEMMA RunStays ==
    ASSUME NEW v, NEW w, Onward(v, w), NEW r, GoodRun(v, r)
    PROVE  GoodRun(w, r)
<1>1. \A list, i : Held(v, list, i) => Held(w, list, i)
    BY DEF Held, Onward
<1>2. AllActive(v) => AllActive(w)
    BY DEF AllActive, Onward
<1>3. CASE Building(v, r)
  <2>1. Fits(w, r.seen)
      BY <1>3 DEF Building, Fits, Onward
  <2>2. ~w.edited => r.oracle = w.oracle /\ Honest(w, r.seen)
      BY <1>1, <1>3 DEF Building, Honest, Onward
  <2> QED
      BY <1>3, <2>1, <2>2 DEF GoodRun, Building
<1>4. CASE UnderWay(v, r)
  <2>1. w.form = "deposit" => Paying(w, r)
      BY <1>1, <1>2, <1>4 DEF UnderWay, Paying, Onward
  <2>2. r.fate = "landed" => \A i \in r.batches[1] : Held(w, r.list, i)
      BY <1>1, <1>4 DEF UnderWay
  <2>3. /\ r.list \in Ours(w.form)
        /\ ~w.edited => r.list[2] = w.oracle /\ w.shown = w.oracle
      BY <1>4 DEF UnderWay, Onward
  <2>4. UnderWay(w, r)
      BY <1>4, <2>1, <2>2, <2>3 DEF UnderWay
  <2> QED
      BY <2>4 DEF GoodRun
<1> QED
    BY <1>3, <1>4 DEF GoodRun

LEMMA StatusesStay ==
    ASSUME NEW v, NEW w, Onward(v, w), NEW st, GoodStatuses(v, st)
    PROVE  GoodStatuses(w, st)
<1>1. \A list, i : Held(v, list, i) => Held(w, list, i)
    BY DEF Held, Onward
<1>2. Fits(w, st)
    BY DEF GoodStatuses, Fits, Onward
<1>3. ~w.edited => Honest(w, st)
    BY <1>1 DEF GoodStatuses, Honest, Onward
<1> QED
    BY <1>2, <1>3 DEF GoodStatuses, Onward

\* Marks on steps of the list of a run that is under way.
LEMMA MarkedStatuses ==
    ASSUME NEW w, NEW st, GoodStatuses(w, st), NEW list \in Ours(w.form),
           w.form \in Forms,
           NEW S \in SUBSET (1..Count(list)), NEW mark \in Marks,
           mark = "done" => \A i \in S : Held(w, list, i),
           ~w.edited => list[2] = w.oracle /\ w.shown = w.oracle
    PROVE  GoodStatuses(w, Mark(st, S, mark))
<1> DEFINE marked == Mark(st, S, mark)
<1>1. /\ DOMAIN marked = S \cup DOMAIN st
      /\ \A i \in DOMAIN marked : marked[i] = IF i \in S THEN mark ELSE st[i]
    BY DEF Mark
<1> HIDE DEF marked
<1>2. w.form # "deposit" => list = <<w.form, list[2]>> /\ Count(list) = Width(w.form)
    BY OursAreWide
<1>3. Fits(w, marked)
    BY <1>1, <1>2 DEF GoodStatuses, Fits
<1>4. ~w.edited => Honest(w, marked)
    BY <1>1, <1>2 DEF GoodStatuses, Honest
<1> QED
    BY <1>3, <1>4 DEF GoodStatuses, marked

-----------------------------------------------------------------------------
\* What clicks owe and markets have got, counted

LEMMA Counted ==
    ASSUME NEW rs, NEW txs, IsFiniteSet(txs), NEW m
    PROVE  /\ IsFiniteSet(Owing(rs, m)) /\ Cardinality(Owing(rs, m)) \in Nat
           /\ IsFiniteSet(Carrying(txs, m)) /\ Cardinality(Carrying(txs, m)) \in Nat
           /\ IsFiniteSet(Crediting(rs, m)) /\ Cardinality(Crediting(rs, m)) \in Nat
<1>1. IsFiniteSet(Invocations)
    BY SequenceAssumption, FS_Interval DEF Invocations
<1>2. Owing(rs, m) \subseteq Invocations /\ Crediting(rs, m) \subseteq Invocations
    BY DEF Owing, Crediting
<1>3. Carrying(txs, m) \subseteq txs
    BY DEF Carrying
<1> QED
    BY <1>1, <1>2, <1>3, FS_Subset, FS_CardinalityType

Image(g, S) == {g[x] : x \in S}

LEMMA ImageIsSmaller ==
    ASSUME NEW S, IsFiniteSet(S), NEW g
    PROVE  IsFiniteSet(Image(g, S)) /\ Cardinality(Image(g, S)) <= Cardinality(S)
<1> DEFINE h == [x \in S |-> g[x]]
<1>1. h \in [S -> Image(g, S)] /\ \A t \in Image(g, S) : \E x \in S : h[x] = t
    BY DEF Image
<1> HIDE DEF h
<1>2. h \in Surjection(S, Image(g, S))
    BY <1>1 DEF Surjection
<1> QED
    BY <1>2, FS_Surjection

\* r sends no more than r0 would, and nothing that r0 has not paid is paid by it.
Follows(r0, r) ==
    /\ Unsent(r) \subseteq Unsent(r0)
    /\ \A m \in 1..Group : Credits(r, m) => Credits(r0, m)

LEMMA Calmer ==
    ASSUME NEW rs, NEW rs2, \A s \in Invocations : Follows(rs[s], rs2[s]),
           NEW txs, IsFiniteSet(txs), NEW g, \A tx \in txs : g[tx].batch = tx.batch,
           NEW txs2, txs2 \subseteq Image(g, txs),
           NEW m \in 1..Group
    PROVE  /\ Cardinality(Owing(rs2, m)) <= Cardinality(Owing(rs, m))
           /\ Cardinality(Carrying(txs2, m)) <= Cardinality(Carrying(txs, m))
           /\ Cardinality(Crediting(rs2, m)) <= Cardinality(Crediting(rs, m))
<1>1. Owing(rs2, m) \subseteq Owing(rs, m) /\ Crediting(rs2, m) \subseteq Crediting(rs, m)
    BY DEF Owing, Crediting, Follows
<1> DEFINE image == Image(g, Carrying(txs, m))
<1>2. Carrying(txs2, m) \subseteq image
    BY DEF Carrying, Image
<1>3. IsFiniteSet(image) /\ Cardinality(image) <= Cardinality(Carrying(txs, m))
  <2>1. IsFiniteSet(Carrying(txs, m))
      BY Counted
  <2> QED
      BY <2>1, ImageIsSmaller
<1>4. /\ Cardinality(Carrying(txs2, m)) <= Cardinality(image)
      /\ Cardinality(Carrying(txs2, m)) \in Nat /\ Cardinality(image) \in Nat
    BY <1>2, <1>3, FS_Subset, FS_CardinalityType
<1>5. Cardinality(Carrying(txs, m)) \in Nat
    BY Counted
<1>6. /\ Cardinality(Owing(rs2, m)) <= Cardinality(Owing(rs, m))
      /\ Cardinality(Crediting(rs2, m)) <= Cardinality(Crediting(rs, m))
    BY <1>1, Counted, FS_Subset
<1> HIDE DEF image
<1> QED
    BY <1>3, <1>4, <1>5, <1>6

LEMMA QuietDeposits ==
    ASSUME SequenceInv, form' = form, accounts \subseteq accounts',
           UNCHANGED <<paid, clicks, finished>>,
           \A s \in Invocations : Follows(runs[s], runs'[s]),
           NEW g, \A tx \in flight : g[tx].batch = tx.batch,
           flight' \subseteq Image(g, flight)
    PROVE  Deposits'
<1> SUFFICES ASSUME form = "deposit" PROVE Deposits'
    BY DEF Deposits
<1>1. /\ IsFiniteSet(flight) /\ clicks \in Nat /\ finished \in Nat /\ Deposits
      /\ \A m \in 1..Group : paid[m] \in Nat
    BY SequenceAssumption DEF SequenceInv, Plain, GoodFlight
<1>2. ASSUME NEW m \in 1..Group
      PROVE  /\ paid'[m] + Cardinality(Owing(runs', m)) + Cardinality(Carrying(flight', m)) <= clicks'
             /\ finished' + Cardinality(Crediting(runs', m)) <= paid'[m]
  <2> DEFINE o == Cardinality(Owing(runs, m))
             c == Cardinality(Carrying(flight, m))
             k == Cardinality(Crediting(runs, m))
             o2 == Cardinality(Owing(runs', m))
             c2 == Cardinality(Carrying(flight', m))
             k2 == Cardinality(Crediting(runs', m))
             q == paid[m]
  <2>1. o2 <= o /\ c2 <= c /\ k2 <= k
    <3> DEFINE rs2 == runs'
               txs2 == flight'
    <3>1. /\ \A s \in Invocations : Follows(runs[s], rs2[s])
          /\ txs2 \subseteq Image(g, flight)
        OBVIOUS
    <3> HIDE DEF rs2, txs2
    <3>2. /\ Cardinality(Owing(rs2, m)) <= Cardinality(Owing(runs, m))
          /\ Cardinality(Carrying(txs2, m)) <= Cardinality(Carrying(flight, m))
          /\ Cardinality(Crediting(rs2, m)) <= Cardinality(Crediting(runs, m))
        BY <1>1, <3>1, Calmer
    <3> QED
        BY <3>2 DEF rs2, txs2
  <2>2. IsFiniteSet(flight')
    <3>1. IsFiniteSet(Image(g, flight))
        BY <1>1, ImageIsSmaller
    <3> QED
        BY <3>1, FS_Subset
  <2>3. o \in Nat /\ c \in Nat /\ k \in Nat /\ o2 \in Nat /\ c2 \in Nat /\ k2 \in Nat /\ q \in Nat
      BY <1>1, <2>2, Counted
  <2>4. q + o + c <= clicks /\ finished + k <= q
      BY <1>1 DEF Deposits
  <2> HIDE DEF o, c, k, o2, c2, k2, q
  <2>5. q + o2 + c2 <= clicks /\ finished + k2 <= q
      BY <1>1, <2>1, <2>3, <2>4
  <2> QED
      BY <2>5 DEF o2, c2, k2, q
<1>3. finished' > 0 => AllActive(Here)'
    BY <1>1 DEF Deposits, AllActive, Here
<1> QED
    BY <1>2, <1>3 DEF Deposits

\* One more transaction in flight, by a run that had not sent its steps.
LEMMA RelayedDeposits ==
    ASSUME SequenceInv, form' = form, accounts' = accounts,
           UNCHANGED <<paid, clicks, finished>>,
           NEW s \in Invocations, NEW r, runs' = [runs EXCEPT ![s] = r], Follows(runs[s], r),
           NEW tx, flight' \subseteq flight \cup {tx},
           tx.batch \subseteq Unsent(runs[s]), Unsent(r) \cap tx.batch = {}
    PROVE  Deposits'
<1> SUFFICES ASSUME form = "deposit" PROVE Deposits'
    BY DEF Deposits
<1>1. /\ IsFiniteSet(flight) /\ clicks \in Nat /\ finished \in Nat /\ Deposits
      /\ \A m \in 1..Group : paid[m] \in Nat
      /\ DOMAIN runs = Invocations
    BY SequenceAssumption DEF SequenceInv, Plain, GoodFlight
<1>2. IsFiniteSet(flight \cup {tx}) /\ IsFiniteSet(flight')
    BY <1>1, FS_AddElement, FS_Subset
<1>3. ASSUME NEW m \in 1..Group
      PROVE  /\ paid'[m] + Cardinality(Owing(runs', m)) + Cardinality(Carrying(flight', m)) <= clicks'
             /\ finished' + Cardinality(Crediting(runs', m)) <= paid'[m]
  <2> DEFINE o == Cardinality(Owing(runs, m))
             c == Cardinality(Carrying(flight, m))
             k == Cardinality(Crediting(runs, m))
             o2 == Cardinality(Owing(runs', m))
             c2 == Cardinality(Carrying(flight', m))
             k2 == Cardinality(Crediting(runs', m))
             q == paid[m]
  <2>1. o \in Nat /\ c \in Nat /\ k \in Nat /\ o2 \in Nat /\ c2 \in Nat /\ k2 \in Nat /\ q \in Nat
      BY <1>1, <1>2, Counted
  <2>2. q + o + c <= clicks /\ finished + k <= q
      BY <1>1 DEF Deposits
  <2>3. k2 <= k
    <3>1. Crediting(runs', m) \subseteq Crediting(runs, m)
        BY <1>1 DEF Crediting, Follows
    <3> QED
        BY <1>1, <3>1, Counted, FS_Subset
  <2>4. o2 + c2 <= o + c
    <3>1. CASE m \in tx.batch
      <4>1. s \in Owing(runs, m) /\ Owing(runs', m) \subseteq Owing(runs, m) \ {s}
          BY <1>1, <3>1 DEF Owing, Follows
      <4>2. /\ IsFiniteSet(Owing(runs, m) \ {s})
            /\ Cardinality(Owing(runs, m) \ {s}) = o - 1
          BY <1>1, <4>1, Counted, FS_RemoveElement
      <4>3. o2 <= o - 1
        <5> DEFINE A == Owing(runs, m) \ {s}
                   B == Owing(runs', m)
        <5>1. IsFiniteSet(A) /\ B \subseteq A
            BY <4>1, <4>2
        <5> HIDE DEF A, B
        <5>2. Cardinality(B) <= Cardinality(A)
            BY <5>1, FS_Subset
        <5> QED
            BY <4>2, <5>2 DEF A, B
      <4>4. Carrying(flight', m) \subseteq Carrying(flight, m) \cup {tx}
          BY DEF Carrying
      <4>5. /\ IsFiniteSet(Carrying(flight, m) \cup {tx})
            /\ Cardinality(Carrying(flight, m) \cup {tx}) \in Nat
            /\ Cardinality(Carrying(flight, m) \cup {tx}) <= c + 1
        <5>1. IsFiniteSet(Carrying(flight, m))
            BY <1>1, Counted
        <5> HIDE DEF c
        <5>2. Cardinality(Carrying(flight, m) \cup {tx}) = IF tx \in Carrying(flight, m) THEN c ELSE c + 1
            BY <5>1, FS_AddElement DEF c
        <5> QED
            BY <2>1, <5>1, <5>2, FS_AddElement
      <4>6. c2 <= Cardinality(Carrying(flight, m) \cup {tx})
          BY <4>4, <4>5, FS_Subset
      <4> HIDE DEF o, c, k, o2, c2, k2, q
      <4> QED
          BY <2>1, <4>3, <4>5, <4>6
    <3>2. CASE m \notin tx.batch
      <4>1. /\ Owing(runs', m) \subseteq Owing(runs, m)
            /\ Carrying(flight', m) \subseteq Carrying(flight, m)
          BY <1>1, <3>2 DEF Owing, Carrying, Follows
      <4>2. o2 <= o /\ c2 <= c
          BY <1>1, <4>1, Counted, FS_Subset
      <4> HIDE DEF o, c, k, o2, c2, k2, q
      <4> QED
          BY <2>1, <4>2
    <3> QED
        BY <3>1, <3>2
  <2> HIDE DEF o, c, k, o2, c2, k2, q
  <2>5. q + o2 + c2 <= clicks /\ finished + k2 <= q
      BY <1>1, <2>1, <2>2, <2>3, <2>4
  <2> QED
      BY <2>5 DEF o2, c2, k2, q
<1>4. finished' > 0 => AllActive(Here)'
    BY <1>1 DEF Deposits, AllActive, Here
<1> QED
    BY <1>3, <1>4 DEF Deposits

\* One more click, whose steps are being built.
LEMMA ClickedDeposits ==
    ASSUME SequenceInv, form' = form, accounts' = accounts, clicks' = clicks + 1,
           UNCHANGED <<paid, finished, flight>>,
           NEW s \in Invocations, NEW r, runs' = [runs EXCEPT ![s] = r], r.pc = "build"
    PROVE  Deposits'
<1> SUFFICES ASSUME form = "deposit" PROVE Deposits'
    BY DEF Deposits
<1>1. /\ IsFiniteSet(flight) /\ clicks \in Nat /\ finished \in Nat /\ Deposits
      /\ \A m \in 1..Group : paid[m] \in Nat
      /\ DOMAIN runs = Invocations
    BY SequenceAssumption DEF SequenceInv, Plain, GoodFlight
<1>2. ASSUME NEW m \in 1..Group
      PROVE  /\ paid'[m] + Cardinality(Owing(runs', m)) + Cardinality(Carrying(flight', m)) <= clicks'
             /\ finished' + Cardinality(Crediting(runs', m)) <= paid'[m]
  <2> DEFINE A == Owing(runs, m)
             B == Owing(runs', m)
             K == Crediting(runs, m)
             K2 == Crediting(runs', m)
             o == Cardinality(A)
             c == Cardinality(Carrying(flight, m))
             k == Cardinality(K)
             o2 == Cardinality(B)
             k2 == Cardinality(K2)
             q == paid[m]
  <2>1. /\ o \in Nat /\ c \in Nat /\ k \in Nat /\ o2 \in Nat /\ k2 \in Nat /\ q \in Nat
        /\ IsFiniteSet(A) /\ IsFiniteSet(K)
      BY <1>1, Counted
  <2>2. q + o + c <= clicks /\ finished + k <= q
      BY <1>1 DEF Deposits
  <2>3. K2 \subseteq K
      BY <1>1 DEF Crediting, Credits
  <2>4. B \subseteq A \cup {s}
      BY <1>1 DEF Owing
  <2>5. flight' = flight /\ paid'[m] = q
      OBVIOUS
  <2> HIDE DEF A, B, K, K2
  <2>6. k2 <= k /\ o2 <= o + 1
    <3>1. /\ IsFiniteSet(A \cup {s})
          /\ Cardinality(A \cup {s}) = IF s \in A THEN Cardinality(A) ELSE Cardinality(A) + 1
        BY <2>1, FS_AddElement
    <3>2. Cardinality(B) <= Cardinality(A \cup {s})
        BY <2>4, <3>1, FS_Subset
    <3>3. k2 <= k
        BY <2>1, <2>3, FS_Subset
    <3> HIDE DEF k, k2
    <3> QED
        BY <2>1, <3>1, <3>2, <3>3
  <2> HIDE DEF o, c, k, o2, k2, q
  <2>7. q + o2 + c <= clicks + 1 /\ finished + k2 <= q
      BY <1>1, <2>1, <2>2, <2>6
  <2> QED
      BY <2>5, <2>7 DEF o2, c, k2, q, B, K2
<1>3. finished' > 0 => AllActive(Here)'
    BY <1>1 DEF Deposits, AllActive, Here
<1> QED
    BY <1>2, <1>3 DEF Deposits

\* The last transaction of a run is confirmed.
LEMMA FinishedDeposits ==
    ASSUME SequenceInv, form' = form, accounts' = accounts, finished' = finished + 1,
           UNCHANGED <<paid, clicks, flight>>, form = "deposit", AllActive(Here),
           NEW s \in Invocations, runs' = [runs EXCEPT ![s] = Idle],
           \A m \in 1..Group : Credits(runs[s], m)
    PROVE  Deposits'
<1>1. /\ IsFiniteSet(flight) /\ clicks \in Nat /\ finished \in Nat /\ Deposits
      /\ \A m \in 1..Group : paid[m] \in Nat
      /\ DOMAIN runs = Invocations
    BY SequenceAssumption DEF SequenceInv, Plain, GoodFlight
<1>2. ASSUME NEW m \in 1..Group
      PROVE  /\ paid'[m] + Cardinality(Owing(runs', m)) + Cardinality(Carrying(flight', m)) <= clicks'
             /\ finished' + Cardinality(Crediting(runs', m)) <= paid'[m]
  <2> DEFINE A == Owing(runs, m)
             B == Owing(runs', m)
             K == Crediting(runs, m)
             K2 == Crediting(runs', m)
             o == Cardinality(A)
             c == Cardinality(Carrying(flight, m))
             k == Cardinality(K)
             o2 == Cardinality(B)
             k2 == Cardinality(K2)
             q == paid[m]
  <2>1. /\ o \in Nat /\ c \in Nat /\ k \in Nat /\ o2 \in Nat /\ k2 \in Nat /\ q \in Nat
        /\ IsFiniteSet(A) /\ IsFiniteSet(K)
      BY <1>1, Counted
  <2>2. q + o + c <= clicks /\ finished + k <= q
      BY <1>1 DEF Deposits
  <2>3. s \in K /\ K2 \subseteq K \ {s}
      BY <1>1 DEF Crediting, Credits, Idle
  <2>4. B \subseteq A
      BY <1>1 DEF Owing, Unsent, Idle
  <2>5. flight' = flight /\ paid'[m] = q
      OBVIOUS
  <2> HIDE DEF A, B, K, K2
  <2>6. k2 <= k - 1 /\ o2 <= o
    <3>1. IsFiniteSet(K \ {s}) /\ Cardinality(K \ {s}) = k - 1
        BY <2>1, <2>3, FS_RemoveElement
    <3>2. Cardinality(K2) <= Cardinality(K \ {s})
        BY <2>3, <3>1, FS_Subset
    <3>3. o2 <= o
        BY <2>1, <2>4, FS_Subset
    <3> HIDE DEF k
    <3> QED
        BY <3>1, <3>2, <3>3
  <2> HIDE DEF o, c, k, o2, k2, q
  <2>7. q + o2 + c <= clicks /\ (finished + 1) + k2 <= q
      BY <1>1, <2>1, <2>2, <2>6
  <2> QED
      BY <2>5, <2>7 DEF o2, c, k2, q, B, K2
<1>3. finished' > 0 => AllActive(Here)'
    BY DEF AllActive, Here
<1> QED
    BY <1>2, <1>3 DEF Deposits

\* A transaction leaves the flight and pays the markets of `pays`, at most
\* those it carried; only they are credited, to one run at most.
LEMMA LandedDeposits ==
    ASSUME SequenceInv, form' = form, accounts \subseteq accounts',
           UNCHANGED <<clicks, finished>>,
           NEW tx \in flight, flight' = flight \ {tx},
           NEW by, NEW pays, pays \subseteq tx.batch,
           paid' = [m \in 1..Group |-> paid[m] + IF m \in pays THEN 1 ELSE 0],
           \A m \in 1..Group : Owing(runs', m) \subseteq Owing(runs, m),
           \A m \in 1..Group : Crediting(runs', m) \subseteq
                Crediting(runs, m) \cup (IF m \in pays THEN {by} ELSE {})
    PROVE  Deposits'
<1> SUFFICES ASSUME form = "deposit" PROVE Deposits'
    BY DEF Deposits
<1>1. /\ IsFiniteSet(flight) /\ clicks \in Nat /\ finished \in Nat /\ Deposits
      /\ \A m \in 1..Group : paid[m] \in Nat
    BY SequenceAssumption DEF SequenceInv, Plain, GoodFlight
<1>2. ASSUME NEW m \in 1..Group
      PROVE  /\ paid'[m] + Cardinality(Owing(runs', m)) + Cardinality(Carrying(flight', m)) <= clicks'
             /\ finished' + Cardinality(Crediting(runs', m)) <= paid'[m]
  <2> DEFINE A == Owing(runs, m)
             B == Owing(runs', m)
             C == Carrying(flight, m)
             C2 == Carrying(flight', m)
             K == Crediting(runs, m)
             K2 == Crediting(runs', m)
             o == Cardinality(A)
             c == Cardinality(C)
             k == Cardinality(K)
             o2 == Cardinality(B)
             c2 == Cardinality(C2)
             k2 == Cardinality(K2)
             q == paid[m]
             q2 == paid'[m]
  <2>1. /\ o \in Nat /\ c \in Nat /\ k \in Nat /\ o2 \in Nat /\ k2 \in Nat /\ q \in Nat
        /\ IsFiniteSet(A) /\ IsFiniteSet(C) /\ IsFiniteSet(K)
      BY <1>1, Counted
  <2>2. q + o + c <= clicks /\ finished + k <= q
      BY <1>1 DEF Deposits
  <2>3. B \subseteq A /\ K2 \subseteq K \cup (IF m \in pays THEN {by} ELSE {})
      OBVIOUS
  <2>4. C2 = IF m \in tx.batch THEN C \ {tx} ELSE C
      BY DEF Carrying
  <2>5. m \in tx.batch => tx \in C
      BY DEF Carrying
  <2>6. q2 = q + IF m \in pays THEN 1 ELSE 0
      OBVIOUS
  <2>7. m \in pays => m \in tx.batch
      OBVIOUS
  <2>8. finished' = finished /\ clicks' = clicks
      OBVIOUS
  <2> HIDE DEF A, B, C, C2, K, K2, q, q2
  <2>9. o2 <= o
      BY <2>1, <2>3, FS_Subset
  <2>10. c2 \in Nat /\ IF m \in tx.batch THEN c2 = c - 1 ELSE c2 = c
    <3>1. CASE m \in tx.batch
      <4>1. IsFiniteSet(C \ {tx}) /\ Cardinality(C \ {tx}) = c - 1
          BY <2>1, <2>5, <3>1, FS_RemoveElement
      <4> QED
          BY <2>4, <3>1, <4>1, FS_CardinalityType
    <3>2. CASE m \notin tx.batch
        BY <2>1, <2>4, <3>2
    <3> QED
        BY <3>1, <3>2
  <2>11. k2 <= k + IF m \in pays THEN 1 ELSE 0
    <3>1. CASE m \in pays
      <4>1. /\ IsFiniteSet(K \cup {by})
            /\ Cardinality(K \cup {by}) = IF by \in K THEN Cardinality(K) ELSE Cardinality(K) + 1
          BY <2>1, FS_AddElement
      <4>2. Cardinality(K2) <= Cardinality(K \cup {by})
          BY <2>3, <3>1, <4>1, FS_Subset
      <4> QED
          BY <2>1, <3>1, <4>1, <4>2
    <3>2. CASE m \notin pays
      <4>1. K2 \subseteq K
          BY <2>3, <3>2
      <4>2. k2 <= k
          BY <2>1, <4>1, FS_Subset
      <4> HIDE DEF k, k2
      <4> QED
          BY <2>1, <3>2, <4>2
    <3> QED
        BY <3>1, <3>2
  <2> HIDE DEF o, c, k, o2, c2, k2
  <2>12. q2 + o2 + c2 <= clicks /\ finished + k2 <= q2
    <3>1. CASE m \in pays
        BY <1>1, <2>1, <2>2, <2>6, <2>7, <2>9, <2>10, <2>11, <3>1
    <3>2. CASE m \notin pays
        BY <1>1, <2>1, <2>2, <2>6, <2>9, <2>10, <2>11, <3>2
    <3> QED
        BY <3>1, <3>2
  <2> QED
      BY <2>8, <2>12 DEF o2, c2, k2, q2, B, C2, K2
<1>3. finished' > 0 => AllActive(Here)'
    BY <1>1 DEF Deposits, AllActive, Here
<1> QED
    BY <1>2, <1>3 DEF Deposits

-----------------------------------------------------------------------------
\* Steps of one run

\* What is in flight for the other runs stays so.
LEMMA FlightsOfOthers ==
    ASSUME NEW f, NEW rs, NEW txs, GoodFlight(f, rs, txs), DOMAIN rs = Invocations,
           NEW s \in Invocations, rs[s].pc = "confirm" => rs[s].fate # "none",
           NEW r, NEW rs2, rs2 = [rs EXCEPT ![s] = r]
    PROVE  GoodFlight(f, rs2, txs) /\ \A tx \in txs : tx.by # s
<1>1. ASSUME NEW tx \in txs, tx.by # 0
      PROVE  Linked(tx, rs2) /\ tx.by # s
  <2>1. Linked(tx, rs)
      BY <1>1 DEF GoodFlight
  <2>2. tx.by # s
      BY <2>1 DEF Linked
  <2>3. rs2[tx.by] = rs[tx.by]
      BY <2>1, <2>2 DEF Linked
  <2> QED
      BY <2>1, <2>2, <2>3 DEF Linked
<1>2. s # 0
    BY DEF Invocations
<1> QED
    BY <1>1, <1>2 DEF GoodFlight

LEMMA OneRun ==
    ASSUME Truth, DOMAIN runs = Invocations, Onward(Here, Here'),
           NEW s \in Invocations, NEW r, runs' = [runs EXCEPT ![s] = r],
           GoodRun(Here', r), GoodStatuses(Here', statuses')
    PROVE  Truth'
<1> DEFINE v == Here
           w == Here'
           rs2 == runs'
<1>1. /\ \A t \in Invocations : GoodRun(v, runs[t])
      /\ Onward(v, w) /\ GoodRun(w, r)
      /\ rs2 = [runs EXCEPT ![s] = r] /\ DOMAIN runs = Invocations
    BY DEF Truth
<1> HIDE DEF v, w, rs2
<1>2. \A t \in Invocations : GoodRun(w, rs2[t])
  <2> TAKE t \in Invocations
  <2>1. CASE t = s
      BY <1>1, <2>1
  <2>2. CASE t # s
    <3>1. rs2[t] = runs[t] /\ GoodRun(v, runs[t])
        BY <1>1, <2>2
    <3> QED
        BY <1>1, <3>1, RunStays
  <2> QED
      BY <2>1, <2>2
<1> QED
    BY <1>2 DEF Truth, w, rs2

\* Nothing is relayed, paid or reported, and each run sends no more.
LEMMA StillDeposits ==
    ASSUME SequenceInv, form' = form, accounts \subseteq accounts',
           UNCHANGED <<paid, clicks, finished>>, flight' \subseteq flight,
           form = "deposit" => \A s \in Invocations : Follows(runs[s], runs'[s])
    PROVE  Deposits'
<1> SUFFICES ASSUME form = "deposit" PROVE Deposits'
    BY DEF Deposits
<1> DEFINE g == [tx \in flight |-> tx]
<1>1. (\A tx \in flight : g[tx].batch = tx.batch) /\ flight' \subseteq Image(g, flight)
    BY DEF Image
<1> HIDE DEF g
<1> QED
    BY <1>1, QuietDeposits

LEMMA RunSendsNoMore ==
    ASSUME SequenceInv, form' = form, accounts \subseteq accounts',
           UNCHANGED <<paid, clicks, finished>>, flight' \subseteq flight,
           NEW s \in Invocations, NEW r, runs' = [runs EXCEPT ![s] = r],
           form = "deposit" => Follows(runs[s], r)
    PROVE  Deposits'
<1>1. ASSUME NEW t \in Invocations, form = "deposit"
      PROVE  Follows(runs[t], runs'[t])
  <2>1. DOMAIN runs = Invocations
      BY DEF SequenceInv, Plain
  <2>2. Follows(runs[t], runs[t])
      BY DEF Follows
  <2> DEFINE r2 == runs'[t]
  <2>3. r2 = IF t = s THEN r ELSE runs[t]
      BY <2>1
  <2> HIDE DEF r2
  <2>4. Follows(runs[t], r2)
      BY <1>1, <2>2, <2>3
  <2> QED
      BY <2>4 DEF r2
<1> QED
    BY <1>1, StillDeposits

LEMMA IdleFollows ==
    ASSUME NEW r
    PROVE  Follows(r, Idle)
BY DEF Follows, Idle, Unsent, Credits

LEMMA Stays ==
    ASSUME UNCHANGED <<form, oracle, shown, edited>>, accounts \subseteq accounts'
    PROVE  Onward(Here, Here')
BY DEF Onward, Here

LEMMA SamePlain ==
    ASSUME Plain, UNCHANGED <<screen, clicks, paid, finished>>,
           faults' \in 0..MaxFaults,
           NEW s \in Invocations, NEW r, runs' = [runs EXCEPT ![s] = r]
    PROVE  Plain'
BY DEF Plain, screen

LEMMA FaultsBounded ==
    ASSUME Plain
    PROVE  (Fault \/ Fine) => faults' \in 0..MaxFaults
BY SequenceAssumption DEF Plain, Fault, Fine

LEMMA FirstIs ==
    ASSUME NEW n \in Nat, NEW st, DOMAIN st \subseteq 1..n
    PROVE  FirstNotDone(st) \in Nat \ {0}
<1> DEFINE c == Cardinality(DOMAIN st)
           S == {i \in DOMAIN st : st[i] # "done"} \cup {c + 1}
<1>1. c \in 0..n
  <2>1. IsFiniteSet(1..n) /\ Cardinality(1..n) = n
      BY FS_Interval
  <2>2. IsFiniteSet(DOMAIN st) /\ c <= n
      BY <2>1, FS_Subset
  <2>3. c \in Nat
      BY <2>2, FS_CardinalityType
  <2> QED
      BY <2>2, <2>3
<1>2. S \subseteq 1..n + 1 /\ c + 1 \in S
  <2> HIDE DEF c
  <2> QED
      BY <1>1
<1>3. Min(S) = FirstNotDone(st)
    BY DEF FirstNotDone
<1> HIDE DEF S, c
<1>4. n + 1 \in Nat /\ S \in SUBSET (0..n + 1) /\ S # {} /\ 0 \notin S
    BY <1>2
<1>5. Min(S) \in S
    BY <1>4, MinIsLeast
<1>6. \A x \in S : x \in Nat \ {0}
    BY <1>2
<1> QED
    BY <1>3, <1>5, <1>6, Zenon

LEMMA BuiltIsOurs ==
    ASSUME form \in Forms, NEW o \in Oracles
    PROVE  /\ Built(o) \in Ours(form) /\ Built(o)[2] = o
           /\ form = "deposit" /\ Built(o)[1] = "add" => AllActive(Here)
<1>1. CASE form = "deposit"
  <2>1. CASE \A m \in Ready : <<"active", "market", m>> \in accounts
    <3>1. Built(o) = <<"add", o>>
        BY <1>1, <2>1 DEF Built
    <3> QED
        BY <1>1, <2>1, <3>1 DEF Ours, Kinds, AllActive, Here
  <2>2. CASE ~\A m \in Ready : <<"active", "market", m>> \in accounts
    <3>1. Built(o) = <<"contribute", o>>
        BY <1>1, <2>2 DEF Built
    <3> QED
        BY <1>1, <3>1 DEF Ours, Kinds
  <2> QED
      BY <2>1, <2>2
<1>2. CASE form # "deposit"
  <2>1. Built(o) = <<form, o>>
      BY <1>2 DEF Built
  <2> QED
      BY <1>2, <2>1 DEF Ours, Kinds
<1> QED
    BY <1>1, <1>2

\* A run starts from statuses as good as those that were on screen.
LEMMA Starts ==
    ASSUME form \in Forms, NEW n \in Nat, form # "deposit" => n = Width(form),
           NEW seen, Fits(Here, seen), NEW start \in Nat, form = "deposit" => start # 0
    PROVE  LET first == initialRunState(n, seen, start)
           IN  /\ first.begin \in Nat \ {0}
               /\ start # 0 => first.begin = start
               /\ Fits(Here, first.st)
               /\ Honest(Here, seen) => Honest(Here, first.st)
<1> DEFINE reuse == Cardinality(DOMAIN seen) = n /\ (start = 0 \/ form = "compose")
           st == IF reuse THEN seen ELSE [i \in 1..n |-> "pending"]
           begin == IF start # 0 THEN start ELSE FirstNotDone(st)
           st2 == [i \in DOMAIN st |-> IF i >= begin /\ st[i] = "error" THEN "pending" ELSE st[i]]
<1>1. initialRunState(n, seen, start) = [begin |-> begin, st |-> st2]
    BY DEF initialRunState
<1> HIDE DEF reuse
<1>2. Fits(Here, st)
    BY DEF Fits, Here, Marks
<1>3. Honest(Here, seen) => Honest(Here, st)
    BY DEF Honest, Here
<1> HIDE DEF st
<1>4. begin \in Nat \ {0}
  <2>1. CASE start = 0
    <3>1. form # "deposit" /\ DOMAIN st \subseteq 1..n
        BY <1>2, <2>1 DEF Fits, Here
    <3> QED
        BY <2>1, <3>1, FirstIs
  <2>2. CASE start # 0
      BY <2>2
  <2> QED
      BY <2>1, <2>2
<1>5. start # 0 => begin = start
    OBVIOUS
<1> HIDE DEF begin
<1>6. /\ DOMAIN st2 = DOMAIN st
      /\ \A i \in DOMAIN st : st2[i] \in {"pending", st[i]}
    OBVIOUS
<1> HIDE DEF st2
<1>7. Fits(Here, st2)
    BY <1>2, <1>6 DEF Fits, Marks
<1>8. Honest(Here, st) => Honest(Here, st2)
    BY <1>6 DEF Honest
<1>9. /\ initialRunState(n, seen, start).begin = begin
      /\ initialRunState(n, seen, start).st = st2
    BY <1>1
<1> QED
    BY <1>3, <1>4, <1>5, <1>7, <1>8, <1>9

LEMMA FunctionIsSeq ==
    ASSUME NEW S, NEW len \in Nat, NEW f \in [1..len -> S]
    PROVE  f \in Seq(S)
BY SeqDef, Zenon

\* One step each, from the begin-th on: how a challenge is composed.
LEMMA OneByOne ==
    ASSUME NEW n \in Nat, NEW begin \in 1..n, NEW batches,
           batches = [k \in 1..(n + 1 - begin) |-> {begin + k - 1}]
    PROVE  /\ batches \in Seq(SUBSET Nat) /\ batches # <<>>
           /\ UNION Range(batches) \subseteq 1..n
           /\ Apart(batches)
           /\ batches[1] \subseteq 1..n
<1> DEFINE len == n + 1 - begin
<1>1. len \in Nat /\ len >= 1
    OBVIOUS
<1>2. \A i \in 1..len : begin + i - 1 \in 1..n
    OBVIOUS
<1>3. /\ DOMAIN batches = 1..len
      /\ batches = [i \in 1..len |-> batches[i]]
      /\ \A i \in 1..len : batches[i] = {begin + i - 1}
    OBVIOUS
<1>4. \A i, j \in 1..len : i # j => begin + i - 1 # begin + j - 1
    OBVIOUS
<1> HIDE DEF len
<1>5. batches \in Seq(SUBSET Nat)
  <2>1. \A i \in 1..len : batches[i] \in SUBSET Nat
      BY <1>2, <1>3
  <2>2. batches \in [1..len -> SUBSET Nat]
      BY <1>3, <2>1, Zenon
  <2> HIDE DEF len
  <2>3. len \in Nat
      BY <1>1
  <2> QED
      BY <2>2, <2>3, FunctionIsSeq
<1>6. batches # <<>>
    BY <1>1, <1>3
<1>7. UNION Range(batches) \subseteq 1..n
  <2>1. \A i \in DOMAIN batches : batches[i] \subseteq 1..n
      BY <1>2, <1>3
  <2> QED
      BY <2>1 DEF Range
<1>8. batches[1] \subseteq 1..n
    BY <1>1, <1>2, <1>3
<1>9. Apart(batches)
  <2> SUFFICES ASSUME NEW i \in 1..len, NEW j \in 1..len, i # j
               PROVE  batches[i] \cap batches[j] = {}
      BY <1>3 DEF Apart
  <2>1. begin + i - 1 # begin + j - 1
      BY <1>4
  <2> QED
      BY <1>3, <2>1
<1> QED
    BY <1>5, <1>6, <1>7, <1>8, <1>9

\* A run with transactions to send that fit what is known of it.
Sending(w, r) ==
    /\ r \in RunType /\ r.list \in Ours(w.form)
    /\ r.missing \subseteq 1..Count(r.list) /\ ToSend(r) \subseteq 1..Count(r.list)
    /\ Apart(r.batches) /\ r.batches # <<>>
    /\ ~w.edited => r.list[2] = w.oracle /\ w.shown = w.oracle
    /\ w.form = "deposit" =>
          /\ \A i \in 1..Count(r.list) : i \in ToSend(r) \/ Held(w, r.list, i)
          /\ r.list[1] = "add" => AllActive(w)

\* It begins with the next one, whose steps are marked as running.
Relaying(r) == [r EXCEPT !.pc = "relay", !.fate = "none"]

LEMMA Begun ==
    ASSUME NEW w, w.form \in Forms, NEW r, Sending(w, r), NEW st, GoodStatuses(w, st)
    PROVE  /\ GoodRun(w, Relaying(r)) /\ GoodStatuses(w, Mark(st, r.batches[1], "running"))
           /\ Relaying(r) # Idle
           /\ Relaying(r).pc = "relay" /\ Relaying(r).batches = r.batches
<1> DEFINE r2 == Relaying(r)
<1>1. /\ r2 \in RunType /\ r2.list = r.list /\ r2.batches = r.batches /\ r2.missing = r.missing
      /\ r2.pc = "relay" /\ r2.fate = "none"
    BY DEF Sending, RunType, Relaying
<1> HIDE DEF r2
<1>2. ToSend(r2) = ToSend(r)
    BY <1>1 DEF ToSend
<1>3. w.form = "deposit" => Paying(w, r2)
    BY <1>1, <1>2 DEF Sending, Paying
<1>4. UnderWay(w, r2)
    BY <1>1, <1>2, <1>3 DEF Sending, UnderWay
<1>5. r.batches[1] \in SUBSET (1..Count(r.list))
  <2>1. 1 \in DOMAIN r.batches
      BY DEF Sending, RunType
  <2> QED
      BY <2>1 DEF Sending, ToSend, Range
<1>6. "running" \in Marks /\ "running" # "done"
    BY DEF Marks
<1>7. GoodStatuses(w, Mark(st, r.batches[1], "running"))
    BY <1>5, <1>6, MarkedStatuses DEF Sending
<1>8. r2 # Idle
    BY <1>1 DEF Idle
<1> QED
    BY <1>1, <1>4, <1>7, <1>8 DEF GoodRun, r2

LEMMA Launched ==
    ASSUME SequenceInv, NEW s \in Invocations, NEW o \in Oracles, NEW start \in Nat,
           NEW click \in Nat, NEW seen, Fits(Here, seen),
           ~edited => o = oracle /\ Honest(Here, seen),
           form = "deposit" => start = 1,
           Launch(s, o, seen, start, click), UNCHANGED <<form, oracle, edited, accounts>>
    PROVE  /\ Truth'
           /\ shown' = o
           /\ \E r : /\ runs' = [runs EXCEPT ![s] = r] /\ r # Idle
                     /\ form = "deposit" => r.pc = "probe"
<1> DEFINE list == Built(o)
           n == Count(list)
           first == initialRunState(n, seen, start)
           r == [pc |-> "probe", list |-> list, click |-> click, next |-> first.begin,
                 missing |-> {}, batches |-> <<>>, fate |-> "none"]
           batches == [k \in 1..(n + 1 - first.begin) |-> {first.begin + k - 1}]
           r1 == [r EXCEPT !.batches = batches]
           r2 == Relaying(r1)
           w == Here'
<1>1. /\ form \in Forms /\ DOMAIN runs = Invocations
      /\ list \in Ours(form) /\ list[2] = o
      /\ form = "deposit" /\ list[1] = "add" => AllActive(Here)
    BY BuiltIsOurs DEF SequenceInv, Plain
<1>2. /\ n \in Nat /\ list \in Lists
      /\ form # "deposit" => n = Width(form)
    BY <1>1, OursAreWide
<1>3. /\ shown' = o
      /\ IF form = "compose" /\ first.begin <= n
         THEN /\ statuses' = Mark(first.st, batches[1], "running")
              /\ runs' = [runs EXCEPT ![s] = r2]
         ELSE statuses' = first.st /\ runs' = [runs EXCEPT ![s] = r]
    BY DEF Launch, Count, Begin, Relaying
<1> HIDE DEF list, n
<1>4. /\ first.begin \in Nat \ {0}
      /\ start # 0 => first.begin = start
      /\ Fits(Here, first.st)
      /\ Honest(Here, seen) => Honest(Here, first.st)
  <2>1. form = "deposit" => start # 0
      OBVIOUS
  <2> QED
      BY <1>1, <1>2, <2>1, Starts DEF first
<1> HIDE DEF first
<1>5. /\ w = [form |-> form, oracle |-> oracle, shown |-> o, edited |-> edited,
              accounts |-> accounts]
      /\ Onward(Here, w)
    BY <1>3 DEF Here, Onward
<1>6. GoodStatuses(w, first.st)
    BY <1>4, <1>5 DEF GoodStatuses, Fits, Honest, Here, Held
<1>7. GoodRun(w, r) /\ r \in RunType /\ r.list = list /\ r.missing = {}
  <2>1. /\ r.list = list /\ r.missing = {} /\ r.batches = <<>> /\ r.pc = "probe"
        /\ r.fate = "none" /\ r.next = first.begin
        /\ ToSend(r) = {}
    BY DEF ToSend, Range
  <2>2. r \in RunType
    <3>1. <<>> \in Seq(SUBSET Nat) /\ {} \in SUBSET Nat
        OBVIOUS
    <3> QED
        BY <1>2, <1>4, <3>1 DEF RunType
  <2>3. form = "deposit" => Paying(w, r)
    <3>1. form = "deposit" => \A i \in 1..Count(list) : ~(i < first.begin)
        BY <1>4
    <3>2. AllActive(Here) => AllActive(w)
        BY <1>5 DEF AllActive, Here
    <3> HIDE DEF r, w
    <3> QED
        BY <1>1, <2>1, <3>1, <3>2 DEF Paying
  <2>4. Apart(r.batches)
      BY DEF Apart
  <2>5. /\ w.form = form /\ w.oracle = oracle /\ w.shown = o /\ w.edited = edited
      BY <1>5
  <2> HIDE DEF r, w
  <2>6. UnderWay(w, r)
      BY <1>1, <2>1, <2>2, <2>3, <2>4, <2>5 DEF UnderWay
  <2> QED
      BY <2>1, <2>2, <2>6 DEF GoodRun
<1>8. CASE form = "compose" /\ first.begin <= n
  <2>1. /\ batches \in Seq(SUBSET Nat) /\ batches # <<>>
        /\ UNION Range(batches) \subseteq 1..n
        /\ Apart(batches)
        /\ batches[1] \subseteq 1..n
    <3> DEFINE b == first.begin
    <3>1. b \in 1..n
        BY <1>2, <1>4, <1>8
    <3>2. /\ batches = [k \in 1..(n + 1 - b) |-> {b + k - 1}]
        OBVIOUS
    <3> HIDE DEF b, batches
    <3> QED
        BY <1>2, <3>1, <3>2, OneByOne
  <2> HIDE DEF batches
  <2>2. /\ r1 \in RunType /\ r1.list = list /\ r1.missing = {} /\ r1.batches = batches
    <3>1. r \in RunType /\ r.list = list /\ r.missing = {}
        BY <1>7
    <3> HIDE DEF r
    <3> QED
        BY <2>1, <3>1 DEF RunType
  <2>3. /\ w.form = form /\ w.oracle = oracle /\ w.shown = o /\ w.edited = edited
      BY <1>5
  <2>4. ToSend(r1) = UNION Range(batches)
      BY <2>2 DEF ToSend
  <2>5. Sending(w, r1)
    <3> HIDE DEF r1, r, w
    <3> QED
        BY <1>1, <1>8, <2>1, <2>2, <2>3, <2>4 DEF Sending, n
  <2>6. /\ statuses' = Mark(first.st, batches[1], "running")
        /\ runs' = [runs EXCEPT ![s] = r2]
      BY <1>3, <1>8
  <2>7. Truth /\ Onward(Here, w) /\ w = Here'
      BY <1>5 DEF SequenceInv
  <2> HIDE DEF r1, w
  <2>8. /\ GoodRun(w, r2) /\ GoodStatuses(w, Mark(first.st, r1.batches[1], "running"))
        /\ r2 # Idle
      BY <1>1, <1>6, <2>3, <2>5, Begun
  <2> HIDE DEF r2
  <2>9. Truth'
      BY <1>1, <2>2, <2>6, <2>7, <2>8, OneRun
  <2> QED
      BY <1>3, <1>8, <2>6, <2>8, <2>9
<1>9. CASE ~(form = "compose" /\ first.begin <= n)
  <2>1. /\ statuses' = first.st
        /\ runs' = [runs EXCEPT ![s] = r] /\ r.pc = "probe" /\ r # Idle
      BY <1>3, <1>9 DEF Idle
  <2>2. Truth /\ Onward(Here, w) /\ w = Here'
      BY <1>5 DEF SequenceInv
  <2> HIDE DEF r, w
  <2>3. Truth'
      BY <1>1, <1>6, <1>7, <2>1, <2>2, OneRun
  <2> QED
      BY <1>3, <2>1, <2>3
<1> QED
    BY <1>8, <1>9

LEMMA FlightKept ==
    ASSUME SequenceInv, UNCHANGED <<form, flight>>, NEW s \in Invocations,
           runs[s].pc = "confirm" => runs[s].fate # "none",
           NEW r, runs' = [runs EXCEPT ![s] = r]
    PROVE  GoodFlight(form', runs', flight')
<1> DEFINE rs2 == runs'
<1>1. /\ GoodFlight(form, runs, flight) /\ DOMAIN runs = Invocations
      /\ rs2 = [runs EXCEPT ![s] = r]
    BY DEF SequenceInv, Plain
<1> HIDE DEF rs2
<1>2. GoodFlight(form, rs2, flight)
    BY <1>1, FlightsOfOthers
<1> QED
    BY <1>2 DEF rs2

LEMMA ClickKeeps ==
    ASSUME SequenceInv, NEW s \in Invocations, Click(s)
    PROVE  SequenceInv'
<1> USE DEF screen, chain
<1>1. /\ Plain /\ Truth /\ form \in Forms /\ oracle \in Oracles /\ clicks \in 0..MaxDeposits
      /\ DOMAIN runs = Invocations /\ runs[s] = Idle /\ runs[s].pc # "confirm"
      /\ GoodStatuses(Here, statuses)
    BY DEF SequenceInv, Plain, Truth, Click, Idle
<1>2. /\ clicks' = clicks + (IF form = "deposit" THEN 1 ELSE 0)
      /\ form = "deposit" => clicks < MaxDeposits
      /\ UNCHANGED <<form, oracle, listed, edited, flight, accounts, paid, finished, faults>>
    BY DEF Click
<1>3. ASSUME NEW start \in Nat, form # "deposit", Launch(s, oracle, statuses, start, 0)
      PROVE  SequenceInv'
  <2>1. Fits(Here, statuses) /\ (~edited => oracle = oracle /\ Honest(Here, statuses))
      BY <1>1 DEF GoodStatuses, Here
  <2>2. 0 \in Nat /\ (form = "deposit" => start = 1)
      BY <1>3
  <2>3. UNCHANGED <<form, oracle, edited, accounts>>
      BY <1>2
  <2>4. /\ Truth' /\ shown' = oracle
        /\ \E r : /\ runs' = [runs EXCEPT ![s] = r] /\ r # Idle
                  /\ form = "deposit" => r.pc = "probe"
      BY <1>1, <1>3, <2>1, <2>2, <2>3, Launched
  <2>5. PICK r : runs' = [runs EXCEPT ![s] = r]
      BY <2>4
  <2>6. Plain'
      BY <1>1, <1>2, <1>3, <2>4, <2>5 DEF Plain
  <2>7. GoodFlight(form', runs', flight')
      BY <1>1, <1>2, <2>5, FlightKept
  <2>8. Deposits'
      BY <1>2, <1>3 DEF Deposits
  <2> QED
      BY <2>4, <2>6, <2>7, <2>8 DEF SequenceInv
<1>4. CASE form = "activate" /\ statuses # <<>> /\ Launch(s, oracle, statuses, 0, 0)
    BY <1>3, <1>4
<1>5. CASE form = "compose" /\ Launch(s, oracle, statuses, FirstNotDone(statuses), 0)
  <2>1. DOMAIN statuses \subseteq 1..Width(form)
      BY <1>1, <1>5 DEF GoodStatuses, Fits, Here
  <2>2. Width(form) \in Nat
    <3>1. Built(oracle) \in Ours(form)
        BY <1>1, BuiltIsOurs
    <3> QED
        BY <1>1, <1>5, <3>1, OursAreWide
  <2>3. FirstNotDone(statuses) \in Nat
      BY <2>1, <2>2, FirstIs
  <2> QED
      BY <1>3, <1>5, <2>3
<1>6. CASE /\ runs' = [runs EXCEPT ![s] =
                [pc |-> "build", oracle |-> oracle, seen |-> statuses, click |-> clicks']]
           /\ UNCHANGED <<shown, statuses>>
  <2> DEFINE r == [pc |-> "build", oracle |-> oracle, seen |-> statuses, click |-> clicks']
  <2>1. /\ r.pc = "build" /\ r.oracle = oracle /\ r.seen = statuses /\ r.click = clicks'
        /\ r = [pc |-> "build", oracle |-> r.oracle, seen |-> r.seen, click |-> r.click]
        /\ runs' = [runs EXCEPT ![s] = r]
      BY <1>6
  <2>2. clicks' \in 0..MaxDeposits /\ clicks' \in Nat
      BY <1>1, <1>2, SequenceAssumption
  <2> HIDE DEF r
  <2>3. Here' = Here
      BY <1>2, <1>6 DEF Here
  <2>4. Building(Here, r)
      BY <1>1, <2>1, <2>2 DEF Building, GoodStatuses, Here
  <2>5. GoodRun(Here, r)
      BY <2>4 DEF GoodRun
  <2>6. Onward(Here, Here)
      BY DEF Onward
  <2>7. Truth'
    <3> DEFINE w == Here'
               st2 == statuses'
    <3>1. w = Here /\ st2 = statuses
        BY <1>6, <2>3
    <3>2. Onward(Here, w) /\ GoodRun(w, r) /\ GoodStatuses(w, st2)
      <4> HIDE DEF w, st2
      <4> QED
          BY <1>1, <2>5, <2>6, <3>1
    <3> QED
        BY <1>1, <2>1, <3>2, OneRun
  <2>8. Plain'
      BY <1>1, <1>2, <1>6, <2>1, <2>2 DEF Plain
  <2>9. GoodFlight(form', runs', flight')
      BY <1>1, <1>2, <2>1, FlightKept
  <2>10. Deposits'
    <3>1. CASE form = "deposit"
        BY <1>2, <2>1, <3>1, ClickedDeposits
    <3>2. CASE form # "deposit"
        BY <1>2, <3>2 DEF Deposits
    <3> QED
        BY <3>1, <3>2
  <2> QED
      BY <2>7, <2>8, <2>9, <2>10 DEF SequenceInv
<1> QED
    BY <1>4, <1>5, <1>6 DEF Click

LEMMA BuildKeeps ==
    ASSUME SequenceInv, NEW s \in Invocations, Build(s)
    PROVE  SequenceInv'
<1> USE DEF screen, chain, counts
<1> DEFINE start == IF form \in {"deposit", "compose"} THEN 1 ELSE 0
           r0 == runs[s]
<1>1. /\ Plain /\ Truth /\ form \in Forms
      /\ DOMAIN runs = Invocations /\ r0.pc = "build" /\ runs[s].pc # "confirm"
      /\ UNCHANGED <<form, oracle, listed, edited, flight, accounts, paid, clicks, finished>>
      /\ faults' \in 0..MaxFaults
      /\ GoodStatuses(Here, statuses) /\ GoodRun(Here, r0)
    BY FaultsBounded DEF SequenceInv, Plain, Truth, Build
<1>2. Building(Here, r0)
    BY <1>1 DEF GoodRun, UnderWay, RunType, Idle
<1>3. CASE Launch(s, runs[s].oracle, runs[s].seen, start, runs[s].click)
  <2>1. /\ r0.oracle \in Oracles /\ r0.click \in Nat /\ Fits(Here, r0.seen)
        /\ ~edited => r0.oracle = oracle /\ Honest(Here, r0.seen)
      BY <1>2 DEF Building, Here
  <2>2. start \in Nat /\ (form = "deposit" => start = 1)
      OBVIOUS
  <2>3. Launch(s, r0.oracle, r0.seen, start, r0.click)
      BY <1>3
  <2> HIDE DEF start, r0
  <2>4. /\ Truth' /\ shown' = r0.oracle
        /\ \E r : /\ runs' = [runs EXCEPT ![s] = r] /\ r # Idle
                  /\ form = "deposit" => r.pc = "probe"
      BY <1>1, <2>1, <2>2, <2>3, Launched
  <2>5. PICK r : /\ runs' = [runs EXCEPT ![s] = r] 
                 /\ form = "deposit" => r.pc = "probe"
      BY <2>4
  <2>6. Plain'
      BY <1>1, <2>1, <2>4, <2>5 DEF Plain
  <2>7. GoodFlight(form', runs', flight')
      BY <1>1, <2>5, FlightKept
  <2>8. form = "deposit" => Follows(runs[s], r)
      BY <1>1, <2>5 DEF Follows, Unsent, Credits, r0
  <2>9. Deposits'
      BY <1>1, <2>5, <2>8, RunSendsNoMore
  <2> QED
      BY <2>4, <2>6, <2>7, <2>9 DEF SequenceInv
<1>4. CASE Stop(s) /\ UNCHANGED <<shown, statuses>>
  <2>1. runs' = [runs EXCEPT ![s] = Idle]
      BY <1>4 DEF Stop
  <2>2. Here' = Here /\ statuses' = statuses
      BY <1>1, <1>4 DEF Here
  <2>3. Onward(Here, Here') /\ GoodRun(Here', Idle) /\ GoodStatuses(Here', statuses')
    <3> DEFINE w == Here'
               st2 == statuses'
    <3>1. w = Here /\ st2 = statuses
        BY <2>2
    <3> HIDE DEF w, st2
    <3>2. Onward(Here, w) /\ GoodRun(w, Idle) /\ GoodStatuses(w, st2)
        BY <1>1, <3>1 DEF Onward, GoodRun
    <3> QED
        BY <3>2 DEF w, st2
  <2>4. Truth'
      BY <1>1, <2>1, <2>3, OneRun
  <2>5. Plain'
      BY <1>1, <1>4, <2>1 DEF Plain
  <2>6. GoodFlight(form', runs', flight')
      BY <1>1, <2>1, FlightKept
  <2>7. Follows(runs[s], Idle)
      BY IdleFollows
  <2>8. Deposits'
      BY <1>1, <2>1, <2>7, RunSendsNoMore
  <2> QED
      BY <2>4, <2>5, <2>6, <2>8 DEF SequenceInv
<1> QED
    BY <1>3, <1>4 DEF Build

\* A step of one run that leaves the screen and the chain.
LEMMA OneStep ==
    ASSUME SequenceInv, UNCHANGED <<screen, accounts, paid, clicks>>,
           faults' \in 0..MaxFaults, finished' \in Nat,
           NEW s \in Invocations, NEW r, runs' = [runs EXCEPT ![s] = r],
           GoodRun(Here, r), GoodStatuses(Here, statuses'),
           GoodFlight(form', runs', flight'), Deposits'
    PROVE  SequenceInv'
<1>1. Here' = Here /\ Plain /\ Truth /\ DOMAIN runs = Invocations
    BY DEF Here, screen, SequenceInv, Plain
<1>2. Truth'
  <2> DEFINE w == Here'
             st2 == statuses'
  <2>1. GoodRun(Here, r) /\ GoodStatuses(Here, st2) /\ w = Here
      BY <1>1
  <2> HIDE DEF w, st2
  <2>2. Onward(Here, w) /\ GoodRun(w, r) /\ GoodStatuses(w, st2)
      BY <2>1 DEF Onward
  <2>3. Onward(Here, Here') /\ GoodRun(Here', r) /\ GoodStatuses(Here', statuses')
      BY <2>2 DEF w, st2
  <2> QED
      BY <1>1, <2>3, OneRun
<1>3. Plain'
    BY <1>1 DEF Plain, screen
<1> QED
    BY <1>2, <1>3 DEF SequenceInv

\* A run that relays nothing, and is not waiting for what it has relayed.
LEMMA QuietStep ==
    ASSUME SequenceInv, UNCHANGED <<screen, chain, counts>>,
           faults' \in 0..MaxFaults,
           NEW s \in Invocations, runs[s].pc = "confirm" => runs[s].fate # "none",
           NEW r, runs' = [runs EXCEPT ![s] = r],
           GoodRun(Here, r), GoodStatuses(Here, statuses'),
           form = "deposit" => Follows(runs[s], r)
    PROVE  SequenceInv'
<1>1. /\ UNCHANGED <<screen, accounts, paid, clicks, finished, flight, form>>
      /\ finished' \in Nat
    BY DEF screen, chain, counts, SequenceInv, Plain
<1>2. GoodFlight(form', runs', flight')
    BY <1>1, FlightKept
<1>3. Deposits'
    BY <1>1, RunSendsNoMore
<1> QED
    BY <1>1, <1>2, <1>3, OneStep

\* setError, and the run returns.
LEMMA Failed ==
    ASSUME SequenceInv, NEW s \in Invocations, NEW r, UnderWay(Here, r),
           NEW S \in SUBSET (1..Count(r.list)), Fail(s, S)
    PROVE  /\ runs' = [runs EXCEPT ![s] = Idle] /\ UNCHANGED counts
           /\ GoodRun(Here, Idle) /\ GoodStatuses(Here, statuses')
<1>1. /\ GoodStatuses(Here, statuses) /\ form \in Forms /\ Here.form = form
    BY DEF SequenceInv, Truth, Plain, Here
<1>2. /\ r.list \in Ours(Here.form)
      /\ ~Here.edited => r.list[2] = Here.oracle /\ Here.shown = Here.oracle
    BY DEF UnderWay
<1>3. "error" \in Marks /\ "error" # "done"
    BY DEF Marks
<1>4. GoodStatuses(Here, Mark(statuses, S, "error"))
    BY <1>1, <1>2, <1>3, MarkedStatuses
<1>5. statuses' = Mark(statuses, S, "error") /\ runs' = [runs EXCEPT ![s] = Idle]
      /\ UNCHANGED counts
    BY DEF Fail, Stop
<1> DEFINE st2 == statuses'
<1>6. st2 = Mark(statuses, S, "error")
    BY <1>5
<1> HIDE DEF st2
<1>7. GoodStatuses(Here, st2)
    BY <1>4, <1>6
<1> QED
    BY <1>5, <1>7 DEF st2, GoodRun

LEMMA PackKeeps ==
    ASSUME SequenceInv, UNCHANGED <<screen, chain>>, faults' \in 0..MaxFaults,
           NEW s \in Invocations, runs[s].pc = "probe",
           NEW r, UnderWay(Here, r), r.pc = "probe", r.next > Count(r.list),
           NEW st, GoodStatuses(Here, st), Pack(s, r, st)
    PROVE  SequenceInv'
<1>1. /\ form \in Forms /\ Here.form = form /\ finished \in Nat
      /\ r \in RunType /\ r.list \in Ours(form) /\ r.missing \in SUBSET (1..Count(r.list))
    BY DEF SequenceInv, Plain, Here, UnderWay
<1>2. /\ r.list \in Lists /\ Count(r.list) \in Nat /\ r.next \in Nat
      /\ Group \in Nat \ {0}
    BY <1>1, OursAreWide, SequenceAssumption DEF RunType
<1>3. form = "deposit" =>
        \A i \in 1..Count(r.list) : i \in r.missing \/ (i > Group /\ Held(Here, r.list, i))
  <2>1. \A i \in 1..Count(r.list) : i < r.next
      BY <1>2
  <2> QED
      BY <1>1, <2>1 DEF UnderWay, Paying
<1>4. form = "deposit" => Count(r.list) >= Group /\ r.missing # {}
  <2> SUFFICES ASSUME form = "deposit"
               PROVE  Count(r.list) >= Group /\ r.missing # {}
      OBVIOUS
  <2>1. Count(r.list) >= Group
    <3>1. /\ r.list[2] \in Oracles
          /\ r.list = <<"contribute", r.list[2]>> \/ r.list = <<"add", r.list[2]>>
        BY <1>1, OursAreWide
    <3> QED
        BY <3>1, ListShapes
  <2>2. 1 \in 1..Count(r.list) /\ ~(1 > Group)
      BY <1>2, <2>1
  <2> QED
      BY <1>3, <2>1, <2>2
<1>5. CASE r.missing = {} /\ statuses' = st /\ Finish(s)
  <2>1. /\ runs' = [runs EXCEPT ![s] = Idle] /\ UNCHANGED counts
    <3>1. form # "deposit"
        BY <1>4, <1>5
    <3> QED
        BY <1>1, <1>5, <3>1 DEF Finish, Stop, counts
  <2>2. GoodRun(Here, Idle) /\ Follows(runs[s], Idle)
      BY IdleFollows DEF GoodRun
  <2>3. GoodStatuses(Here, statuses')
      BY <1>5
  <2> QED
      BY <2>1, <2>2, <2>3, QuietStep
<1>6. ASSUME NEW batches, batches = packSteps[r.list][r.missing], batches # <<>>,
             NEW r1, r1 = [r EXCEPT !.batches = batches, !.missing = {}]
      PROVE  /\ Sending(Here, r1) /\ r1.batches = batches /\ r1.fate = "none"
             /\ form = "deposit" => \A m \in 1..Group : m \in ToSend(r1)
  <2>1. /\ batches \in Seq(SUBSET Nat)
        /\ UNION Range(batches) = r.missing
        /\ Apart(batches)
    <3> DEFINE list == r.list
               steps == r.missing
    <3>1. list \in Lists /\ steps \in SUBSET (1..Count(list)) /\ batches = packSteps[list][steps]
        BY <1>1, <1>2, <1>6
    <3> HIDE DEF list, steps
    <3>2. /\ batches \in Seq(SUBSET Nat)
          /\ UNION Range(batches) = steps
          /\ \A b, c \in DOMAIN batches : b # c => batches[b] \cap batches[c] = {}
        BY <3>1, Packed
    <3> QED
        BY <3>2 DEF Apart, steps
  <2>2. /\ r1 \in RunType /\ r1.list = r.list /\ r1.missing = {} /\ r1.batches = batches
        /\ r1.fate = "none"
    <3>1. {} \in SUBSET Nat /\ r.fate = "none"
        BY DEF UnderWay
    <3> QED
        BY <1>1, <1>6, <2>1, <3>1 DEF RunType
  <2>3. ToSend(r1) = r.missing
      BY <2>1, <2>2 DEF ToSend
  <2>4. form = "deposit" => \A m \in 1..Group : m \in ToSend(r1)
    <3>1. form = "deposit" => \A m \in 1..Group : m \in 1..Count(r.list) /\ ~(m > Group)
        BY <1>2, <1>4
    <3> QED
        BY <1>3, <2>3, <3>1
  <2>5. form = "deposit" =>
          /\ \A i \in 1..Count(r1.list) : i \in ToSend(r1) \/ Held(Here, r1.list, i)
          /\ r1.list[1] = "add" => AllActive(Here)
      BY <1>1, <1>3, <2>2, <2>3 DEF UnderWay, Paying
  <2>6. /\ r1.list \in Ours(Here.form) /\ r1.batches # <<>>
        /\ r1.missing \subseteq 1..Count(r1.list) /\ ToSend(r1) \subseteq 1..Count(r1.list)
        /\ ~Here.edited => r1.list[2] = Here.oracle /\ Here.shown = Here.oracle
      BY <1>1, <1>6, <2>2, <2>3 DEF UnderWay
  <2>7. Sending(Here, r1)
      BY <1>1, <2>1, <2>2, <2>5, <2>6 DEF Sending
  <2> QED
      BY <2>2, <2>4, <2>7
<1>7. ASSUME NEW batches, batches = packSteps[r.list][r.missing], batches # <<>>,
             NEW r1, r1 = [r EXCEPT !.batches = batches, !.missing = {}],
             Begin(s, r1, st), UNCHANGED counts
      PROVE  SequenceInv'
  <2>1. /\ Sending(Here, r1) /\ r1.batches = batches
        /\ form = "deposit" => \A m \in 1..Group : m \in ToSend(r1)
      BY <1>6, <1>7
  <2> DEFINE r2 == Relaying(r1)
  <2>2. runs' = [runs EXCEPT ![s] = r2] /\ statuses' = Mark(st, r1.batches[1], "running")
      BY <1>7 DEF Begin, Relaying
  <2>3. /\ GoodRun(Here, r2) /\ GoodStatuses(Here, Mark(st, r1.batches[1], "running"))
        /\ r2.pc = "relay" /\ r2.batches = r1.batches
      BY <1>1, <2>1, Begun
  <2> HIDE DEF r2
  <2>4. form = "deposit" => Follows(runs[s], r2)
    <3>1. ToSend(r2) = ToSend(r1) /\ ToSend(r1) \subseteq Nat
        BY <1>1, <1>2, <2>1, <2>3 DEF ToSend, Sending, RunType, Range
    <3> QED
        BY <2>1, <2>3, <3>1 DEF Follows, Unsent, Credits
  <2>5. GoodStatuses(Here, statuses')
      BY <2>2, <2>3
  <2> QED
      BY <1>7, <2>2, <2>3, <2>4, <2>5, QuietStep
<1>8. ASSUME NEW batches, batches = packSteps[r.list][r.missing], batches # <<>>,
             NEW r2, r2 = [r EXCEPT !.batches = batches, !.missing = {}, !.pc = "sign"],
             statuses' = st, runs' = [runs EXCEPT ![s] = r2], UNCHANGED counts
      PROVE  SequenceInv'
  <2> DEFINE r1 == [r EXCEPT !.batches = batches, !.missing = {}]
  <2>1. r1 = [r EXCEPT !.batches = batches, !.missing = {}]
      OBVIOUS
  <2>2. /\ r2 \in RunType /\ r2.list = r1.list /\ r2.missing = r1.missing
        /\ r2.batches = r1.batches /\ r2.fate = r1.fate /\ r2.pc = "sign"
    <3>1. {} \in SUBSET Nat /\ batches \in Seq(SUBSET Nat)
        BY <1>1, <1>2, <1>8, Packed
    <3> QED
        BY <1>1, <1>8, <3>1 DEF RunType
  <2> HIDE DEF r1
  <2>3. /\ Sending(Here, r1) /\ r1.batches = batches /\ r1.fate = "none"
        /\ form = "deposit" => \A m \in 1..Group : m \in ToSend(r1)
      BY <1>6, <1>8, <2>1
  <2>4. ToSend(r2) = ToSend(r1) /\ ToSend(r1) \subseteq Nat
      BY <1>1, <1>2, <2>2, <2>3 DEF ToSend, Sending, RunType, Range
  <2>5. form = "deposit" => Paying(Here, r2)
      BY <1>1, <2>2, <2>3, <2>4 DEF Sending, Paying
  <2>6. UnderWay(Here, r2)
      BY <1>1, <2>2, <2>3, <2>4, <2>5 DEF Sending, UnderWay
  <2>7. GoodRun(Here, r2)
      BY <2>6 DEF GoodRun
  <2>8. form = "deposit" => Follows(runs[s], r2)
      BY <2>2, <2>3, <2>4 DEF Follows, Unsent, Credits
  <2>9. GoodStatuses(Here, statuses')
      BY <1>8
  <2> QED
      BY <1>8, <2>7, <2>8, <2>9, QuietStep
<1> QED
    BY <1>5, <1>7, <1>8 DEF Pack

LEMMA OfTheRun ==
    ASSUME SequenceInv, NEW s \in Invocations, runs[s].pc \in {"probe", "sign", "relay", "confirm"}
    PROVE  /\ UnderWay(Here, runs[s]) /\ GoodStatuses(Here, statuses)
           /\ form \in Forms /\ Here.form = form
           /\ runs[s].list \in Ours(form) /\ runs[s].list \in Lists
           /\ Count(runs[s].list) \in Nat /\ runs[s].batches \in Seq(SUBSET Nat)
           /\ ~Here.edited => runs[s].list[2] = Here.oracle /\ Here.shown = Here.oracle
<1>1. GoodRun(Here, runs[s]) /\ GoodStatuses(Here, statuses) /\ form \in Forms /\ Here.form = form
    BY DEF SequenceInv, Truth, Plain, Here
<1>2. UnderWay(Here, runs[s])
    BY <1>1 DEF GoodRun, Building, Idle
<1>3. runs[s].list \in Ours(form) /\ runs[s].batches \in Seq(SUBSET Nat)
      /\ (~Here.edited => runs[s].list[2] = Here.oracle /\ Here.shown = Here.oracle)
    BY <1>1, <1>2 DEF UnderWay, RunType
<1>4. runs[s].list \in Lists /\ Count(runs[s].list) \in Nat
    BY <1>1, <1>3, OursAreWide
<1> QED
    BY <1>1, <1>2, <1>3, <1>4

\* The lists of a deposit pay the markets of the group, in order, and go on.
LEMMA PaysFirst ==
    ASSUME NEW list \in Ours("deposit")
    PROVE  /\ Count(list) >= Group
           /\ \A i \in 1..Count(list) : Steps[list][i].pays = IF i <= Group THEN i ELSE 0
<1>1. PICK kind \in {"contribute", "add"}, o \in Oracles : list = <<kind, o>>
    BY DEF Ours, Kinds
<1> QED
    BY <1>1, ListShapes

ProbedRun(r, landed) ==
    [r EXCEPT !.next = @ + 1, !.missing = IF landed THEN @ ELSE @ \cup {r.next}]

\* A step that pays is missing, and what landed is there.
LEMMA Probed ==
    ASSUME form \in Forms, NEW r, UnderWay(Here, r), r.pc = "probe", r.next <= Count(r.list),
           NEW landed \in BOOLEAN,
           landed => Steps[r.list][r.next].pays = 0 /\ Held(Here, r.list, r.next)
    PROVE  /\ UnderWay(Here, ProbedRun(r, landed))
           /\ ProbedRun(r, landed).pc = "probe" /\ ProbedRun(r, landed).list = r.list
           /\ ProbedRun(r, landed).next = r.next + 1
<1> DEFINE probed == ProbedRun(r, landed)
<1>1. /\ r \in RunType /\ r.list \in Ours(form) /\ Here.form = form
      /\ r.next \in 1..Count(r.list) /\ Count(r.list) \in Nat /\ Group \in Nat
  <2>1. /\ r \in RunType /\ r.list \in Ours(form) /\ Here.form = form
        /\ r.next \in Nat \ {0}
      BY DEF UnderWay, Here, RunType
  <2>2. Count(r.list) \in Nat
      BY <2>1, OursAreWide
  <2> QED
      BY <2>1, <2>2, SequenceAssumption
<1>2. /\ probed \in RunType /\ probed.list = r.list /\ probed.batches = r.batches
      /\ probed.pc = "probe" /\ probed.fate = r.fate /\ probed.next = r.next + 1
      /\ probed.missing = IF landed THEN r.missing ELSE r.missing \cup {r.next}
  <2>1. r.next + 1 \in Nat \ {0} /\ r.missing \cup {r.next} \in SUBSET Nat
      BY <1>1 DEF RunType
  <2> QED
      BY <1>1, <2>1 DEF RunType, ProbedRun
<1> HIDE DEF probed
<1>3. ToSend(probed) = ToSend(r)
    BY <1>2 DEF ToSend
<1>4. form = "deposit" => Paying(Here, probed)
  <2> SUFFICES ASSUME form = "deposit" PROVE Paying(Here, probed)
      OBVIOUS
  <2>1. Paying(Here, r)
      BY <1>1 DEF UnderWay
  <2>2. landed => r.next > Group
    <3>1. \A i \in 1..Count(r.list) : Steps[r.list][i].pays = IF i <= Group THEN i ELSE 0
        BY <1>1, PaysFirst
    <3>2. Steps[r.list][r.next].pays = IF r.next <= Group THEN r.next ELSE 0
        BY <1>1, <3>1
    <3> QED
        BY <1>1, <3>2
  <2>3. ASSUME NEW i \in 1..Count(r.list), i < r.next + 1
        PROVE  i \in probed.missing \/ (i > Group /\ Held(Here, r.list, i))
    <3>1. CASE i = r.next
        BY <1>2, <2>2, <3>1
    <3>2. CASE i # r.next
      <4>1. i < r.next
          BY <1>1, <2>3, <3>2
      <4> QED
          BY <1>2, <2>1, <4>1 DEF Paying
    <3> QED
        BY <3>1, <3>2
  <2> QED
      BY <1>2, <2>1, <2>3 DEF Paying
<1>5. probed.missing \subseteq 1..Count(r.list)
    BY <1>1, <1>2 DEF UnderWay
<1>6. UnderWay(Here, probed)
    BY <1>1, <1>2, <1>3, <1>4, <1>5 DEF UnderWay
<1> QED
    BY <1>2, <1>6 DEF probed

LEMMA ProbeKeeps ==
    ASSUME SequenceInv, NEW s \in Invocations, Probe(s)
    PROVE  SequenceInv'
<1> DEFINE r == runs[s]
           last == Count(r.list)
           step == Steps[r.list][r.next]
<1>1. /\ r.pc = "probe" /\ UnderWay(Here, r) /\ GoodStatuses(Here, statuses) /\ form \in Forms
      /\ Here.form = form /\ r.list \in Ours(form) /\ last \in Nat
      /\ r.next \in Nat \ {0} /\ UNCHANGED <<screen, chain>> /\ runs[s].pc = "probe"
      /\ ~Here.edited => r.list[2] = Here.oracle /\ Here.shown = Here.oracle
    BY OfTheRun DEF Probe, UnderWay, RunType
<1>2. (Fault \/ Fine) => faults' \in 0..MaxFaults
    BY FaultsBounded DEF SequenceInv
<1>3. CASE r.next > last /\ Pack(s, r, statuses) /\ Fine
  <2> HIDE DEF r
  <2> QED
      BY <1>1, <1>2, <1>3, PackKeeps
<1>4. ASSUME NEW landed \in BOOLEAN, r.next <= last,
             IF step.pays = 0 THEN stepAlreadyLanded(step, landed) ELSE ~landed /\ Fine,
             NEW probed,
             probed = [r EXCEPT !.next = @ + 1, !.missing = IF landed THEN @ ELSE @ \cup {r.next}],
             NEW st, st = IF landed THEN Mark(statuses, {r.next}, "done") ELSE statuses,
             IF r.next = last THEN Pack(s, probed, st)
             ELSE statuses' = st /\ runs' = [runs EXCEPT ![s] = probed] /\ UNCHANGED counts
      PROVE  SequenceInv'
  <2>1. /\ faults' \in 0..MaxFaults
        /\ landed => step.pays = 0 /\ Held(Here, r.list, r.next)
      BY <1>2, <1>4 DEF stepAlreadyLanded, Held, Here
  <2>2. /\ UnderWay(Here, probed) /\ probed.pc = "probe" /\ probed.list = r.list
        /\ probed.next = r.next + 1
    <3>1. probed = ProbedRun(r, landed)
        BY <1>4 DEF ProbedRun
    <3>2. /\ UnderWay(Here, ProbedRun(r, landed))
          /\ ProbedRun(r, landed).pc = "probe" /\ ProbedRun(r, landed).list = r.list
          /\ ProbedRun(r, landed).next = r.next + 1
        BY <1>1, <1>4, <2>1, Probed
    <3> QED
        BY <3>1, <3>2
  <2>3. GoodStatuses(Here, st)
    <3>1. CASE landed
      <4>1. {r.next} \in SUBSET (1..Count(r.list))
          BY <1>1, <1>4
      <4>2. "done" \in Marks /\ \A i \in {r.next} : Held(Here, r.list, i)
          BY <2>1, <3>1 DEF Marks
      <4> DEFINE w == Here
                 S == {r.next}
                 list == r.list
      <4>3. /\ GoodStatuses(w, statuses) /\ w.form \in Forms /\ list \in Ours(w.form)
            /\ S \in SUBSET (1..Count(list)) /\ \A i \in S : Held(w, list, i)
            /\ ~w.edited => list[2] = w.oracle /\ w.shown = w.oracle
          BY <1>1, <4>1, <4>2
      <4> HIDE DEF w, S, list, r
      <4>4. GoodStatuses(w, Mark(statuses, S, "done"))
          BY <4>2, <4>3, MarkedStatuses
      <4> QED
          BY <1>4, <3>1, <4>4 DEF w, S
    <3>2. CASE ~landed
        BY <1>1, <1>4, <3>2
    <3> QED
        BY <3>1, <3>2
  <2>4. CASE r.next = last
    <3>1. probed.next > Count(probed.list) /\ Pack(s, probed, st)
        BY <1>1, <1>4, <2>2, <2>4
    <3> HIDE DEF r
    <3> QED
        BY <1>1, <2>1, <2>2, <2>3, <3>1, PackKeeps
  <2>5. CASE r.next # last
    <3>1. statuses' = st /\ runs' = [runs EXCEPT ![s] = probed] /\ UNCHANGED counts
        BY <1>4, <2>5
    <3>2. GoodRun(Here, probed) /\ GoodStatuses(Here, statuses')
        BY <2>2, <2>3, <3>1 DEF GoodRun
    <3>3. Follows(runs[s], probed)
        BY <1>1, <2>2 DEF Follows, Unsent, Credits
    <3> HIDE DEF r
    <3> QED
        BY <1>1, <2>1, <3>1, <3>2, <3>3, QuietStep
  <2> QED
      BY <2>4, <2>5
<1> DEFINE probes(landed, probed, st) ==
        /\ IF step.pays = 0 THEN stepAlreadyLanded(step, landed) ELSE ~landed /\ Fine
        /\ probed = [r EXCEPT !.next = @ + 1, !.missing = IF landed THEN @ ELSE @ \cup {r.next}]
        /\ st = IF landed THEN Mark(statuses, {r.next}, "done") ELSE statuses
        /\ IF r.next = last THEN Pack(s, probed, st)
           ELSE statuses' = st /\ runs' = [runs EXCEPT ![s] = probed] /\ UNCHANGED counts
<1>5. \/ r.next > last /\ Pack(s, r, statuses) /\ Fine
      \/ r.next <= last /\ \E landed \in BOOLEAN : \E probed, st : probes(landed, probed, st)
  <2> DEFINE body(q, n) ==
          \/ q.next > n /\ Pack(s, q, statuses) /\ Fine
          \/ /\ q.next <= n
             /\ \E landed \in BOOLEAN :
                LET due == Steps[q.list][q.next]
                IN  /\ IF due.pays = 0 THEN stepAlreadyLanded(due, landed) ELSE ~landed /\ Fine
                    /\ \E probed \in {[q EXCEPT !.next = @ + 1,
                                               !.missing = IF landed THEN @ ELSE @ \cup {q.next}]} :
                       \E st \in {IF landed THEN Mark(statuses, {q.next}, "done") ELSE statuses} :
                          IF q.next = n THEN Pack(s, probed, st)
                          ELSE statuses' = st /\ runs' = [runs EXCEPT ![s] = probed] /\ UNCHANGED counts
  <2>1. \E q \in {runs[s]} : \E n \in {Len(Steps[q.list])} : body(q, n)
      BY Zenon DEF Probe
  <2>2. body(r, last)
    <3> HIDE DEF body
    <3> QED
        BY <2>1 DEF Count
  <2> HIDE DEF r, last
  <2> QED
      BY <2>2
<1>6. CASE r.next <= last /\ \E landed \in BOOLEAN : \E probed, st : probes(landed, probed, st)
  <2>1. PICK landed \in BOOLEAN : \E probed, st : probes(landed, probed, st)
      BY <1>6
  <2>2. PICK probed, st : probes(landed, probed, st)
      BY <2>1
  <2> QED
      BY <1>4, <1>6, <2>2
<1> QED
    BY <1>3, <1>5, <1>6

LEMMA SignAllKeeps ==
    ASSUME SequenceInv, NEW s \in Invocations, SignAll(s)
    PROVE  SequenceInv'
<1> DEFINE r == runs[s]
<1>1. /\ r.pc = "sign" /\ UnderWay(Here, r) /\ GoodStatuses(Here, statuses) /\ form \in Forms
      /\ Here.form = form /\ UNCHANGED <<screen, chain>> /\ runs[s].pc # "confirm"
    BY OfTheRun DEF SignAll
<1>2. faults' \in 0..MaxFaults
    BY FaultsBounded DEF SequenceInv, SignAll
<1>3. CASE Begin(s, r, statuses) /\ UNCHANGED counts
  <2>1. Sending(Here, r)
      BY <1>1 DEF UnderWay, Sending, Paying
  <2>2. /\ runs' = [runs EXCEPT ![s] = Relaying(r)]
        /\ statuses' = Mark(statuses, r.batches[1], "running")
      BY <1>3 DEF Begin, Relaying
  <2>3. /\ GoodRun(Here, Relaying(r)) /\ GoodStatuses(Here, Mark(statuses, r.batches[1], "running"))
        /\ Relaying(r).pc = "relay" /\ Relaying(r).batches = r.batches
      BY <1>1, <2>1, Begun
  <2>4. Follows(runs[s], Relaying(r))
      BY <1>1, <2>3 DEF Follows, Unsent, Credits, ToSend
  <2>5. GoodStatuses(Here, statuses')
      BY <2>2, <2>3
  <2> QED
      BY <1>1, <1>2, <1>3, <2>2, <2>3, <2>4, <2>5, QuietStep
<1>4. CASE Fail(s, ToSend(r))
  <2>1. ToSend(r) \in SUBSET (1..Count(r.list))
      BY <1>1 DEF UnderWay
  <2>2. /\ runs' = [runs EXCEPT ![s] = Idle] /\ UNCHANGED counts
        /\ GoodRun(Here, Idle) /\ GoodStatuses(Here, statuses')
    <3> DEFINE S == ToSend(r)
    <3>1. S \in SUBSET (1..Count(r.list)) /\ Fail(s, S)
        BY <1>4, <2>1
    <3> HIDE DEF S, r
    <3> QED
        BY <1>1, <3>1, Failed
  <2>3. Follows(runs[s], Idle)
      BY IdleFollows
  <2> QED
      BY <1>1, <1>2, <2>2, <2>3, QuietStep
<1> QED
    BY <1>3, <1>4 DEF SignAll, ToSend

\* One more transaction in flight.
LEMMA OneMore ==
    ASSUME NEW f, NEW rs, NEW txs, GoodFlight(f, rs, txs),
           NEW tx \in TxType, tx.list \in Ours(f), tx.batch \subseteq 1..Count(tx.list),
           tx.by # 0 => Linked(tx, rs)
    PROVE  GoodFlight(f, rs, txs \cup {tx})
<1>1. IsFiniteSet(txs \cup {tx})
    BY FS_AddElement DEF GoodFlight
<1> QED
    BY <1>1 DEF GoodFlight

LEMMA ItsTransaction ==
    ASSUME SequenceInv, NEW s \in Invocations, runs[s].pc \in {"relay", "confirm"},
           NEW tx, tx = Transaction(s, runs[s])
    PROVE  /\ tx \in TxType /\ tx.by = s /\ tx.list = runs[s].list /\ tx.batch = runs[s].batches[1]
           /\ tx.list \in Ours(form) /\ tx.batch \in SUBSET (1..Count(tx.list))
           /\ tx.batch \subseteq ToSend(runs[s])
           /\ Abandoned(tx) \in TxType /\ Abandoned(tx).by = 0
           /\ Abandoned(tx).list = tx.list /\ Abandoned(tx).batch = tx.batch
<1> DEFINE r == runs[s]
<1>1. /\ UnderWay(Here, r) /\ r.list \in Ours(form) /\ r.list \in Lists
      /\ r.batches \in Seq(SUBSET Nat) /\ r.pc \in {"relay", "confirm"}
    BY OfTheRun
<1>2. r.click \in Nat /\ r.batches # <<>> /\ ToSend(r) \subseteq 1..Count(r.list)
    BY <1>1 DEF UnderWay, RunType
<1>3. 1 \in DOMAIN r.batches
    BY <1>1, <1>2
<1>4. /\ r.batches[1] \in SUBSET Nat /\ r.batches[1] \subseteq ToSend(r)
  <2>1. r.batches[1] \in SUBSET Nat
      BY <1>1, <1>3
  <2>2. r.batches[1] \in Range(r.batches)
      BY <1>3 DEF Range
  <2> QED
      BY <2>1, <2>2 DEF ToSend
<1>5. tx = [by |-> s, click |-> r.click, list |-> r.list, batch |-> r.batches[1]]
    BY DEF Transaction
<1>6. s \in Nat
    BY DEF Invocations
<1> HIDE DEF r
<1>7. /\ tx \in TxType /\ tx.by = s /\ tx.list = r.list /\ tx.batch = r.batches[1]
    BY <1>1, <1>2, <1>4, <1>5, <1>6 DEF TxType
<1>8. /\ Abandoned(tx) \in TxType /\ Abandoned(tx).by = 0
      /\ Abandoned(tx).list = tx.list /\ Abandoned(tx).batch = tx.batch
    BY <1>7 DEF Abandoned, TxType
<1>9. tx.batch \in SUBSET (1..Count(tx.list))
    BY <1>2, <1>4, <1>7
<1> QED
    BY <1>1, <1>4, <1>7, <1>8, <1>9 DEF r

Waiting(r) == [r EXCEPT !.pc = "confirm"]

LEMMA RelayKeeps ==
    ASSUME SequenceInv, NEW s \in Invocations, Relay(s)
    PROVE  SequenceInv'
<1> USE DEF screen, chain, counts
<1> DEFINE r == runs[s]
           tx == Transaction(s, r)
<1>1. /\ r.pc = "relay" /\ UnderWay(Here, r) /\ GoodStatuses(Here, statuses) /\ form \in Forms
      /\ UNCHANGED <<screen, accounts, paid>> /\ DOMAIN runs = Invocations
      /\ GoodFlight(form, runs, flight) /\ runs[s].pc # "confirm" /\ finished \in Nat
      /\ r \in RunType /\ r.fate = "none"
    BY OfTheRun DEF Relay, SequenceInv, Plain, UnderWay
<1>2. (Fault \/ Fine) => faults' \in 0..MaxFaults
    BY FaultsBounded DEF SequenceInv
<1>3. /\ tx \in TxType /\ tx.by = s /\ tx.list = r.list /\ tx.batch = r.batches[1]
      /\ tx.list \in Ours(form) /\ tx.batch \in SUBSET (1..Count(tx.list))
      /\ tx.batch \subseteq ToSend(r)
      /\ Abandoned(tx) \in TxType /\ Abandoned(tx).by = 0
      /\ Abandoned(tx).list = tx.list /\ Abandoned(tx).batch = tx.batch
    BY <1>1, ItsTransaction
<1>4. tx.batch \subseteq Unsent(runs[s])
    BY <1>1, <1>3 DEF Unsent
<1>5. ASSUME flight' = flight \cup {tx}, runs' = [runs EXCEPT ![s].pc = "confirm"],
             UNCHANGED <<statuses, counts>>, Fine
      PROVE  SequenceInv'
  <2> DEFINE r2 == Waiting(r)
  <2>1. runs' = [runs EXCEPT ![s] = r2]
      BY <1>1, <1>5 DEF Waiting
  <2>2. /\ r2 \in RunType /\ r2.pc = "confirm" /\ r2.fate = "none" /\ r2.list = r.list
        /\ r2.batches = r.batches /\ r2.missing = r.missing /\ r2.click = r.click
      BY <1>1 DEF Waiting, RunType
  <2>3. tx = Transaction(s, r2)
      BY <2>2 DEF Transaction
  <2> HIDE DEF r2, r, tx
  <2>4. ToSend(r2) = ToSend(r)
      BY <2>2 DEF ToSend
  <2>5. UnderWay(Here, r2)
      BY <1>1, <2>2, <2>4 DEF UnderWay, Paying
  <2>6. GoodFlight(form', runs', flight')
    <3> DEFINE rs2 == runs'
    <3>1. rs2 = [runs EXCEPT ![s] = r2] /\ rs2[s] = r2
        BY <1>1, <2>1
    <3> HIDE DEF rs2
    <3>2. GoodFlight(form, rs2, flight)
        BY <1>1, <3>1, FlightsOfOthers
    <3>3. Linked(tx, rs2)
        BY <1>3, <2>2, <2>3, <3>1 DEF Linked
    <3>4. GoodFlight(form, rs2, flight \cup {tx})
        BY <1>3, <3>2, <3>3, OneMore
    <3> QED
        BY <1>1, <1>5, <3>4 DEF rs2
  <2>7. Unsent(r2) \cap tx.batch = {}
      BY <1>3, <2>2 DEF Unsent
  <2>8. Follows(runs[s], r2)
      BY <1>1, <2>2, <2>4 DEF Follows, Unsent, Credits, r
  <2>9. Deposits'
      BY <1>1, <1>4, <1>5, <2>1, <2>7, <2>8, RelayedDeposits
  <2>10. GoodRun(Here, r2) /\ GoodStatuses(Here, statuses')
      BY <1>1, <1>5, <2>5 DEF GoodRun
  <2> QED
      BY <1>1, <1>2, <1>5, <2>1, <2>6, <2>9, <2>10, OneStep
<1>6. ASSUME Fail(s, tx.batch)
      PROVE  /\ runs' = [runs EXCEPT ![s] = Idle] /\ UNCHANGED counts
             /\ GoodRun(Here, Idle) /\ GoodStatuses(Here, statuses')
             /\ Follows(runs[s], Idle)
  <2> DEFINE S == tx.batch
  <2>1. S \in SUBSET (1..Count(r.list)) /\ Fail(s, S)
      BY <1>3, <1>6
  <2> HIDE DEF S, tx, r
  <2> QED
      BY <1>1, <2>1, Failed, IdleFollows
<1>7. ASSUME Fail(s, tx.batch), UNCHANGED flight, Fault \/ Fine
      PROVE  SequenceInv'
    BY <1>1, <1>2, <1>6, <1>7, QuietStep
<1>8. ASSUME flight' = flight \cup {Abandoned(tx)}, Fail(s, tx.batch), Fault
      PROVE  SequenceInv'
  <2>1. /\ runs' = [runs EXCEPT ![s] = Idle] /\ UNCHANGED counts
        /\ GoodRun(Here, Idle) /\ GoodStatuses(Here, statuses')
        /\ Follows(runs[s], Idle)
      BY <1>6, <1>8
  <2> DEFINE lost == Abandoned(tx)
  <2>2. /\ lost \in TxType /\ lost.by = 0 /\ lost.list \in Ours(form)
        /\ lost.batch \subseteq 1..Count(lost.list) /\ lost.batch = tx.batch
        /\ flight' = flight \cup {lost}
      BY <1>3, <1>8
  <2> HIDE DEF lost, tx, r
  <2>3. GoodFlight(form', runs', flight')
    <3> DEFINE rs2 == runs'
    <3>1. rs2 = [runs EXCEPT ![s] = Idle]
        BY <2>1
    <3> HIDE DEF rs2
    <3>2. GoodFlight(form, rs2, flight)
        BY <1>1, <3>1, FlightsOfOthers
    <3>3. GoodFlight(form, rs2, flight \cup {lost})
        BY <2>2, <3>2, OneMore
    <3> QED
        BY <1>1, <2>2, <3>3 DEF rs2
  <2>4. Unsent(Idle) \cap lost.batch = {}
      BY DEF Unsent, Idle
  <2>5. Deposits'
      BY <1>1, <1>4, <2>1, <2>2, <2>4, RelayedDeposits
  <2> QED
      BY <1>1, <1>2, <1>8, <2>1, <2>3, <2>5, OneStep
<1> QED
  <2>1. \/ flight' = flight \cup {tx} /\ runs' = [runs EXCEPT ![s].pc = "confirm"]
           /\ UNCHANGED <<statuses, counts>> /\ Fine
        \/ Fail(s, tx.batch) /\ UNCHANGED flight /\ (Fault \/ Fine)
        \/ flight' = flight \cup {Abandoned(tx)} /\ Fail(s, tx.batch) /\ Fault
      BY DEF Relay
  <2> QED
      BY <1>5, <1>7, <1>8, <2>1

LEMMA TailOfBatches ==
    ASSUME NEW batches \in Seq(SUBSET Nat), Apart(batches), Len(batches) > 1
    PROVE  /\ Tail(batches) \in Seq(SUBSET Nat) /\ Tail(batches) # <<>>
           /\ Apart(Tail(batches))
           /\ UNION Range(Tail(batches)) = (UNION Range(batches)) \ batches[1]
<1> DEFINE tail == Tail(batches)
           n == Len(batches)
<1>1. /\ n \in Nat /\ n > 1 /\ DOMAIN batches = 1..n
      /\ tail \in Seq(SUBSET Nat) /\ Len(tail) = n - 1 /\ DOMAIN tail = 1..(n - 1)
      /\ \A i \in 1..(n - 1) : tail[i] = batches[i + 1]
  <2>1. batches # <<>>
      OBVIOUS
  <2> QED
      BY <2>1, HeadTailProperties, LenProperties
<1> HIDE DEF tail, n
<1>2. tail # <<>>
    BY <1>1
<1>3. Apart(tail)
  <2> SUFFICES ASSUME NEW i \in 1..(n - 1), NEW j \in 1..(n - 1), i # j
               PROVE  tail[i] \cap tail[j] = {}
      BY <1>1 DEF Apart
  <2>1. i + 1 \in 1..n /\ j + 1 \in 1..n /\ i + 1 # j + 1
      BY <1>1
  <2> QED
      BY <1>1, <2>1 DEF Apart
<1>4. ASSUME NEW x \in UNION Range(tail)
      PROVE  x \in (UNION Range(batches)) \ batches[1]
  <2>1. PICK i \in 1..(n - 1) : x \in tail[i]
      BY <1>1 DEF Range
  <2>2. i + 1 \in 1..n /\ 1 \in 1..n /\ i + 1 # 1 /\ x \in batches[i + 1]
      BY <1>1, <2>1
  <2> QED
      BY <1>1, <2>2 DEF Apart, Range
<1>5. ASSUME NEW x \in UNION Range(batches), x \notin batches[1]
      PROVE  x \in UNION Range(tail)
  <2>1. PICK i \in 1..n : x \in batches[i]
      BY <1>1 DEF Range
  <2>2. i # 1
      BY <1>5, <2>1
  <2>3. i - 1 \in 1..(n - 1) /\ (i - 1) + 1 = i
      BY <1>1, <2>2
  <2>4. x \in tail[i - 1]
      BY <1>1, <2>1, <2>3
  <2> QED
      BY <1>1, <2>3, <2>4 DEF Range
<1> QED
    BY <1>1, <1>2, <1>3, <1>4, <1>5 DEF tail

Continuing(r) == [r EXCEPT !.batches = Tail(@)]

\* A transaction has landed, and there is another one.
LEMMA Continued ==
    ASSUME form \in Forms, NEW r, UnderWay(Here, r), r.pc = "confirm", r.fate = "landed",
           Len(r.batches) > 1
    PROVE  /\ Sending(Here, Continuing(r))
           /\ ToSend(Continuing(r)) = ToSend(r) \ r.batches[1]
<1> DEFINE r1 == Continuing(r)
<1>1. /\ r \in RunType /\ r.batches \in Seq(SUBSET Nat) /\ Apart(r.batches)
      /\ r.list \in Ours(form) /\ Here.form = form
      /\ \A i \in r.batches[1] : Held(Here, r.list, i)
      /\ form = "deposit" => Paying(Here, r)
    BY DEF UnderWay, RunType, Here
<1>2. /\ Tail(r.batches) \in Seq(SUBSET Nat) /\ Tail(r.batches) # <<>>
      /\ Apart(Tail(r.batches))
      /\ UNION Range(Tail(r.batches)) = (UNION Range(r.batches)) \ r.batches[1]
  <2> DEFINE b == r.batches
  <2>1. b \in Seq(SUBSET Nat) /\ Apart(b) /\ Len(b) > 1
      BY <1>1
  <2> HIDE DEF b
  <2>2. /\ Tail(b) \in Seq(SUBSET Nat) /\ Tail(b) # <<>>
        /\ Apart(Tail(b))
        /\ UNION Range(Tail(b)) = (UNION Range(b)) \ b[1]
      BY <2>1, TailOfBatches
  <2> QED
      BY <2>2 DEF b
<1>3. /\ r1 \in RunType /\ r1.list = r.list /\ r1.missing = r.missing
      /\ r1.batches = Tail(r.batches)
    BY <1>1, <1>2 DEF Continuing, RunType
<1> HIDE DEF r1
<1>4. ToSend(r1) = ToSend(r) \ r.batches[1]
    BY <1>2, <1>3 DEF ToSend
<1>5. form = "deposit" =>
        /\ \A i \in 1..Count(r1.list) : i \in ToSend(r1) \/ Held(Here, r1.list, i)
        /\ r1.list[1] = "add" => AllActive(Here)
    BY <1>1, <1>3, <1>4 DEF Paying
<1>6. ToSend(r1) \subseteq 1..Count(r1.list) /\ r1.missing \subseteq 1..Count(r1.list)
    BY <1>3, <1>4 DEF UnderWay
<1>7. ~Here.edited => r1.list[2] = Here.oracle /\ Here.shown = Here.oracle
    BY <1>3 DEF UnderWay
<1>8. Sending(Here, r1)
    BY <1>1, <1>2, <1>3, <1>5, <1>6, <1>7 DEF Sending
<1> QED
    BY <1>4, <1>8 DEF r1

\* The last transaction of a deposit has landed: everything is there.
LEMMA PaidAndActive ==
    ASSUME form = "deposit", form \in Forms, NEW r, UnderWay(Here, r), r.pc = "confirm",
           r.fate = "landed", ~(Len(r.batches) > 1)
    PROVE  AllActive(Here) /\ \A m \in 1..Group : Credits(r, m)
<1>1. /\ r \in RunType /\ r.batches \in Seq(SUBSET Nat) /\ r.batches # <<>>
      /\ r.list \in Ours(form) /\ Here.form = form
      /\ \A i \in r.batches[1] : Held(Here, r.list, i)
      /\ Paying(Here, r)
    BY DEF UnderWay, RunType, Here
<1>2. ToSend(r) = r.batches[1]
  <2> DEFINE b == r.batches
  <2>1. b \in Seq(SUBSET Nat) /\ b # <<>> /\ ~(Len(b) > 1)
      BY <1>1
  <2> HIDE DEF b
  <2>2. Len(b) = 1 /\ DOMAIN b = 1..1
    <3>1. Len(b) \in Nat /\ Len(b) # 0 /\ DOMAIN b = 1..Len(b)
        BY <2>1, EmptySeq, LenProperties
    <3>2. Len(b) = 1
        BY <2>1, <3>1
    <3> QED
        BY <3>1, <3>2
  <2>3. Range(b) = {b[1]}
      BY <2>2 DEF Range
  <2> QED
      BY <2>3 DEF ToSend, b
<1>3. \A i \in 1..Count(r.list) : Held(Here, r.list, i)
    BY <1>1, <1>2 DEF Paying
<1>4. AllActive(Here)
  <2>1. CASE r.list[1] = "add"
      BY <1>1, <2>1 DEF Paying
  <2>2. CASE r.list[1] # "add"
    <3>1. PICK o \in Oracles : r.list = <<"contribute", o>>
      <4>1. PICK kind \in {"contribute", "add"}, o \in Oracles : r.list = <<kind, o>>
          BY <1>1 DEF Ours, Kinds
      <4> QED
          BY <2>2, <4>1
    <3>2. ASSUME NEW m \in Ready PROVE <<"active", "market", m>> \in Here.accounts
      <4>1. PICK i \in 1..Count(r.list) : <<"active", "market", m>> \in Steps[r.list][i].adds
          BY <3>1, ListShapes
      <4> QED
          BY <1>3, <4>1 DEF Held
    <3> QED
        BY <3>2 DEF AllActive
  <2> QED
      BY <2>1, <2>2
<1>5. \A m \in 1..Group : Credits(r, m)
    BY <1>2 DEF Credits
<1> QED
    BY <1>4, <1>5

LEMMA ConfirmKeeps ==
    ASSUME SequenceInv, NEW s \in Invocations, Confirm(s)
    PROVE  SequenceInv'
<1> USE DEF screen, chain, counts
<1> DEFINE r == runs[s]
           tx == Transaction(s, r)
<1>1. /\ r.pc = "confirm" /\ UnderWay(Here, r) /\ GoodStatuses(Here, statuses) /\ form \in Forms
      /\ UNCHANGED <<screen, accounts, paid>> /\ DOMAIN runs = Invocations
      /\ GoodFlight(form, runs, flight) /\ finished \in Nat
      /\ r \in RunType /\ Here.form = form /\ r.list \in Ours(form)
      /\ ~Here.edited => r.list[2] = Here.oracle /\ Here.shown = Here.oracle
    BY OfTheRun DEF Confirm, SequenceInv, Plain, UnderWay
<1>2. (Fault \/ Fine) => faults' \in 0..MaxFaults
    BY FaultsBounded DEF SequenceInv
<1>3. /\ tx \in TxType /\ tx.by = s /\ tx.list = r.list /\ tx.batch = r.batches[1]
      /\ tx.list \in Ours(form) /\ tx.batch \in SUBSET (1..Count(tx.list))
      /\ tx.batch \subseteq ToSend(r)
      /\ Abandoned(tx) \in TxType /\ Abandoned(tx).by = 0
      /\ Abandoned(tx).list = tx.list /\ Abandoned(tx).batch = tx.batch
    BY <1>1, ItsTransaction
<1>4. r.fate = "landed" => GoodStatuses(Here, Mark(statuses, tx.batch, "done"))
  <2> SUFFICES ASSUME r.fate = "landed"
               PROVE  GoodStatuses(Here, Mark(statuses, tx.batch, "done"))
      OBVIOUS
  <2> DEFINE w == Here
             S == tx.batch
             list == r.list
  <2>1. /\ GoodStatuses(w, statuses) /\ w.form \in Forms /\ list \in Ours(w.form)
        /\ S \in SUBSET (1..Count(list)) /\ \A i \in S : Held(w, list, i)
        /\ ~w.edited => list[2] = w.oracle /\ w.shown = w.oracle
      BY <1>1, <1>3 DEF UnderWay
  <2>2. "done" \in Marks
      BY DEF Marks
  <2> HIDE DEF w, S, list, r
  <2>3. GoodStatuses(w, Mark(statuses, S, "done"))
      BY <2>1, <2>2, MarkedStatuses
  <2> QED
      BY <2>3 DEF w, S
<1>5. ASSUME r.fate = "landed", UNCHANGED flight, Fine, Len(r.batches) > 1,
             NEW done, done = Mark(statuses, tx.batch, "done"),
             Begin(s, [r EXCEPT !.batches = Tail(@)], done), UNCHANGED counts
      PROVE  SequenceInv'
  <2> DEFINE r1 == Continuing(r)
  <2>1. Sending(Here, r1) /\ ToSend(r1) = ToSend(r) \ r.batches[1]
      BY <1>1, <1>5, Continued
  <2>2. /\ runs' = [runs EXCEPT ![s] = Relaying(r1)]
        /\ statuses' = Mark(done, r1.batches[1], "running")
      BY <1>5 DEF Begin, Relaying, Continuing
  <2> HIDE DEF r1
  <2>3. /\ GoodRun(Here, Relaying(r1)) /\ GoodStatuses(Here, Mark(done, r1.batches[1], "running"))
        /\ Relaying(r1).pc = "relay" /\ Relaying(r1).batches = r1.batches
      BY <1>1, <1>4, <1>5, <2>1, Begun
  <2>4. Follows(runs[s], Relaying(r1))
    <3>1. ToSend(Relaying(r1)) = ToSend(r) \ r.batches[1]
        BY <2>1, <2>3 DEF ToSend
    <3> QED
        BY <1>1, <1>5, <2>3, <3>1 DEF Follows, Unsent, Credits
  <2>5. GoodStatuses(Here, statuses')
      BY <2>2, <2>3
  <2>6. runs[s].fate # "none"
      BY <1>5
  <2> QED
      BY <1>1, <1>2, <1>5, <2>2, <2>3, <2>4, <2>5, <2>6, QuietStep
<1>6. ASSUME r.fate = "landed", UNCHANGED flight, Fine, ~(Len(r.batches) > 1),
             statuses' = Mark(statuses, tx.batch, "done"), Finish(s)
      PROVE  SequenceInv'
  <2>1. /\ runs' = [runs EXCEPT ![s] = Idle] /\ UNCHANGED clicks
        /\ finished' = finished + (IF form = "deposit" THEN 1 ELSE 0)
        /\ runs[s].fate # "none"
      BY <1>6 DEF Finish, Stop
  <2>2. GoodRun(Here, Idle) /\ GoodStatuses(Here, statuses') /\ Follows(runs[s], Idle)
      BY <1>4, <1>6, IdleFollows DEF GoodRun
  <2>3. CASE form = "deposit"
    <3>1. AllActive(Here) /\ \A m \in 1..Group : Credits(runs[s], m)
        BY <1>1, <1>6, <2>3, PaidAndActive
    <3>2. finished' = finished + 1 /\ UNCHANGED <<form, accounts, paid, clicks, flight>>
        BY <1>1, <1>6, <2>1, <2>3
    <3>3. Deposits'
        BY <2>1, <2>3, <3>1, <3>2, FinishedDeposits
    <3>4. GoodFlight(form', runs', flight')
        BY <2>1, <3>2, FlightKept
    <3>5. finished' \in Nat
        BY <1>1, <3>2
    <3> QED
        BY <1>1, <1>2, <1>6, <2>1, <2>2, <3>3, <3>4, <3>5, OneStep
  <2>4. CASE form # "deposit"
    <3>1. UNCHANGED counts
        BY <1>1, <2>1, <2>4
    <3> QED
        BY <1>1, <1>2, <1>6, <2>1, <2>2, <3>1, QuietStep
  <2> QED
      BY <2>3, <2>4
<1>7. ASSUME Fail(s, tx.batch)
      PROVE  /\ runs' = [runs EXCEPT ![s] = Idle] /\ UNCHANGED counts
             /\ GoodRun(Here, Idle) /\ GoodStatuses(Here, statuses')
             /\ Follows(runs[s], Idle)
  <2> DEFINE S == tx.batch
  <2>1. S \in SUBSET (1..Count(r.list)) /\ Fail(s, S)
      BY <1>3, <1>7
  <2> HIDE DEF S, tx, r
  <2> QED
      BY <1>1, <2>1, Failed, IdleFollows
<1>8. ASSUME r.fate = "failed", UNCHANGED flight, Fine, Fail(s, tx.batch)
      PROVE  SequenceInv'
  <2>1. runs[s].fate # "none"
      BY <1>8
  <2> QED
      BY <1>1, <1>2, <1>7, <1>8, <2>1, QuietStep
<1>9. ASSUME flight' = IF tx \in flight THEN (flight \ {tx}) \cup {Abandoned(tx)} ELSE flight,
             Fail(s, tx.batch), Fault \/ Fine
      PROVE  SequenceInv'
  <2>1. /\ runs' = [runs EXCEPT ![s] = Idle] /\ UNCHANGED counts
        /\ GoodRun(Here, Idle) /\ GoodStatuses(Here, statuses')
        /\ Follows(runs[s], Idle)
      BY <1>7, <1>9
  <2> DEFINE lost == Abandoned(tx)
             g == [t \in flight |-> IF t = tx THEN lost ELSE t]
  <2>2. /\ lost \in TxType /\ lost.by = 0 /\ lost.list \in Ours(form)
        /\ lost.batch \subseteq 1..Count(lost.list) /\ lost.batch = tx.batch
      BY <1>3
  <2>3. /\ flight' \subseteq (flight \ {tx}) \cup {lost}
        /\ \A t \in flight' : (t \in flight /\ t # tx) \/ (t = lost /\ tx \in flight)
    <3>1. CASE tx \in flight
        BY <1>9, <3>1
    <3>2. CASE tx \notin flight
        BY <1>9, <3>2
    <3> QED
        BY <3>1, <3>2
  <2>4. \A t \in flight : t.by = s => t = tx
    <3>1. s # 0
        BY DEF Invocations
    <3> QED
        BY <1>1, <3>1 DEF GoodFlight, Linked
  <2> HIDE DEF lost, tx, r
  <2>5. GoodFlight(form', runs', flight')
    <3> DEFINE rs2 == runs'
               txs2 == flight'
    <3>1. rs2 = [runs EXCEPT ![s] = Idle] /\ txs2 \subseteq (flight \ {tx}) \cup {lost}
      <4>1. rs2 = [runs EXCEPT ![s] = Idle]
          BY <2>1
      <4>2. txs2 \subseteq (flight \ {tx}) \cup {lost}
          BY <2>3
      <4> QED
          BY <4>1, <4>2
    <3> HIDE DEF rs2, txs2
    <3>2. IsFiniteSet(txs2)
      <4>1. IsFiniteSet(flight \ {tx})
          BY <1>1, FS_Subset DEF GoodFlight
      <4>2. IsFiniteSet((flight \ {tx}) \cup {lost})
          BY <4>1, FS_AddElement
      <4> QED
          BY <3>1, <4>2, FS_Subset
    <3>3. ASSUME NEW t \in txs2
          PROVE  /\ t \in TxType /\ t.list \in Ours(form) /\ t.batch \subseteq 1..Count(t.list)
                 /\ t.by # 0 => Linked(t, rs2)
      <4>1. CASE t = lost
          BY <2>2, <4>1
      <4>2. CASE t # lost
        <5>1. t \in flight /\ t # tx
            BY <3>1, <4>2
        <5>2. t.by # s
            BY <2>4, <5>1
        <5>3. t.by # 0 => Linked(t, runs)
            BY <1>1, <5>1 DEF GoodFlight
        <5>4. t.by # 0 => Linked(t, rs2)
            BY <1>1, <3>1, <5>2, <5>3 DEF Linked
        <5> QED
            BY <1>1, <5>1, <5>4 DEF GoodFlight
      <4> QED
          BY <4>1, <4>2
    <3>4. GoodFlight(form, rs2, txs2)
        BY <3>2, <3>3 DEF GoodFlight
    <3> QED
        BY <1>1, <3>4 DEF rs2, txs2
  <2>6. (\A t \in flight : g[t].batch = t.batch) /\ flight' \subseteq Image(g, flight)
    <3>1. \A t \in flight : g[t] = IF t = tx THEN lost ELSE t
        OBVIOUS
    <3>2. ASSUME NEW t \in flight' PROVE \E u \in flight : g[u] = t
      <4>1. CASE t \in flight /\ t # tx
          BY <3>1, <4>1
      <4>2. CASE ~(t \in flight /\ t # tx)
        <5>1. t = lost /\ tx \in flight
            BY <2>3, <4>2
        <5> QED
            BY <3>1, <5>1
      <4> QED
          BY <4>1, <4>2
    <3> HIDE DEF g
    <3> QED
        BY <2>2, <3>1, <3>2 DEF Image
  <2> HIDE DEF g
  <2>7. Deposits'
    <3>1. \A t \in Invocations : Follows(runs[t], runs'[t])
      <4> DEFINE rs2 == runs'
      <4>1. rs2 = [runs EXCEPT ![s] = Idle]
          BY <2>1
      <4> HIDE DEF rs2
      <4>2. \A t \in Invocations : Follows(runs[t], runs[t])
          BY DEF Follows
      <4>3. \A t \in Invocations : rs2[t] = IF t = s THEN Idle ELSE runs[t]
          BY <1>1, <4>1
      <4>4. \A t \in Invocations : Follows(runs[t], rs2[t])
          BY <2>1, <4>2, <4>3
      <4> QED
          BY <4>4 DEF rs2
    <3>2. form' = form /\ accounts \subseteq accounts' /\ UNCHANGED <<paid, clicks, finished>>
        BY <1>1, <2>1
    <3> QED
        BY <2>6, <3>1, <3>2, QuietDeposits
  <2>8. finished' \in Nat
      BY <1>1, <2>1
  <2> QED
      BY <1>1, <1>2, <1>9, <2>1, <2>5, <2>7, <2>8, OneStep
<1> QED
  <2>1. \/ /\ r.fate = "landed" /\ UNCHANGED flight /\ Fine
           /\ \E done \in {Mark(statuses, tx.batch, "done")} :
                 IF Len(r.batches) > 1
                 THEN Begin(s, [r EXCEPT !.batches = Tail(@)], done) /\ UNCHANGED counts
                 ELSE statuses' = done /\ Finish(s)
        \/ r.fate = "failed" /\ UNCHANGED flight /\ Fine /\ Fail(s, tx.batch)
        \/ /\ Fault \/ Fine
           /\ flight' = IF tx \in flight THEN (flight \ {tx}) \cup {Abandoned(tx)} ELSE flight
           /\ Fail(s, tx.batch)
      BY DEF Confirm
  <2> HIDE DEF r, tx
  <2> QED
      BY <1>5, <1>6, <1>8, <1>9, <2>1

-----------------------------------------------------------------------------
\* Steps of the chain, of others, and of the page

Answered(r, good) == [r EXCEPT !.fate = IF good THEN "landed" ELSE "failed"]

\* A run learns what became of the transaction that it waits for.
LEMMA AnsweredRun ==
    ASSUME NEW w, NEW r, UnderWay(w, r), r.pc = "confirm", NEW good \in BOOLEAN,
           good => \A i \in r.batches[1] : Held(w, r.list, i)
    PROVE  /\ GoodRun(w, Answered(r, good))
           /\ Unsent(Answered(r, good)) = Unsent(r)
           /\ \A m : Credits(Answered(r, good), m) => Credits(r, m) \/ (good /\ m \in r.batches[1])
<1> DEFINE r2 == Answered(r, good)
<1>1. r \in RunType /\ r.pc = "confirm"
    BY DEF UnderWay
<1>2. /\ r2 \in RunType /\ r2.pc = "confirm" /\ r2.list = r.list /\ r2.missing = r.missing
      /\ r2.batches = r.batches /\ r2.fate = IF good THEN "landed" ELSE "failed"
    BY <1>1 DEF Answered, RunType
<1> HIDE DEF r2
<1>3. ToSend(r2) = ToSend(r)
    BY <1>2 DEF ToSend
<1>4. UnderWay(w, r2)
    BY <1>1, <1>2, <1>3 DEF UnderWay, Paying
<1>5. Unsent(r2) = Unsent(r)
    BY <1>1, <1>2, <1>3 DEF Unsent
<1>6. \A m : Credits(r2, m) => Credits(r, m) \/ (good /\ m \in r.batches[1])
    BY <1>1, <1>2, <1>3 DEF Credits
<1> QED
    BY <1>4, <1>5, <1>6 DEF GoodRun, r2

LEMMA LandKeeps ==
    ASSUME SequenceInv, NEW tx \in flight, Land(tx)
    PROVE  SequenceInv'
<1> USE DEF screen, chain, counts
<1> DEFINE good == CanRun(tx.list, tx.batch)
           by == tx.by
           pays == IF good THEN tx.batch ELSE {}
<1>1. /\ Plain /\ Truth /\ GoodFlight(form, runs, flight) /\ form \in Forms
      /\ DOMAIN runs = Invocations /\ GoodStatuses(Here, statuses)
      /\ \A s \in Invocations : GoodRun(Here, runs[s])
    BY DEF SequenceInv, Plain, Truth
<1>2. /\ UNCHANGED <<screen, statuses, counts, faults>> /\ flight' = flight \ {tx}
      /\ accounts' = IF good THEN After(tx.list, tx.batch) ELSE accounts
      /\ paid' = [m \in 1..Group |-> paid[m] +
            IF good /\ \E i \in tx.batch : Steps[tx.list][i].pays = m THEN 1 ELSE 0]
      /\ runs' = [s \in Invocations |-> IF s = by THEN Answered(runs[s], good) ELSE runs[s]]
    BY DEF Land, Answered
<1>3. good \in BOOLEAN
    BY DEF CanRun
<1>4. /\ tx \in TxType /\ tx.list \in Ours(form) /\ tx.batch \in SUBSET (1..Count(tx.list))
      /\ by # 0 => Linked(tx, runs)
    BY <1>1 DEF GoodFlight
<1>5. /\ accounts \subseteq accounts'
      /\ good => \A i \in tx.batch : Steps[tx.list][i].adds \subseteq accounts'
    BY <1>2 DEF After
<1>6. Onward(Here, Here')
    BY <1>2, <1>5, Stays
<1> HIDE DEF good
<1>7. ASSUME NEW s \in Invocations, s = by
      PROVE  /\ runs[s].pc = "confirm" /\ tx.list = runs[s].list /\ tx.batch = runs[s].batches[1]
             /\ runs[s].fate = "none" /\ tx = Transaction(s, runs[s])
  <2>1. s # 0
      BY DEF Invocations
  <2> QED
      BY <1>4, <1>7, <2>1 DEF Linked, Transaction
<1> DEFINE w == Here'
           rs2 == runs'
<1>8. /\ Onward(Here, w) /\ w.accounts = accounts'
      /\ \A s \in Invocations : rs2[s] = IF s = by THEN Answered(runs[s], good) ELSE runs[s]
      /\ DOMAIN rs2 = Invocations
    BY <1>2, <1>6 DEF Here
<1> HIDE DEF w, rs2
<1>9. ASSUME NEW s \in Invocations
      PROVE  /\ GoodRun(w, rs2[s]) /\ Unsent(rs2[s]) = Unsent(runs[s])
             /\ \A m : Credits(rs2[s], m) =>
                    Credits(runs[s], m) \/ (s = by /\ good /\ m \in tx.batch)
  <2>1. GoodRun(w, runs[s])
      BY <1>1, <1>8, RunStays
  <2>2. CASE s = by
    <3> DEFINE r == runs[s]
    <3>1. UnderWay(w, r) /\ r.pc = "confirm"
        BY <1>7, <2>1, <2>2 DEF GoodRun, Building, Idle
    <3>2. good => \A i \in r.batches[1] : Held(w, r.list, i)
        BY <1>5, <1>7, <1>8, <2>2 DEF Held
    <3>3. rs2[s] = Answered(r, good) /\ tx.batch = r.batches[1]
        BY <1>7, <1>8, <2>2
    <3> HIDE DEF r
    <3>4. /\ GoodRun(w, Answered(r, good))
          /\ Unsent(Answered(r, good)) = Unsent(r)
          /\ \A m : Credits(Answered(r, good), m) => Credits(r, m) \/ (good /\ m \in r.batches[1])
        BY <1>3, <3>1, <3>2, AnsweredRun
    <3> QED
        BY <2>2, <3>3, <3>4 DEF r
  <2>3. CASE s # by
    <3>1. rs2[s] = runs[s]
        BY <1>8, <2>3
    <3> QED
        BY <2>1, <2>3, <3>1
  <2> QED
      BY <2>2, <2>3
<1>10. Truth'
  <2> DEFINE st2 == statuses'
  <2>1. st2 = statuses
      BY <1>2
  <2> HIDE DEF st2
  <2>2. GoodStatuses(w, st2)
      BY <1>1, <1>8, <2>1, StatusesStay
  <2> QED
      BY <1>9, <2>2 DEF Truth, w, rs2, st2
<1>11. Plain'
  <2>1. paid' \in [1..Group -> Nat]
    <3>1. \A m \in 1..Group : paid[m] \in Nat
        BY <1>1 DEF Plain
    <3>2. paid' = [m \in 1..Group |-> paid[m] +
            IF good /\ \E i \in tx.batch : Steps[tx.list][i].pays = m THEN 1 ELSE 0]
        BY <1>2
    <3> QED
        BY <3>1, <3>2
  <2>2. runs' = [s \in Invocations |-> runs'[s]] /\ DOMAIN runs' = Invocations
      BY <1>2
  <2> QED
      BY <1>1, <1>2, <2>1, <2>2 DEF Plain
<1>12. GoodFlight(form', runs', flight')
  <2>1. IsFiniteSet(flight \ {tx})
      BY <1>1, FS_Subset DEF GoodFlight
  <2>2. ASSUME NEW t \in flight \ {tx}, t.by # 0
        PROVE  Linked(t, rs2)
    <3>1. Linked(t, runs)
        BY <1>1, <2>2 DEF GoodFlight
    <3>2. t.by # by
        BY <1>7, <2>2, <3>1 DEF Linked
    <3>3. rs2[t.by] = runs[t.by]
        BY <1>8, <3>1, <3>2 DEF Linked
    <3> QED
        BY <3>1, <3>3 DEF Linked
  <2>3. GoodFlight(form, rs2, flight \ {tx})
      BY <1>1, <2>1, <2>2 DEF GoodFlight
  <2>4. form' = form /\ flight' = flight \ {tx}
      BY <1>2
  <2> QED
      BY <2>3, <2>4 DEF rs2
<1>13. Deposits'
  <2>1. CASE form # "deposit"
      BY <1>2, <2>1 DEF Deposits
  <2>2. CASE form = "deposit"
    <3>1. \A m \in 1..Group : (\E i \in tx.batch : Steps[tx.list][i].pays = m) <=> m \in tx.batch
      <4>1. /\ Count(tx.list) >= Group
            /\ \A i \in 1..Count(tx.list) : Steps[tx.list][i].pays = IF i <= Group THEN i ELSE 0
          BY <1>4, <2>2, PaysFirst
      <4>2. Count(tx.list) \in Nat /\ Group \in Nat
          BY <1>1, <1>4, OursAreWide, SequenceAssumption
      <4> QED
          BY <1>4, <4>1, <4>2
    <3>2. \A m \in 1..Group :
            (good /\ \E i \in tx.batch : Steps[tx.list][i].pays = m) <=> m \in pays
        BY <3>1
    <3>3. paid' = [m \in 1..Group |-> paid[m] + IF m \in pays THEN 1 ELSE 0]
        BY <1>2, <3>2
    <3>4. pays \subseteq tx.batch
        OBVIOUS
    <3>5. \A m \in 1..Group : Owing(rs2, m) \subseteq Owing(runs, m)
        BY <1>9 DEF Owing
    <3>6. \A m \in 1..Group : Crediting(rs2, m) \subseteq
                Crediting(runs, m) \cup (IF m \in pays THEN {by} ELSE {})
        BY <1>9 DEF Crediting
    <3> HIDE DEF pays, by
    <3>7. /\ form' = form /\ UNCHANGED <<clicks, finished>> /\ flight' = flight \ {tx}
        BY <1>2
    <3>8. /\ \A m \in 1..Group : Owing(runs', m) \subseteq Owing(runs, m)
          /\ \A m \in 1..Group : Crediting(runs', m) \subseteq
                Crediting(runs, m) \cup (IF m \in pays THEN {by} ELSE {})
        BY <3>5, <3>6 DEF rs2
    <3> QED
        BY <1>5, <3>3, <3>4, <3>7, <3>8, LandedDeposits
  <2> QED
      BY <2>1, <2>2
<1> QED
    BY <1>10, <1>11, <1>12, <1>13 DEF SequenceInv

\* The runs go on as they were, in a world with more accounts.
LEMMA NothingOfTheRuns ==
    ASSUME SequenceInv, Plain', UNCHANGED <<form, oracle, shown, edited, statuses, runs, paid, counts>>,
           accounts \subseteq accounts', flight' \subseteq flight
    PROVE  SequenceInv'
<1> USE DEF counts
<1>1. Truth /\ GoodFlight(form, runs, flight)
    BY DEF SequenceInv
<1>2. Onward(Here, Here')
    BY Stays
<1>3. Truth'
  <2> DEFINE w == Here'
             st2 == statuses'
             rs2 == runs'
  <2>1. Onward(Here, w) /\ st2 = statuses /\ rs2 = runs
      BY <1>2
  <2> HIDE DEF w, st2, rs2
  <2>2. \A s \in Invocations : GoodRun(w, rs2[s])
      BY <1>1, <2>1, RunStays DEF Truth
  <2>3. GoodStatuses(w, st2)
      BY <1>1, <2>1, StatusesStay DEF Truth
  <2> QED
      BY <2>2, <2>3 DEF Truth, w, st2, rs2
<1>4. GoodFlight(form', runs', flight')
  <2> DEFINE txs2 == flight'
  <2>1. txs2 \subseteq flight
      OBVIOUS
  <2> HIDE DEF txs2
  <2>2. IsFiniteSet(txs2)
      BY <1>1, <2>1, FS_Subset DEF GoodFlight
  <2>3. GoodFlight(form, runs, txs2)
      BY <1>1, <2>1, <2>2 DEF GoodFlight
  <2> QED
      BY <2>3 DEF txs2
<1>5. Deposits'
  <2>1. \A s \in Invocations : Follows(runs[s], runs[s])
      BY DEF Follows
  <2>2. \A s \in Invocations : Follows(runs[s], runs'[s])
    <3> DEFINE rs2 == runs'
    <3>1. rs2 = runs
        OBVIOUS
    <3> HIDE DEF rs2
    <3>2. \A s \in Invocations : Follows(runs[s], rs2[s])
        BY <2>1, <3>1
    <3> QED
        BY <3>2 DEF rs2
  <2> QED
      BY <2>2, StillDeposits
<1> QED
    BY <1>3, <1>4, <1>5 DEF SequenceInv

LEMMA ExpireKeeps ==
    ASSUME SequenceInv, NEW tx \in flight, Expire(tx)
    PROVE  SequenceInv'
<1>1. /\ UNCHANGED <<form, oracle, listed, shown, edited, statuses, runs, accounts, paid, counts>>
      /\ UNCHANGED <<clicks, finished>>
      /\ flight' \subseteq flight /\ Fault /\ Plain
    BY DEF Expire, SequenceInv, screen, counts
<1>2. faults' \in 0..MaxFaults
    BY <1>1, FaultsBounded
<1>3. Plain'
    BY <1>1, <1>2 DEF Plain
<1> QED
    BY <1>1, <1>3, NothingOfTheRuns

LEMMA OtherActorKeeps ==
    ASSUME SequenceInv, OtherActor
    PROVE  SequenceInv'
<1>1. /\ UNCHANGED <<form, oracle, listed, shown, edited, statuses, runs, paid, counts, faults>>
      /\ UNCHANGED <<clicks, finished>>
      /\ flight' \subseteq flight /\ accounts \subseteq accounts' /\ Plain
    BY DEF OtherActor, SequenceInv, screen, counts
<1>2. Plain'
    BY <1>1 DEF Plain
<1> QED
    BY <1>1, <1>2, NothingOfTheRuns

LEMMA RefreshKeeps ==
    ASSUME SequenceInv, Refresh
    PROVE  SequenceInv'
<1>1. /\ UNCHANGED <<form, oracle, shown, edited, statuses, runs, accounts, paid, counts, faults>>
      /\ UNCHANGED <<clicks, finished>>
      /\ flight' \subseteq flight /\ listed' \subseteq Oracles /\ Plain
    BY DEF Refresh, SequenceInv, chain, counts
<1>2. Plain'
    BY <1>1 DEF Plain
<1> QED
    BY <1>1, <1>2, NothingOfTheRuns

LEMMA StutterKeeps ==
    ASSUME SequenceInv, UNCHANGED vars
    PROVE  SequenceInv'
<1>1. /\ UNCHANGED <<form, oracle, listed, shown, edited, statuses, runs, accounts, paid, counts, faults>>
      /\ UNCHANGED <<clicks, finished>>
      /\ flight' \subseteq flight /\ Plain
    BY DEF vars, SequenceInv, screen, chain, counts
<1>2. Plain'
    BY <1>1 DEF Plain
<1> QED
    BY <1>1, <1>2, NothingOfTheRuns

\* Nothing runs and nothing is shown: whatever is on chain.
LEMMA NothingShown ==
    ASSUME NEW w
    PROVE  GoodRun(w, Idle) /\ GoodStatuses(w, <<>>)
<1>1. DOMAIN <<>> = {}
    OBVIOUS
<1> DEFINE none == <<>>
<1>2. DOMAIN none = {}
    BY <1>1
<1> HIDE DEF none
<1>3. GoodStatuses(w, none)
    BY <1>2 DEF GoodStatuses, Fits, Honest
<1> QED
    BY <1>3 DEF GoodRun, none

LEMMA NothingOwed ==
    ASSUME NEW rs, \A s \in Invocations : rs[s] = Idle, NEW m
    PROVE  Owing(rs, m) = {} /\ Crediting(rs, m) = {}
BY DEF Owing, Crediting, Unsent, Credits, Idle

LEMMA ReloadKeeps ==
    ASSUME SequenceInv, Reload
    PROVE  SequenceInv'
<1> USE DEF counts
<1>1. /\ Plain /\ GoodFlight(form, runs, flight) /\ faults' \in 0..MaxFaults
      /\ statuses' = <<>> /\ runs' = [s \in Invocations |-> Idle]
      /\ flight' = {Abandoned(tx) : tx \in flight}
      /\ listed' = {} /\ edited' = FALSE /\ shown' = oracle
      /\ UNCHANGED <<form, oracle, accounts, paid, clicks, finished>>
    BY FaultsBounded DEF Reload, SequenceInv
<1>2. Plain'
    BY <1>1 DEF Plain
<1>3. Truth'
  <2> DEFINE w == Here'
             st2 == statuses'
             rs2 == runs'
  <2>1. st2 = <<>> /\ \A s \in Invocations : rs2[s] = Idle
      BY <1>1
  <2> HIDE DEF w, st2, rs2
  <2>2. GoodStatuses(w, st2) /\ \A s \in Invocations : GoodRun(w, rs2[s])
      BY <2>1, NothingShown
  <2> QED
      BY <2>2 DEF Truth, w, st2, rs2
<1> DEFINE g == [tx \in flight |-> Abandoned(tx)]
<1>4. /\ \A tx \in flight : g[tx] = Abandoned(tx)
      /\ flight' = Image(g, flight)
  <2>1. \A tx \in flight : g[tx] = Abandoned(tx)
      OBVIOUS
  <2> HIDE DEF g
  <2>2. {Abandoned(tx) : tx \in flight} = {g[tx] : tx \in flight}
      BY <2>1
  <2> QED
      BY <1>1, <2>1, <2>2 DEF Image
<1> HIDE DEF g
<1>5. ASSUME NEW tx \in flight
      PROVE  /\ Abandoned(tx) \in TxType /\ Abandoned(tx).by = 0
             /\ Abandoned(tx).list = tx.list /\ Abandoned(tx).batch = tx.batch
    BY <1>1 DEF GoodFlight, TxType, Abandoned
<1>6. GoodFlight(form', runs', flight')
  <2> DEFINE txs2 == flight'
             rs2 == runs'
  <2>1. txs2 = Image(g, flight) /\ IsFiniteSet(flight)
      BY <1>1, <1>4 DEF GoodFlight
  <2> HIDE DEF txs2, rs2
  <2>2. IsFiniteSet(txs2)
      BY <2>1, ImageIsSmaller
  <2>3. ASSUME NEW t \in txs2
        PROVE  t \in TxType /\ t.list \in Ours(form) /\ t.batch \subseteq 1..Count(t.list) /\ t.by = 0
    <3>1. PICK tx \in flight : t = Abandoned(tx)
        BY <1>4, <2>1 DEF Image
    <3> QED
        BY <1>1, <1>5, <3>1 DEF GoodFlight
  <2>4. GoodFlight(form, rs2, txs2)
      BY <2>2, <2>3 DEF GoodFlight
  <2> QED
      BY <1>1, <2>4 DEF txs2, rs2
<1>7. Deposits'
  <2>1. \A tx \in flight : g[tx].batch = tx.batch
      BY <1>4, <1>5
  <2>2. \A s \in Invocations : Follows(runs[s], runs'[s])
    <3> DEFINE rs2 == runs'
    <3>1. \A s \in Invocations : rs2[s] = Idle
        BY <1>1
    <3> HIDE DEF rs2
    <3>2. \A s \in Invocations : Follows(runs[s], rs2[s])
        BY <3>1, IdleFollows
    <3> QED
        BY <3>2 DEF rs2
  <2> QED
      BY <1>1, <1>4, <2>1, <2>2, QuietDeposits
<1> QED
    BY <1>2, <1>3, <1>6, <1>7 DEF SequenceInv

LEMMA EditOracleKeeps ==
    ASSUME SequenceInv, EditOracle
    PROVE  SequenceInv'
<1>1. /\ Plain /\ Truth /\ GoodFlight(form, runs, flight) /\ form # "deposit"
      /\ oracle' \in Oracles
      /\ edited' = (edited \/ statuses # <<>> \/ \E s \in Invocations : runs[s] # Idle)
      /\ UNCHANGED <<form, listed, shown, statuses, runs, flight, accounts, paid, clicks, finished, faults>>
    BY DEF EditOracle, SequenceInv, chain, counts
<1>2. Plain'
    BY <1>1 DEF Plain
<1>3. Truth'
  <2> DEFINE w == Here'
             st2 == statuses'
             rs2 == runs'
  <2>1. /\ st2 = statuses /\ rs2 = runs
        /\ w.form = form /\ w.accounts = accounts
        /\ w.edited = (edited \/ statuses # <<>> \/ \E s \in Invocations : runs[s] # Idle)
        /\ Here.form = form /\ Here.accounts = accounts
      BY <1>1 DEF Here
  <2> HIDE DEF w, st2, rs2
  <2>2. GoodStatuses(w, st2) /\ \A s \in Invocations : GoodRun(w, rs2[s])
    <3>1. CASE w.edited
      <4>1. Onward(Here, w)
          BY <2>1, <3>1 DEF Onward
      <4> QED
          BY <1>1, <2>1, <4>1, RunStays, StatusesStay DEF Truth
    <3>2. CASE ~w.edited
      <4>1. statuses = <<>> /\ \A s \in Invocations : runs[s] = Idle
          BY <2>1, <3>2
      <4> QED
          BY <2>1, <4>1, NothingShown
    <3> QED
        BY <3>1, <3>2
  <2> QED
      BY <2>2 DEF Truth, w, st2, rs2
<1>4. GoodFlight(form', runs', flight')
  <2> DEFINE txs2 == flight'
             rs2 == runs'
  <2>1. txs2 = flight /\ rs2 = runs
      BY <1>1
  <2> HIDE DEF txs2, rs2
  <2>2. GoodFlight(form, rs2, txs2)
      BY <1>1, <2>1
  <2> QED
      BY <1>1, <2>2 DEF txs2, rs2
<1>5. Deposits'
    BY <1>1 DEF Deposits
<1> QED
    BY <1>2, <1>3, <1>4, <1>5 DEF SequenceInv

-----------------------------------------------------------------------------
\* The theorems

LEMMA SequenceInit ==
    ASSUME Init
    PROVE  SequenceInv
<1>1. /\ form \in Forms /\ oracle \in Oracles /\ shown \in Oracles /\ listed = {} /\ edited = FALSE
      /\ statuses = <<>> /\ runs = [s \in Invocations |-> Idle] /\ flight = {}
      /\ paid = [m \in 1..Group |-> 0] /\ clicks = 0 /\ finished = 0 /\ faults = 0
    BY SequenceAssumption DEF Init
<1>2. Plain
  <2>1. paid \in [1..Group -> Nat]
      BY <1>1
  <2>2. DOMAIN runs = Invocations /\ runs = [s \in Invocations |-> runs[s]]
      BY <1>1
  <2>3. clicks \in 0..MaxDeposits /\ faults \in 0..MaxFaults /\ finished \in Nat
      BY <1>1, SequenceAssumption
  <2> QED
      BY <1>1, <2>1, <2>2, <2>3 DEF Plain
<1>3. Truth
    BY <1>1, NothingShown DEF Truth
<1>4. GoodFlight(form, runs, flight)
    BY <1>1, FS_EmptySet DEF GoodFlight
<1>5. Deposits
  <2>1. \A s \in Invocations : runs[s] = Idle
      BY <1>1
  <2>2. ASSUME NEW m \in 1..Group
        PROVE  /\ paid[m] + Cardinality(Owing(runs, m)) + Cardinality(Carrying(flight, m)) <= clicks
               /\ finished + Cardinality(Crediting(runs, m)) <= paid[m]
    <3>1. Owing(runs, m) = {} /\ Crediting(runs, m) = {} /\ Carrying(flight, m) = {}
        BY <1>1, <2>1, NothingOwed DEF Carrying
    <3>2. Cardinality({}) = 0 /\ paid[m] = 0
        BY <1>1, FS_EmptySet
    <3> DEFINE o == Cardinality(Owing(runs, m))
               c == Cardinality(Carrying(flight, m))
               k == Cardinality(Crediting(runs, m))
               q == paid[m]
    <3>3. o = 0 /\ c = 0 /\ k = 0 /\ q = 0
        BY <3>1, <3>2
    <3> HIDE DEF o, c, k, q
    <3>4. q + o + c <= clicks /\ finished + k <= q
        BY <1>1, <3>3
    <3> QED
        BY <3>4 DEF o, c, k, q
  <2>3. ~(finished > 0)
      BY <1>1
  <2> QED
      BY <2>2, <2>3 DEF Deposits
<1> QED
    BY <1>2, <1>3, <1>4, <1>5 DEF SequenceInv

LEMMA SequenceNext ==
    ASSUME SequenceInv, [Next]_vars
    PROVE  SequenceInv'
<1>1. ASSUME NEW s \in Invocations, Click(s) \/ Run(s)
      PROVE  SequenceInv'
    BY <1>1, ClickKeeps, BuildKeeps, ProbeKeeps, SignAllKeeps, RelayKeeps, ConfirmKeeps DEF Run
<1>2. ASSUME NEW tx \in flight, Land(tx) \/ Expire(tx)
      PROVE  SequenceInv'
    BY <1>2, LandKeeps, ExpireKeeps
<1>3. CASE OtherActor \/ Reload \/ EditOracle \/ Refresh
    BY <1>3, OtherActorKeeps, ReloadKeeps, EditOracleKeeps, RefreshKeeps
<1>4. CASE UNCHANGED vars
    BY <1>4, StutterKeeps
<1> QED
    BY <1>1, <1>2, <1>3, <1>4 DEF Next

\* The reports follow from the invariant: a paid deposit is one of a click that
\* owes it no more, and a reported one was paid.
LEMMA ReportsFollow ==
    ASSUME SequenceInv
    PROVE  ReportsAreTrue
<1>1. Plain /\ Truth /\ GoodFlight(form, runs, flight) /\ Deposits
    BY DEF SequenceInv
<1>2. /\ Fits(Here, statuses) /\ Here.form = form /\ Here.oracle = oracle
      /\ Here.shown = shown /\ Here.edited = edited /\ Here.accounts = accounts
      /\ ~edited => Honest(Here, statuses) /\ (DOMAIN statuses = {} \/ shown = oracle)
    BY <1>1 DEF Truth, GoodStatuses, Here
<1>3. TypeOK
  <2>1. \A i \in DOMAIN statuses : statuses[i] \in {"pending", "running", "done", "error"}
      BY <1>2 DEF Fits, Marks
  <2>2. ASSUME NEW s \in Invocations
        PROVE  /\ runs[s].pc \in {"idle", "build", "probe", "sign", "relay", "confirm"}
               /\ runs[s].pc \in {"relay", "confirm"} => runs[s].batches # <<>>
    <3>1. GoodRun(Here, runs[s])
        BY <1>1 DEF Truth
    <3>2. CASE runs[s] = Idle
        BY <3>2 DEF Idle
    <3>3. CASE Building(Here, runs[s])
        BY <3>3 DEF Building
    <3>4. CASE UnderWay(Here, runs[s])
        BY <3>4 DEF UnderWay, RunType
    <3> QED
        BY <3>1, <3>2, <3>3, <3>4 DEF GoodRun
  <2>3. \A tx \in flight : tx.by # 0 => runs[tx.by].pc = "confirm"
      BY <1>1 DEF GoodFlight, Linked
  <2> QED
      BY <1>1, <2>1, <2>2, <2>3 DEF TypeOK, Plain
<1>4. DoneStepsLanded
  <2> SUFFICES ASSUME form # "deposit", ~edited, NEW i \in DOMAIN statuses, statuses[i] = "done"
               PROVE  Steps[<<form, shown>>][i].adds \subseteq accounts
      BY DEF DoneStepsLanded
  <2>1. Honest(Here, statuses) /\ shown = oracle
      BY <1>2
  <2> QED
      BY <1>2, <2>1 DEF Honest, Held
<1>5. DepositsCounted
  <2> SUFFICES ASSUME form = "deposit"
               PROVE  /\ \A m \in 1..Group : finished <= paid[m] /\ paid[m] <= clicks
                      /\ finished > 0 => \A m \in Ready : <<"active", "market", m>> \in accounts
      BY DEF DepositsCounted
  <2>1. ASSUME NEW m \in 1..Group
        PROVE  finished <= paid[m] /\ paid[m] <= clicks
    <3> DEFINE o == Cardinality(Owing(runs, m))
               c == Cardinality(Carrying(flight, m))
               k == Cardinality(Crediting(runs, m))
               q == paid[m]
    <3>1. o \in Nat /\ c \in Nat /\ k \in Nat
        BY <1>1, Counted DEF GoodFlight
    <3>2. q + o + c <= clicks /\ finished + k <= q
        BY <1>1 DEF Deposits
    <3>3. q \in Nat /\ clicks \in Nat /\ finished \in Nat
        BY <1>1, SequenceAssumption DEF Plain
    <3> HIDE DEF o, c, k, q
    <3>4. finished <= q /\ q <= clicks
        BY <3>1, <3>2, <3>3
    <3> QED
        BY <3>4 DEF q
  <2> QED
      BY <1>1, <1>2, <2>1 DEF Deposits, AllActive
<1> QED
    BY <1>3, <1>4, <1>5 DEF ReportsAreTrue

\* What a form shows as done is on chain, and a click on Deposit pays each market
\* at most once, whatever overlaps, times out, lands late or is retried: for
\* useActionSequence and useComposeSequence, with any number of steps.
THEOREM ReportsStayTrue == Spec => []ReportsAreTrue
<1>1. Init => SequenceInv
    BY SequenceInit
<1>2. SequenceInv /\ [Next]_vars => SequenceInv'
    BY SequenceNext
<1>3. SequenceInv => ReportsAreTrue
    BY ReportsFollow
<1> QED
    BY <1>1, <1>2, <1>3, PTL DEF Spec
=============================================================================
