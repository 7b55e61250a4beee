------------------------- MODULE CoordinatorProofs --------------------------
(***************************************************************************)
(* Proofs about distributed execution for every number of workers, all     *)
(* tables, every hash function and every pattern of failed calls: the      *)
(* calls of a strategy run in its order, and a plan that returns rows      *)
(* returns the rows of the same plan run on one node, each as often.       *)
(***************************************************************************)
EXTENDS Coordinator, FiniteSetTheorems, TLAPS

-----------------------------------------------------------------------------
(***************************************************************************)
(* Partitions.                                                             *)
(***************************************************************************)
\* The row ids and key hashes that the tables' rows really have.
RowsOK(table) ==
  \A r \in table : r.id \in Int /\ Hash[LiteralToString(r.key)] \in Nat

\* A table of rows as the workers hold it together: every row with its owner.
Spread(table) == {<<PartitionOf(r.id), r>> : r \in table}

\* Every row has exactly one worker that owns it and one that its key hashes to.
LEMMA PartitionType ==
  ASSUME NEW table, RowsOK(table), NEW r \in table
  PROVE  PartitionOf(r.id) \in Workers /\ HashPartitionOf(r.key) \in Workers
<1>1. \A n \in Int : n % NumWorkers \in 0..(NumWorkers - 1)
  BY CoordinatorAssumption
<1> QED BY <1>1 DEF RowsOK, PartitionOf, HashPartitionOf, Workers

\* Membership in a worker's partition of a table.
LEMMA PartitionMember ==
  ASSUME NEW table, NEW w, NEW e
  PROVE  e \in Partition(table, w) <=>
           \E r \in table : PartitionOf(r.id) = w /\ e = <<w, r>>
BY DEF Partition

\* The partitions together hold every row once.
LEMMA SpreadIs ==
  ASSUME NEW table, RowsOK(table)
  PROVE  UNION {Partition(table, w) : w \in Workers} = Spread(table)
<1>1. ASSUME NEW e \in Spread(table)
      PROVE  \E w \in Workers : e \in Partition(table, w)
  <2>1. PICK r \in table : e = <<PartitionOf(r.id), r>>
    BY DEF Spread
  <2> QED BY <2>1, PartitionType, PartitionMember
<1>2. ASSUME NEW w \in Workers, NEW e \in Partition(table, w)
      PROVE  e \in Spread(table)
  <2>1. PICK r \in table : PartitionOf(r.id) = w /\ e = <<w, r>>
    BY PartitionMember
  <2> QED BY <2>1 DEF Spread
<1> QED BY <1>1, <1>2

-----------------------------------------------------------------------------
(***************************************************************************)
(* Listings without repetition.                                            *)
(***************************************************************************)
\* The occurrences X give the output rows O under f, no row twice.
OneToOne(X, f, O) ==
  /\ \A x \in X : f[x] \in O
  /\ \A o \in O : \E x \in X : f[x] = o
  /\ \A x, y \in X : f[x] = f[y] => x = y

\* Then every row of the listing counts once.
LEMMA EachOnce ==
  ASSUME NEW X, NEW f, NEW O, OneToOne(X, f, O)
  PROVE  /\ {f[x] : x \in X} = O
         /\ \A o \in O : Cardinality({x \in X : f[x] = o}) = 1
<1>1. {f[x] : x \in X} = O
  BY DEF OneToOne
<1>2. ASSUME NEW o \in O
      PROVE  Cardinality({x \in X : f[x] = o}) = 1
  <2>1. PICK y \in X : f[y] = o
    BY DEF OneToOne
  <2>2. {x \in X : f[x] = o} = {y}
    BY <2>1 DEF OneToOne
  <2> QED BY <2>2, FS_Singleton, Zenon
<1> QED BY <1>1, <1>2

-----------------------------------------------------------------------------
(***************************************************************************)
(* The rows of a plan without an aggregate.                                *)
(***************************************************************************)
\* The pairs of rows that a join returns.
Matching(q) == {p \in left \X right : Matches(q, p[1].key, p[2].key)}

\* The rows that the plan returns, as a set: the tables hold none twice.
RowsOf(q) == IF q.core = "single" THEN left ELSE Matching(q)

\* On one node every row of the plan is returned once.
LEMMA LocalListing ==
  ASSUME NEW q \in QueryType, q.func = "none"
  PROVE  Listing(q, Local(q)) = [o \in RowsOf(q) |-> 1]
<1>1. CASE q.core = "single"
  <2> DEFINE X == FullCopy(left)
             f == [e \in X |-> Output(q, e)]
  <2>1. Local(q) = X
    BY <1>1 DEF Local, Execute
  <2>2. \A e \in X : Output(q, e) = e[2]
    BY <1>1 DEF Output
  <2>3. \A e \in X : f[e] \in RowsOf(q)
    BY <1>1, <2>2 DEF RowsOf, FullCopy
  <2>4. \A o \in RowsOf(q) : \E e \in X : f[e] = o
    <3> SUFFICES ASSUME NEW o \in left PROVE \E e \in X : f[e] = o
      BY <1>1 DEF RowsOf
    <3>1. <<Here, o>> \in X /\ <<Here, o>>[2] = o
      BY DEF FullCopy
    <3> QED BY <2>2, <3>1
  <2>5. \A e, d \in X : f[e] = f[d] => e = d
    BY <2>2 DEF FullCopy
  <2>6. Listing(q, X) = [o \in {f[e] : e \in X} |-> Cardinality({e \in X : f[e] = o})]
    BY DEF Listing
  <2> HIDE DEF X, f
  <2>7. Listing(q, X) = [o \in RowsOf(q) |-> 1]
    <3>1. OneToOne(X, f, RowsOf(q))
      BY <2>3, <2>4, <2>5 DEF OneToOne
    <3>2. /\ {f[e] : e \in X} = RowsOf(q)
          /\ \A o \in RowsOf(q) : Cardinality({e \in X : f[e] = o}) = 1
      BY <3>1, EachOnce
    <3> QED BY <2>6, <3>2
  <2> QED BY <2>1, <2>7
<1>2. CASE q.core # "single"
  <2> DEFINE X == Join(q, FullCopy(left), FullCopy(right))
             f == [e \in X |-> Output(q, e)]
  <2>1. Local(q) = X
    BY <1>2 DEF Local, Execute
  <2>2. \A e \in X : Output(q, e) = <<e[1][2], e[2][2]>>
    BY <1>2 DEF Output
  <2>3. \A e \in X : /\ e = <<<<Here, e[1][2]>>, <<Here, e[2][2]>>>>
                     /\ e[1][2] \in left /\ e[2][2] \in right
                     /\ Matches(q, e[1][2].key, e[2][2].key)
    BY DEF Join, FullCopy
  <2>4. \A e \in X : f[e] \in RowsOf(q)
    BY <1>2, <2>2, <2>3 DEF RowsOf, Matching
  <2>5. \A o \in RowsOf(q) : \E e \in X : f[e] = o
    <3> SUFFICES ASSUME NEW a \in left, NEW b \in right, Matches(q, a.key, b.key)
                 PROVE  \E e \in X : f[e] = <<a, b>>
      BY <1>2 DEF RowsOf, Matching
    <3>1. <<<<Here, a>>, <<Here, b>>>> \in X
      BY DEF Join, FullCopy
    <3> QED BY <2>2, <3>1
  <2>6. \A e, d \in X : f[e] = f[d] => e = d
    <3> SUFFICES ASSUME NEW e \in X, NEW d \in X, f[e] = f[d] PROVE e = d
      OBVIOUS
    <3>1. e[1][2] = d[1][2] /\ e[2][2] = d[2][2]
      BY <2>2
    <3> HIDE DEF X, f
    <3> QED BY <2>3, <3>1, Zenon
  <2>7. Listing(q, X) = [o \in {f[e] : e \in X} |-> Cardinality({e \in X : f[e] = o})]
    <3> HIDE DEF X
    <3> QED BY DEF Listing
  <2> HIDE DEF X, f
  <2>8. Listing(q, X) = [o \in RowsOf(q) |-> 1]
    <3>1. OneToOne(X, f, RowsOf(q))
      BY <2>4, <2>5, <2>6 DEF OneToOne
    <3>2. /\ {f[e] : e \in X} = RowsOf(q)
          /\ \A o \in RowsOf(q) : Cardinality({e \in X : f[e] = o}) = 1
      BY <3>1, EachOnce
    <3> QED BY <2>7, <3>2
  <2> QED BY <2>1, <2>8
<1> QED BY <1>1, <1>2

\* The rows that a scan's workers return, each from the worker that owns it.
LEMMA ScanListing ==
  ASSUME NEW q \in QueryType, q.func = "none", q.core = "single", RowsOK(left),
         \A w \in Workers : answers[w] = Partition(left, w)
  PROVE  Concatenation(q) = [o \in RowsOf(q) |-> 1]
<1> DEFINE X == UNION {{w} \X answers[w] : w \in Workers}
           f == [x \in X |-> Output(q, x[2])]
<1>1. \A x \in X : /\ x[2][2] \in left
                   /\ x = <<PartitionOf(x[2][2].id), <<PartitionOf(x[2][2].id), x[2][2]>>>>
                   /\ f[x] = x[2][2]
  <2> SUFFICES ASSUME NEW w \in Workers, NEW e \in answers[w], NEW x, x = <<w, e>>, x \in X
               PROVE  /\ x[2][2] \in left
                      /\ x = <<PartitionOf(x[2][2].id), <<PartitionOf(x[2][2].id), x[2][2]>>>>
                      /\ f[x] = x[2][2]
    OBVIOUS
  <2>1. PICK r \in left : PartitionOf(r.id) = w /\ e = <<w, r>>
    BY PartitionMember
  <2>2. x[2] = e /\ x[2][2] = r
    BY <2>1
  <2>3. f[x] = x[2][2]
    <3> HIDE DEF X
    <3> QED BY DEF Output
  <2> QED BY <2>1, <2>2, <2>3, Zenon
<1>2. \A o \in left : \E x \in X : f[x] = o
  <2> SUFFICES ASSUME NEW o \in left PROVE \E x \in X : f[x] = o
    OBVIOUS
  <2> DEFINE w == PartitionOf(o.id)
  <2>1. w \in Workers /\ <<w, o>> \in answers[w]
    BY PartitionType, PartitionMember
  <2> HIDE DEF w
  <2>2. <<w, <<w, o>>>> \in X
    BY <2>1
  <2>3. <<w, <<w, o>>>>[2][2] = o
    OBVIOUS
  <2> HIDE DEF X, f
  <2> QED BY <1>1, <2>2, <2>3, Zenon
<1>3. Concatenation(q) = [o \in {f[x] : x \in X} |-> Cardinality({x \in X : f[x] = o})]
  BY DEF Concatenation
<1>4. RowsOf(q) = left
  BY DEF RowsOf
<1> HIDE DEF X, f
<1>5. OneToOne(X, f, left)
  <2>1. ASSUME NEW x \in X, NEW y \in X, f[x] = f[y]
        PROVE  x = y
    <3>1. x[2][2] = y[2][2]
      BY <1>1, <2>1
    <3> QED BY <1>1, <3>1, Zenon
  <2> QED BY <1>1, <1>2, <2>1 DEF OneToOne
<1>6. {f[x] : x \in X} = left /\ \A o \in left : Cardinality({x \in X : f[x] = o}) = 1
  BY <1>5, EachOnce
<1> QED BY <1>3, <1>4, <1>6

\* Two rows that match, each with its owner.
Tagged(p) == <<<<PartitionOf(p[1].id), p[1]>>, <<PartitionOf(p[2].id), p[2]>>>>

\* The pairs that a join's workers return, when each pair is found by exactly
\* one of them, at[p].
LEMMA JoinListing ==
  ASSUME NEW q \in QueryType, q.func = "none", q.core # "single",
         NEW at, \A p \in Matching(q) : at[p] \in Workers,
         \A w \in Workers : answers[w] = {Tagged(p) : p \in {r \in Matching(q) : at[r] = w}}
  PROVE  Concatenation(q) = [o \in RowsOf(q) |-> 1]
<1> DEFINE X == UNION {{w} \X answers[w] : w \in Workers}
           f == [x \in X |-> Output(q, x[2])]
<1>1. \A p \in Matching(q) : p = <<p[1], p[2]>>
  BY DEF Matching
<1>2. ASSUME NEW x \in X
      PROVE  f[x] \in Matching(q) /\ x = <<at[f[x]], Tagged(f[x])>>
  <2>1. PICK w \in Workers : x \in {w} \X answers[w]
    OBVIOUS
  <2>2. x = <<w, x[2]>> /\ x[2] \in answers[w]
    BY <2>1
  <2>3. PICK p \in Matching(q) : at[p] = w /\ x[2] = Tagged(p)
    BY <2>2
  <2>4. Output(q, x[2]) = <<x[2][1][2], x[2][2][2]>>
    BY DEF Output
  <2>5. x[2][1][2] = p[1] /\ x[2][2][2] = p[2]
    BY <2>3 DEF Tagged
  <2>6. f[x] = p
    <3>1. f[x] = Output(q, x[2])
      <4> HIDE DEF X
      <4> QED OBVIOUS
    <3> QED BY <1>1, <2>4, <2>5, <3>1, Zenon
  <2> QED BY <2>2, <2>3, <2>6, Zenon
<1>3. ASSUME NEW p \in Matching(q)
      PROVE  \E x \in X : f[x] = p
  <2>1. at[p] \in Workers /\ Tagged(p) \in answers[at[p]]
    OBVIOUS
  <2>2. <<at[p], Tagged(p)>> \in X
    BY <2>1
  <2>3. f[<<at[p], Tagged(p)>>] = Output(q, Tagged(p))
    <3> HIDE DEF X
    <3> QED BY <2>2
  <2>4. Output(q, Tagged(p)) = <<p[1], p[2]>>
    BY DEF Output, Tagged
  <2> HIDE DEF X, f
  <2> QED BY <1>1, <2>2, <2>3, <2>4, Zenon
<1>4. Concatenation(q) = [o \in {f[x] : x \in X} |-> Cardinality({x \in X : f[x] = o})]
  BY DEF Concatenation
<1>5. RowsOf(q) = Matching(q)
  BY DEF RowsOf
<1> HIDE DEF X, f
<1>6. OneToOne(X, f, Matching(q))
  <2>1. \A x, y \in X : f[x] = f[y] => x = y
    BY <1>2, Zenon
  <2> QED BY <1>2, <1>3, <2>1 DEF OneToOne
<1>7. /\ {f[x] : x \in X} = Matching(q)
      /\ \A o \in Matching(q) : Cardinality({x \in X : f[x] = o}) = 1
  BY <1>6, EachOnce
<1> QED BY <1>4, <1>5, <1>7

-----------------------------------------------------------------------------
(***************************************************************************)
(* What the workers return.                                                *)
(***************************************************************************)
\* The rows of t that a shuffle sends to worker w.
Target(t, w) == {e \in Spread(t) : HashPartitionOf(e[2].key) = w}

\* What worker w returns for a plan without an aggregate, once everything its
\* strategy exchanges has been gathered.
RowsAt(w) ==
  CASE strategy = "single"          -> Partition(left, w)
    [] strategy = "broadcast_left"  -> Join(query, Spread(left), Partition(right, w))
    [] strategy = "broadcast_right" -> Join(query, Partition(left, w), Spread(right))
    [] strategy = "shuffle"         -> Join(query, Target(left, w), Target(right, w))

\* A partition is the part of the spread table that its worker owns.
LEMMA PartitionIs ==
  ASSUME NEW table, NEW w
  PROVE  Partition(table, w) = {e \in Spread(table) : e[1] = w}
<1>1. ASSUME NEW e \in Partition(table, w)
      PROVE  e \in Spread(table) /\ e[1] = w
  BY PartitionMember DEF Spread
<1>2. ASSUME NEW e \in Spread(table), e[1] = w
      PROVE  e \in Partition(table, w)
  <2>1. PICK r \in table : e = <<PartitionOf(r.id), r>>
    BY DEF Spread
  <2> QED BY <1>2, <2>1, PartitionMember
<1> QED BY <1>1, <1>2

\* A join of parts of the two spread tables returns the matching pairs whose
\* rows lie in those parts.
LEMMA TaggedJoin ==
  ASSUME NEW q, NEW L \in SUBSET Spread(left), NEW R \in SUBSET Spread(right)
  PROVE  Join(q, L, R) = {Tagged(p) : p \in {r \in Matching(q) :
                            Tagged(r)[1] \in L /\ Tagged(r)[2] \in R}}
<1> DEFINE S == {r \in Matching(q) : Tagged(r)[1] \in L /\ Tagged(r)[2] \in R}
<1>1. ASSUME NEW x \in Join(q, L, R)
      PROVE  \E p \in S : x = Tagged(p)
  <2>1. /\ x = <<x[1], x[2]>> /\ x[1] \in L /\ x[2] \in R
        /\ Matches(q, x[1][2].key, x[2][2].key)
    BY DEF Join
  <2>2. PICK a \in left : x[1] = <<PartitionOf(a.id), a>>
    BY <2>1 DEF Spread
  <2>3. PICK b \in right : x[2] = <<PartitionOf(b.id), b>>
    BY <2>1 DEF Spread
  <2>4. Tagged(<<a, b>>) = <<x[1], x[2]>>
    BY <2>2, <2>3 DEF Tagged
  <2>5. Matches(q, a.key, b.key)
    <3>1. x[1][2] = a /\ x[2][2] = b
      BY <2>2, <2>3
    <3> QED BY <2>1, <3>1, Zenon
  <2>6. <<a, b>> \in Matching(q)
    BY <2>5 DEF Matching
  <2>7. <<a, b>> \in S
    BY <2>1, <2>4, <2>6
  <2> QED BY <2>1, <2>4, <2>7, Zenon
<1>2. ASSUME NEW p \in S
      PROVE  Tagged(p) \in Join(q, L, R)
  <2>1. p[1] \in left /\ p[2] \in right /\ Matches(q, p[1].key, p[2].key)
    BY DEF Matching
  <2>2. /\ Tagged(p) = <<Tagged(p)[1], Tagged(p)[2]>>
        /\ Tagged(p)[1][2] = p[1] /\ Tagged(p)[2][2] = p[2]
    BY DEF Tagged
  <2>3. Matches(q, Tagged(p)[1][2].key, Tagged(p)[2][2].key)
    BY <2>1, <2>2, Zenon
  <2>4. Tagged(p) \in L \X R
    BY <2>2
  <2> QED BY <2>3, <2>4 DEF Join
<1> HIDE DEF S
<1>3. Join(q, L, R) = {Tagged(p) : p \in S}
  BY <1>1, <1>2
<1> QED BY <1>3 DEF S

\* When every worker has returned its rows, their concatenation is what one
\* node returns.  A shuffle needs the hash join's notion of equality, the one
\* by which it places its keys.
LEMMA ConcatenationIsLocal ==
  ASSUME query \in QueryType, query.func = "none", RowsOK(left), RowsOK(right),
         strategy \in {"single", "broadcast_left", "broadcast_right", "shuffle"},
         strategy = "single" <=> query.core = "single",
         strategy = "shuffle" => query.kind = "hash",
         \A w \in Workers : answers[w] = RowsAt(w)
  PROVE  Concatenation(query) = Listing(query, Local(query))
<1>1. CASE strategy = "single"
  <2>1. \A w \in Workers : answers[w] = Partition(left, w)
    BY <1>1 DEF RowsAt
  <2> QED BY <1>1, <2>1, ScanListing, LocalListing
<1>2. ASSUME strategy # "single",
             NEW at, \A p \in Matching(query) : at[p] \in Workers,
             \A w \in Workers :
               answers[w] = {Tagged(p) : p \in {r \in Matching(query) : at[r] = w}}
      PROVE  Concatenation(query) = Listing(query, Local(query))
  BY <1>2, JoinListing, LocalListing
<1>3. \A p \in Matching(query) :
        /\ p[1] \in left /\ p[2] \in right
        /\ Tagged(p)[1] \in Spread(left) /\ Tagged(p)[2] \in Spread(right)
        /\ Tagged(p)[1][1] = PartitionOf(p[1].id) /\ Tagged(p)[2][1] = PartitionOf(p[2].id)
        /\ Tagged(p)[1][2] = p[1] /\ Tagged(p)[2][2] = p[2]
        /\ Matches(query, p[1].key, p[2].key)
  BY DEF Matching, Tagged, Spread
<1>4. \A w : /\ Partition(left, w) \in SUBSET Spread(left)
            /\ Partition(right, w) \in SUBSET Spread(right)
            /\ Target(left, w) \in SUBSET Spread(left)
            /\ Target(right, w) \in SUBSET Spread(right)
  BY PartitionIs DEF Target
<1>5. CASE strategy = "broadcast_left"
  <2> DEFINE at == [p \in Matching(query) |-> PartitionOf(p[2].id)]
  <2>1. \A p \in Matching(query) : at[p] \in Workers
    BY <1>3, PartitionType
  <2>2. ASSUME NEW w \in Workers
        PROVE  answers[w] = {Tagged(p) : p \in {r \in Matching(query) : at[r] = w}}
    <3>1. answers[w] = Join(query, Spread(left), Partition(right, w))
      BY <1>5 DEF RowsAt
    <3>2. answers[w] = {Tagged(p) : p \in {r \in Matching(query) :
                          Tagged(r)[1] \in Spread(left) /\ Tagged(r)[2] \in Partition(right, w)}}
      BY <1>4, <3>1, TaggedJoin
    <3>3. \A r \in Matching(query) :
            (Tagged(r)[1] \in Spread(left) /\ Tagged(r)[2] \in Partition(right, w)) <=> at[r] = w
      BY <1>3, PartitionIs
    <3> HIDE DEF at
    <3> QED BY <3>2, <3>3
  <2> HIDE DEF at
  <2> QED BY <1>2, <1>5, <2>1, <2>2
<1>6. CASE strategy = "broadcast_right"
  <2> DEFINE at == [p \in Matching(query) |-> PartitionOf(p[1].id)]
  <2>1. \A p \in Matching(query) : at[p] \in Workers
    BY <1>3, PartitionType
  <2>2. ASSUME NEW w \in Workers
        PROVE  answers[w] = {Tagged(p) : p \in {r \in Matching(query) : at[r] = w}}
    <3>1. answers[w] = Join(query, Partition(left, w), Spread(right))
      BY <1>6 DEF RowsAt
    <3>2. answers[w] = {Tagged(p) : p \in {r \in Matching(query) :
                          Tagged(r)[1] \in Partition(left, w) /\ Tagged(r)[2] \in Spread(right)}}
      BY <1>4, <3>1, TaggedJoin
    <3>3. \A r \in Matching(query) :
            (Tagged(r)[1] \in Partition(left, w) /\ Tagged(r)[2] \in Spread(right)) <=> at[r] = w
      BY <1>3, PartitionIs
    <3> HIDE DEF at
    <3> QED BY <3>2, <3>3
  <2> HIDE DEF at
  <2> QED BY <1>2, <1>6, <2>1, <2>2
<1>7. CASE strategy = "shuffle"
  <2> DEFINE at == [p \in Matching(query) |-> HashPartitionOf(p[1].key)]
  <2>1. \A p \in Matching(query) : at[p] \in Workers
    BY <1>3, PartitionType
  <2>2. \A p \in Matching(query) : HashPartitionOf(p[2].key) = HashPartitionOf(p[1].key)
    <3>1. ASSUME NEW a, NEW b, Matches(query, a, b)
          PROVE  LiteralToString(a) = LiteralToString(b)
      BY <1>7, <3>1 DEF Matches
    <3>2. ASSUME NEW p \in Matching(query)
          PROVE  LiteralToString(p[1].key) = LiteralToString(p[2].key)
      BY <1>3, <3>1, Zenon
    <3> QED BY <3>2, Zenon DEF HashPartitionOf
  <2>3. ASSUME NEW w \in Workers
        PROVE  answers[w] = {Tagged(p) : p \in {r \in Matching(query) : at[r] = w}}
    <3>1. answers[w] = Join(query, Target(left, w), Target(right, w))
      BY <1>7 DEF RowsAt
    <3>2. answers[w] = {Tagged(p) : p \in {r \in Matching(query) :
                          Tagged(r)[1] \in Target(left, w) /\ Tagged(r)[2] \in Target(right, w)}}
      BY <1>4, <3>1, TaggedJoin
    <3>3. \A r \in Matching(query) :
            (Tagged(r)[1] \in Target(left, w) /\ Tagged(r)[2] \in Target(right, w)) <=> at[r] = w
      BY <1>3, <2>2 DEF Target
    <3> HIDE DEF at
    <3> QED BY <3>2, <3>3
  <2> HIDE DEF at
  <2> QED BY <1>2, <1>7, <2>1, <2>3
<1> QED BY <1>1, <1>5, <1>6, <1>7

-----------------------------------------------------------------------------
(***************************************************************************)
(* The calls of a strategy.                                                *)
(***************************************************************************)
Strategies == {"single", "broadcast_left", "broadcast_right", "shuffle"}

\* The sides of the join that a strategy gathers.
Sides(s) == (IF s \in {"broadcast_left", "shuffle"} THEN {"left"} ELSE {})
              \cup (IF s \in {"broadcast_right", "shuffle"} THEN {"right"} ELSE {})

CallSet == Workers \X {"left", "right", "plan"}

\* A sequence of calls that gathers before it runs the plan anywhere.
GathersFirst(calls) ==
  \A i, j \in 1..Len(calls) : i <= j /\ calls[i][2] = "plan" => calls[j][2] = "plan"

\* The calls of one kind to every worker.
LEMMA OneEach ==
  ASSUME NEW a \in {"left", "right", "plan"}
  PROVE  /\ EachWorker(<<a>>) \in Seq(CallSet) /\ Len(EachWorker(<<a>>)) = NumWorkers
         /\ \A i \in 1..NumWorkers : EachWorker(<<a>>)[i] = <<i - 1, a>>
<1>1. NumWorkers \in Nat /\ Len(<<a>>) = 1 /\ NumWorkers * Len(<<a>>) = NumWorkers
  BY CoordinatorAssumption
<1>2. \A i \in 1..NumWorkers : (i - 1) \div 1 = i - 1 /\ 1 + ((i - 1) % 1) = 1
  BY <1>1
<1>3. EachWorker(<<a>>) = [i \in 1..NumWorkers |-> <<i - 1, a>>]
  BY <1>1, <1>2 DEF EachWorker
<1>4. \A i \in 1..NumWorkers : <<i - 1, a>> \in CallSet
  BY <1>1 DEF CallSet, Workers
<1>5. EachWorker(<<a>>) \in [1..NumWorkers -> CallSet]
  BY <1>3, <1>4
<1>6. EachWorker(<<a>>) \in Seq(CallSet) /\ Len(EachWorker(<<a>>)) = NumWorkers
  <2> DEFINE e == EachWorker(<<a>>)
  <2>1. e \in [1..NumWorkers -> CallSet]
    BY <1>5
  <2> HIDE DEF e
  <2>2. e \in Seq(CallSet) /\ Len(e) = NumWorkers
    BY <1>1, <2>1
  <2> QED BY <2>2 DEF e
<1> QED BY <1>3, <1>6

\* The calls of two kinds to every worker, one after the other.
LEMMA TwoEach ==
  LET e == EachWorker(<<"left", "right">>)
  IN  /\ e \in Seq(CallSet) /\ Len(e) = 2 * NumWorkers
      /\ \A i \in 1..(2 * NumWorkers) : e[i][2] \in {"left", "right"}
      /\ \A w \in Workers : /\ 2 * w + 1 \in 1..(2 * NumWorkers)
                             /\ e[2 * w + 1] = <<w, "left">>
                             /\ 2 * w + 2 \in 1..(2 * NumWorkers)
                             /\ e[2 * w + 2] = <<w, "right">>
<1> DEFINE two == <<"left", "right">>
           e == EachWorker(two)
<1>1. /\ NumWorkers \in Nat /\ Len(two) = 2 /\ NumWorkers * Len(two) = 2 * NumWorkers
      /\ two[1] = "left" /\ two[2] = "right"
  BY CoordinatorAssumption
<1>2. \A i \in 1..(2 * NumWorkers) :
        (i - 1) \div 2 \in Workers /\ 1 + ((i - 1) % 2) \in {1, 2}
  BY <1>1 DEF Workers
<1>3. \A w \in Workers : 2 * w + 1 \in 1..(2 * NumWorkers) /\ 2 * w + 2 \in 1..(2 * NumWorkers)
  BY <1>1 DEF Workers
<1>4. e = [i \in 1..(2 * NumWorkers) |-> <<(i - 1) \div 2, two[1 + ((i - 1) % 2)]>>]
  BY <1>1 DEF EachWorker
<1> HIDE DEF two, e
<1>5. \A i \in 1..(2 * NumWorkers) : e[i] \in CallSet /\ e[i][2] \in {"left", "right"}
  BY <1>1, <1>2, <1>4 DEF CallSet
<1>6. e \in Seq(CallSet) /\ Len(e) = 2 * NumWorkers
  <2> DEFINE m == 2 * NumWorkers
  <2>1. m \in Nat
    BY <1>1
  <2>2. DOMAIN e = 1..m /\ \A i \in 1..m : e[i] \in CallSet
    BY <1>4, <1>5
  <2>3. e = [i \in 1..m |-> e[i]]
    BY <1>4
  <2> HIDE DEF m
  <2>4. e \in [1..m -> CallSet]
    BY <2>2, <2>3
  <2>5. e \in Seq(CallSet) /\ Len(e) = m
    BY <2>1, <2>4
  <2> QED BY <2>5 DEF m
<1>7. ASSUME NEW w \in Workers
      PROVE  e[2 * w + 1] = <<w, "left">> /\ e[2 * w + 2] = <<w, "right">>
  <2> DEFINE i == 2 * w + 1
             j == 2 * w + 2
  <2>1. /\ i \in 1..(2 * NumWorkers) /\ (i - 1) \div 2 = w /\ 1 + ((i - 1) % 2) = 1
        /\ j \in 1..(2 * NumWorkers) /\ (j - 1) \div 2 = w /\ 1 + ((j - 1) % 2) = 2
    BY <1>1 DEF Workers
  <2> HIDE DEF i, j
  <2>2. e[i] = <<w, "left">> /\ e[j] = <<w, "right">>
    BY <1>1, <1>4, <2>1, Zenon
  <2> QED BY <2>2 DEF i, j
<1> QED BY <1>3, <1>5, <1>6, <1>7 DEF e, two

\* Some call of the sequence is c.
Among(c, calls) == \E i \in 1..Len(calls) : calls[i] = c

\* What a strategy's calls are: each side it gathers from every worker, then
\* the plan on every worker.
CallsOf(calls, sides) ==
  /\ calls \in Seq(CallSet)
  /\ \A i \in 1..Len(calls) : calls[i][2] \in sides \cup {"plan"}
  /\ GathersFirst(calls)
  /\ \A w \in Workers : Among(<<w, "plan">>, calls)
  /\ \A w \in Workers, side \in sides : Among(<<w, side>>, calls)

\* Gathering followed by running the plan.
LEMMA GatherThenRun ==
  ASSUME NEW g \in Seq(CallSet), NEW sides \in SUBSET {"left", "right"},
         \A i \in 1..Len(g) : g[i][2] \in sides,
         \A w \in Workers, side \in sides : Among(<<w, side>>, g)
  PROVE  CallsOf(g \o EachWorker(<<"plan">>), sides)
<1> DEFINE r == EachWorker(<<"plan">>)
           c == g \o r
<1>1. /\ r \in Seq(CallSet) /\ Len(r) = NumWorkers /\ NumWorkers \in Nat
      /\ \A i \in 1..NumWorkers : r[i] = <<i - 1, "plan">>
  BY OneEach, CoordinatorAssumption
<1> HIDE DEF r
<1>2. /\ c \in Seq(CallSet) /\ Len(c) = Len(g) + NumWorkers /\ Len(g) \in Nat
      /\ \A i \in 1..Len(g) : c[i] = g[i]
      /\ \A i \in (Len(g) + 1)..Len(c) : c[i] = r[i - Len(g)]
  BY <1>1
<1> HIDE DEF c
<1>3. ASSUME NEW i \in (Len(g) + 1)..Len(c)
      PROVE  c[i] = <<i - Len(g) - 1, "plan">>
  <2>1. i - Len(g) \in 1..NumWorkers
    BY <1>1, <1>2
  <2> QED BY <1>1, <1>2, <2>1, Zenon
<1>4. \A i \in 1..Len(c) : IF i <= Len(g) THEN c[i][2] \in sides ELSE c[i][2] = "plan"
  BY <1>2, <1>3
<1>5. \A i \in 1..Len(c) : c[i][2] \in sides \cup {"plan"}
  BY <1>4
<1>6. GathersFirst(c)
  BY <1>2, <1>4 DEF GathersFirst
<1>7. ASSUME NEW w \in Workers
      PROVE  Among(<<w, "plan">>, c)
  <2> DEFINE i == Len(g) + w + 1
  <2>1. i \in (Len(g) + 1)..Len(c) /\ i \in 1..Len(c) /\ i - Len(g) - 1 = w
    BY <1>1, <1>2 DEF Workers
  <2> HIDE DEF i
  <2>2. c[i] = <<w, "plan">>
    BY <1>3, <2>1, Zenon
  <2> QED BY <2>1, <2>2, Zenon DEF Among
<1>8. ASSUME NEW w \in Workers, NEW side \in sides
      PROVE  Among(<<w, side>>, c)
  <2>1. PICK i \in 1..Len(g) : g[i] = <<w, side>>
    BY DEF Among
  <2>2. i \in 1..Len(c) /\ c[i] = <<w, side>>
    BY <1>1, <1>2, <2>1
  <2> QED BY <2>2 DEF Among
<1>9. CallsOf(c, sides)
  BY <1>2, <1>5, <1>6, <1>7, <1>8 DEF CallsOf
<1> QED BY <1>9 DEF c, r

\* The calls each strategy begins with.
LEMMA CallsAre ==
  ASSUME NEW s \in Strategies
  PROVE  CallsOf(Calls(s), Sides(s))
<1>0. NumWorkers \in Nat
  BY CoordinatorAssumption
<1>1. ASSUME NEW a \in {"left", "right"}
      PROVE  CallsOf(EachWorker(<<a>>) \o EachWorker(<<"plan">>), {a})
  <2> DEFINE g == EachWorker(<<a>>)
  <2>1. /\ g \in Seq(CallSet) /\ Len(g) = NumWorkers
        /\ \A i \in 1..NumWorkers : g[i] = <<i - 1, a>>
    BY OneEach
  <2> HIDE DEF g
  <2>2. \A i \in 1..Len(g) : g[i][2] \in {a}
    BY <2>1
  <2>3. ASSUME NEW w \in Workers, NEW side \in {a}
        PROVE  Among(<<w, side>>, g)
    <3> DEFINE i == w + 1
    <3>1. i \in 1..NumWorkers /\ i - 1 = w
      BY <1>0 DEF Workers
    <3> HIDE DEF i
    <3>2. g[i] = <<w, side>>
      BY <2>1, <3>1, Zenon
    <3> QED BY <2>1, <3>1, <3>2, Zenon DEF Among
  <2> QED BY <2>1, <2>2, <2>3, GatherThenRun DEF g
<1>2. CASE s = "single"
  <2>1. CallsOf(<<>> \o EachWorker(<<"plan">>), {})
    <3> DEFINE g == <<>>
    <3>1. g \in Seq(CallSet) /\ \A i \in 1..Len(g) : g[i][2] \in {}
      OBVIOUS
    <3>2. {} \in SUBSET {"left", "right"} /\ \A w \in Workers, side \in {} : Among(<<w, side>>, g)
      OBVIOUS
    <3> HIDE DEF g
    <3>3. CallsOf(g \o EachWorker(<<"plan">>), {})
      BY <3>1, <3>2, GatherThenRun
    <3> QED BY <3>3 DEF g
  <2>2. <<>> \o EachWorker(<<"plan">>) = EachWorker(<<"plan">>)
    BY OneEach
  <2>3. Calls(s) = EachWorker(<<"plan">>) /\ Sides(s) = {}
    BY <1>2 DEF Calls, Sides
  <2> QED BY <2>1, <2>2, <2>3
<1>3. CASE s = "broadcast_left"
  <2>1. Calls(s) = EachWorker(<<"left">>) \o EachWorker(<<"plan">>) /\ Sides(s) = {"left"}
    BY <1>3 DEF Calls, Sides
  <2> QED BY <1>1, <2>1
<1>4. CASE s = "broadcast_right"
  <2>1. Calls(s) = EachWorker(<<"right">>) \o EachWorker(<<"plan">>) /\ Sides(s) = {"right"}
    BY <1>4 DEF Calls, Sides
  <2> QED BY <1>1, <2>1
<1>5. CASE s = "shuffle"
  <2> DEFINE g == EachWorker(<<"left", "right">>)
  <2>1. /\ g \in Seq(CallSet) /\ Len(g) = 2 * NumWorkers
        /\ \A i \in 1..(2 * NumWorkers) : g[i][2] \in {"left", "right"}
        /\ \A w \in Workers : /\ 2 * w + 1 \in 1..(2 * NumWorkers)
                               /\ g[2 * w + 1] = <<w, "left">>
                               /\ 2 * w + 2 \in 1..(2 * NumWorkers)
                               /\ g[2 * w + 2] = <<w, "right">>
    BY TwoEach
  <2>2. Calls(s) = g \o EachWorker(<<"plan">>) /\ Sides(s) = {"left", "right"}
    BY <1>5 DEF Calls, Sides
  <2> HIDE DEF g
  <2>3. \A w \in Workers, side \in {"left", "right"} : Among(<<w, side>>, g)
    BY <2>1 DEF Among
  <2>4. CallsOf(g \o EachWorker(<<"plan">>), {"left", "right"})
    BY <2>1, <2>3, GatherThenRun
  <2> QED BY <2>2, <2>4
<1> QED BY <1>2, <1>3, <1>4, <1>5 DEF Strategies

-----------------------------------------------------------------------------
(***************************************************************************)
(* The inductive invariant.                                                *)
(***************************************************************************)
\* Every worker loaded its share of the tables the coordinator has.
Loaded ==
  /\ left \in Lefts /\ right \in Rights
  /\ loaded = [w \in Workers |-> Share(w)]

TableOf(side) == IF side = "left" THEN left ELSE right

\* What a strategy gathers comes from the spread tables, and the share of
\* every worker that was asked is there.
Gathered(side) ==
  /\ gathered[side] \subseteq Spread(TableOf(side))
  /\ \A w \in Workers :
       ~Among(<<w, side>>, todo) => Partition(TableOf(side), w) \subseteq gathered[side]

\* Every worker that ran its plan returned the rows it owes.
Answered(w) == ~Among(<<w, "plan">>, todo) => answers[w] = RowsAt(w)

\* While a query runs, the calls made so far have had their effect.
Progress ==
  /\ strategy \in Strategies
  /\ strategy = "single" <=> query.core = "single"
  /\ todo \in Seq(CallSet)
  /\ \A i \in 1..Len(todo) : todo[i][2] \in Sides(strategy) \cup {"plan"}
  /\ GathersFirst(todo)
  /\ \A side \in Sides(strategy) : Gathered(side)
  /\ query.func = "none" => \A w \in Workers : Answered(w)

\* Whatever fails and is recovered, a plan that returns rows returns those of
\* the same plan run on one node, each as often.  A shuffle does when the join
\* compares keys the way it places them.
RowsMatchLocal ==
  pc = "done" /\ query.func = "none" /\ (strategy = "shuffle" => query.kind = "hash")
    => result = Listing(query, Local(query))

\* The query under way is one that was submitted, and a shuffle is only begun
\* for a join on equality.
Chosen ==
  pc \in {"running", "hung", "done"} =>
    /\ query \in Queries
    /\ strategy = "shuffle" => query.core = "join" /\ query.condition = "eq"

IInv ==
  /\ TypeOK
  /\ Chosen
  /\ Loaded
  /\ DOMAIN gathered = {"left", "right"}
  /\ pc = "idle" => strategy = "none" /\ gathered = [left |-> {}, right |-> {}]
  /\ pc \in {"running", "hung"} => Progress
  /\ pc = "hung" => todo # <<>>
  /\ RowsMatchLocal

\* A suffix, position by position.
LEMMA SuffixIs ==
  ASSUME NEW S, NEW s \in Seq(S), NEW t \in Seq(S)
  PROVE  IsSuffix(s, t) <=>
           /\ Len(s) <= Len(t)
           /\ \A i \in 1..Len(s) : s[i] = t[Len(t) - Len(s) + i]
<1> DEFINE m == Len(s)
           n == Len(t)
           rs == Reverse(s)
           rt == Reverse(t)
<1>1. m \in Nat /\ n \in Nat
  OBVIOUS
<1>2. /\ rs = [i \in 1..m |-> s[(m - i) + 1]] /\ rt = [i \in 1..n |-> t[(n - i) + 1]]
      /\ \A i \in 1..m : (m - i) + 1 \in 1..m
      /\ \A i \in 1..n : (n - i) + 1 \in 1..n
  BY <1>1 DEF Reverse
<1>3. \A i \in 1..m : s[i] \in S
  OBVIOUS
<1>4. \A i \in 1..n : t[i] \in S
  OBVIOUS
<1>5. rs \in Seq(S) /\ Len(rs) = m /\ rt \in Seq(S) /\ Len(rt) = n
  BY <1>1, <1>2, <1>3, <1>4
<1>6. IsSuffix(s, t) <=> m <= n /\ SubSeq(rs, 1, m) = SubSeq(rt, 1, m)
  BY <1>5 DEF IsSuffix, IsPrefix
<1> HIDE DEF rs, rt
<1>7. m <= n => /\ SubSeq(rs, 1, m) = [i \in 1..m |-> rs[i]]
                /\ SubSeq(rt, 1, m) = [i \in 1..m |-> rt[i]]
  BY <1>1, <1>5
<1>8. m <= n => \A i \in 1..m : /\ rs[i] = s[(m - i) + 1] /\ rt[i] = t[(n - i) + 1]
                                /\ rs[(m - i) + 1] = s[i]
                                /\ rt[(m - i) + 1] = t[n - m + i]
  <2> SUFFICES ASSUME m <= n, NEW i \in 1..m
               PROVE  /\ rs[i] = s[(m - i) + 1] /\ rt[i] = t[(n - i) + 1]
                      /\ rs[(m - i) + 1] = s[i]
                      /\ rt[(m - i) + 1] = t[n - m + i]
    OBVIOUS
  <2> HIDE DEF m, n
  <2>1. /\ i \in 1..n /\ (m - i) + 1 \in 1..m /\ (m - i) + 1 \in 1..n
        /\ (m - ((m - i) + 1)) + 1 = i /\ (n - ((m - i) + 1)) + 1 = n - m + i
    BY <1>1
  <2> QED BY <1>2, <2>1, Zenon
<1>9. (m <= n /\ SubSeq(rs, 1, m) = SubSeq(rt, 1, m))
        <=> m <= n /\ \A i \in 1..m : s[i] = t[n - m + i]
  <2> HIDE DEF m, n
  <2>1. ASSUME m <= n, SubSeq(rs, 1, m) = SubSeq(rt, 1, m), NEW i \in 1..m
        PROVE  s[i] = t[n - m + i]
    <3>1. \A j \in 1..m : rs[j] = rt[j]
      BY <1>7, <2>1
    <3>2. (m - i) + 1 \in 1..m
      BY <1>1
    <3>3. rs[(m - i) + 1] = s[i] /\ rt[(m - i) + 1] = t[n - m + i]
      BY <1>8, <2>1
    <3>4. rs[(m - i) + 1] = rt[(m - i) + 1]
      BY <3>1, <3>2
    <3> QED BY <3>3, <3>4
  <2>2. ASSUME m <= n, \A i \in 1..m : s[i] = t[n - m + i]
        PROVE  SubSeq(rs, 1, m) = SubSeq(rt, 1, m)
    <3>1. ASSUME NEW j \in 1..m PROVE rs[j] = rt[j]
      <4>1. (m - j) + 1 \in 1..m /\ n - m + ((m - j) + 1) = (n - j) + 1
        BY <1>1
      <4> DEFINE i == (m - j) + 1
      <4>2. rs[j] = s[i] /\ rt[j] = t[(n - j) + 1]
        BY <1>8, <2>2
      <4>3. i \in 1..m /\ n - m + i = (n - j) + 1
        BY <4>1
      <4> HIDE DEF i
      <4>4. s[i] = t[n - m + i]
        BY <2>2, <4>3
      <4> QED BY <4>2, <4>3, <4>4
    <3> QED BY <1>7, <2>2, <3>1
  <2> QED BY <2>1, <2>2
<1> QED BY <1>6, <1>9

\* What is left of a suffix after its first element is a suffix.
LEMMA TailSuffix ==
  ASSUME NEW S, NEW s \in Seq(S), s # <<>>, NEW t \in Seq(S), IsSuffix(s, t)
  PROVE  IsSuffix(Tail(s), t)
<1>1. /\ Tail(s) \in Seq(S) /\ Len(Tail(s)) = Len(s) - 1 /\ Len(s) \in Nat /\ Len(t) \in Nat
      /\ Len(s) > 0
      /\ \A i \in 1..(Len(s) - 1) : Tail(s)[i] = s[i + 1]
  OBVIOUS
<1>2. /\ Len(s) <= Len(t)
      /\ \A i \in 1..Len(s) : s[i] = t[Len(t) - Len(s) + i]
  BY SuffixIs
<1>3. ASSUME NEW i \in 1..(Len(s) - 1)
      PROVE  Tail(s)[i] = t[Len(t) - (Len(s) - 1) + i]
  <2>1. i + 1 \in 1..Len(s) /\ Len(t) - Len(s) + (i + 1) = Len(t) - (Len(s) - 1) + i
    BY <1>1
  <2> QED BY <1>1, <1>2, <2>1, Zenon
<1>4. Len(Tail(s)) <= Len(t) /\ \A i \in 1..Len(Tail(s)) : Tail(s)[i] = t[Len(t) - Len(Tail(s)) + i]
  BY <1>1, <1>2, <1>3
<1> QED BY <1>1, <1>4, SuffixIs

\* A sequence is a suffix of itself.
LEMMA WholeSuffix ==
  ASSUME NEW S, NEW s \in Seq(S)
  PROVE  IsSuffix(s, s)
<1>1. Len(s) \in Nat /\ \A i \in 1..Len(s) : Len(s) - Len(s) + i = i
  OBVIOUS
<1> QED BY <1>1, SuffixIs

-----------------------------------------------------------------------------
(***************************************************************************)
(* The steps.                                                              *)
(***************************************************************************)
\* The rows owed depend on the tables, the query and its strategy only.
LEMMA RowsAtKept ==
  ASSUME UNCHANGED <<left, right, query, strategy>>
  PROVE  /\ \A w : RowsAt(w)' = RowsAt(w)
         /\ \A side : TableOf(side)' = TableOf(side)
         /\ \A w : Share(w)' = Share(w)
         /\ Local(query)' = Local(query)
<1>1. \A w : RowsAt(w)' = RowsAt(w)
  BY DEF RowsAt
<1>2. \A side : TableOf(side)' = TableOf(side)
  BY DEF TableOf
<1>3. \A w : Share(w)' = Share(w)
  BY DEF Share
<1>4. Local(query)' = Local(query)
  BY DEF Local
<1> QED BY <1>1, <1>2, <1>3, <1>4

\* The tables' rows have ids and keys that can be placed.
LEMMA LoadedRows ==
  ASSUME Loaded
  PROVE  RowsOK(left) /\ RowsOK(right)
BY CoordinatorAssumption DEF Loaded, RowsOK

\* A gathering call returns the worker's partition of that side.
LEMMA SideRows ==
  ASSUME NEW w, NEW side \in {"left", "right"}
  PROVE  CallResult(w, side, Share(w)) = Partition(TableOf(side), w)
<1>1. Share(w)["left"] = Partition(left, w) /\ Share(w)["right"] = Partition(right, w)
  BY DEF Share
<1>2. CallResult(w, side, Share(w)) = Share(w)[side]
  BY DEF CallResult
<1> QED BY <1>1, <1>2 DEF TableOf

\* A plan call returns the rows the worker owes, once all is gathered.
LEMMA PlanRows ==
  ASSUME NEW w, query.func = "none", strategy \in Strategies,
         \A side \in Sides(strategy) : gathered[side] = Spread(TableOf(side))
  PROVE  CallResult(w, "plan", Share(w)) = RowsAt(w)
<1>1. Share(w).left = Partition(left, w) /\ Share(w).right = Partition(right, w)
  BY DEF Share
<1>2. /\ "left" \in Sides(strategy) => gathered.left = Spread(left)
      /\ "right" \in Sides(strategy) => gathered.right = Spread(right)
  BY DEF TableOf
<1>3. \A es : Execute(query, es, ~GroupByCoLocated) = es
  BY DEF Execute
<1>4. CASE strategy = "single"
  BY <1>1, <1>3, <1>4 DEF CallResult, RowsAt
<1>5. CASE strategy = "broadcast_left"
  <2>1. gathered.left = Spread(left)
    BY <1>2, <1>5 DEF Sides
  <2> QED BY <1>1, <1>3, <1>5, <2>1 DEF CallResult, RowsAt
<1>6. CASE strategy = "broadcast_right"
  <2>1. gathered.right = Spread(right)
    BY <1>2, <1>6 DEF Sides
  <2> QED BY <1>1, <1>3, <1>6, <2>1 DEF CallResult, RowsAt
<1>7. CASE strategy = "shuffle"
  <2>1. gathered["left"] = Spread(left) /\ gathered["right"] = Spread(right)
    BY <1>2, <1>7 DEF Sides
  <2> QED BY <1>3, <1>7, <2>1 DEF CallResult, RowsAt, Target
<1> QED BY <1>4, <1>5, <1>6, <1>7 DEF Strategies

\* The calls left after one of them returns.
LEMMA AfterCall ==
  ASSUME todo \in Seq(CallSet), todo # <<>>, todo' = Tail(todo)
  PROVE  /\ todo' \in Seq(CallSet)
         /\ Len(todo) \in Nat /\ Len(todo) > 0 /\ Len(todo') = Len(todo) - 1
         /\ \A i \in 1..Len(todo') : i + 1 \in 1..Len(todo) /\ todo'[i] = todo[i + 1]
         /\ Head(todo) = todo[1] /\ todo[1] \in CallSet /\ 1 \in 1..Len(todo)
         /\ \A c : Among(c, todo) => c = Head(todo) \/ Among(c, todo')
<1>1. /\ todo' \in Seq(CallSet)
      /\ Len(todo) \in Nat /\ Len(todo) > 0 /\ Len(todo') = Len(todo) - 1
      /\ \A i \in 1..Len(todo') : i + 1 \in 1..Len(todo) /\ todo'[i] = todo[i + 1]
      /\ Head(todo) = todo[1] /\ todo[1] \in CallSet /\ 1 \in 1..Len(todo)
  OBVIOUS
<1>2. ASSUME NEW c, Among(c, todo), c # Head(todo)
      PROVE  Among(c, todo')
  <2>1. PICK i \in 1..Len(todo) : todo[i] = c
    BY <1>2 DEF Among
  <2>2. i # 1
    BY <1>1, <1>2, <2>1
  <2> DEFINE j == i - 1
  <2>3. j \in 1..Len(todo') /\ j + 1 = i
    BY <1>1, <2>2
  <2> HIDE DEF j
  <2>4. todo'[j] = c
    BY <1>1, <2>1, <2>3, Zenon
  <2> QED BY <2>3, <2>4, Zenon DEF Among
<1> QED BY <1>1, <1>2

\* A call that returns, from the worker or recovered, takes its effect.
LEMMA ReceiveStep ==
  ASSUME IInv, pc \in {"running", "hung"}, todo # <<>>, Receive(Share(Head(todo)[1]))
  PROVE  IInv'
<1> DEFINE w == Head(todo)[1]
           what == Head(todo)[2]
<1>1. TypeOK /\ Loaded /\ Progress /\ DOMAIN gathered = {"left", "right"}
  BY DEF IInv
<1>2. /\ todo' = Tail(todo) /\ pc' = "running"
      /\ IF what = "plan"
           THEN answers' = [answers EXCEPT ![w] = CallResult(w, what, Share(w))]
                /\ gathered' = gathered
           ELSE gathered' = [gathered EXCEPT ![what] = @ \cup CallResult(w, what, Share(w))]
                /\ answers' = answers
      /\ UNCHANGED <<left, right, loaded, query, strategy, result>>
  BY DEF Receive, tables
<1>3. /\ todo \in Seq(CallSet) /\ strategy \in Strategies /\ strategy # "none"
      /\ GathersFirst(todo)
      /\ \A i \in 1..Len(todo) : todo[i][2] \in Sides(strategy) \cup {"plan"}
  BY <1>1 DEF Progress, Strategies
<1>4. /\ todo' \in Seq(CallSet)
      /\ Len(todo) \in Nat /\ Len(todo) > 0 /\ Len(todo') = Len(todo) - 1
      /\ \A i \in 1..Len(todo') : i + 1 \in 1..Len(todo) /\ todo'[i] = todo[i + 1]
      /\ Head(todo) = todo[1] /\ todo[1] \in CallSet /\ 1 \in 1..Len(todo)
      /\ \A c : Among(c, todo) => c = Head(todo) \/ Among(c, todo')
  BY <1>2, <1>3, AfterCall
<1>5. w \in Workers /\ what \in Sides(strategy) \cup {"plan"} /\ Head(todo) = <<w, what>>
  BY <1>3, <1>4 DEF CallSet
<1>6. Sides(strategy) \subseteq {"left", "right"}
  BY DEF Sides
<1>7. /\ \A v : RowsAt(v)' = RowsAt(v)
      /\ \A side : TableOf(side)' = TableOf(side)
      /\ \A v : Share(v)' = Share(v)
      /\ strategy' = strategy /\ query' = query
  BY <1>2, RowsAtKept
<1> HIDE DEF w, what
<1>8. TypeOK'
  <2>1. Calls(strategy) \in Seq(CallSet)
    BY <1>3, CallsAre DEF CallsOf
  <2>2. IsSuffix(todo', Calls(strategy))
    BY <1>1, <1>2, <1>3, <2>1, TailSuffix DEF TypeOK
  <2>3. DOMAIN answers' = Workers
    BY <1>1, <1>2 DEF TypeOK
  <2>4. Calls(strategy)' = Calls(strategy)
    BY <1>2
  <2> QED BY <1>1, <1>2, <1>3, <2>2, <2>3, <2>4 DEF TypeOK
<1>9. Loaded'
  BY <1>1, <1>2, <1>7 DEF Loaded
<1>10. \A i \in 1..Len(todo') : todo'[i][2] \in Sides(strategy) \cup {"plan"}
  BY <1>3, <1>4
<1>11. GathersFirst(todo')
  <2> SUFFICES ASSUME NEW i \in 1..Len(todo'), NEW j \in 1..Len(todo'), i <= j,
                      todo'[i][2] = "plan"
               PROVE  todo'[j][2] = "plan"
    BY DEF GathersFirst
  <2>1. i + 1 <= j + 1 /\ todo[i + 1][2] = "plan" /\ todo'[j] = todo[j + 1]
    BY <1>4
  <2>2. todo[j + 1][2] = "plan"
    BY <1>3, <1>4, <2>1 DEF GathersFirst
  <2> QED BY <2>1, <2>2
<1>12. CASE what = "plan"
  <2>2. ASSUME NEW side \in Sides(strategy)
        PROVE  Gathered(side)' /\ gathered[side] = Spread(TableOf(side))
    <3>1. \A v : ~Among(<<v, side>>, todo)
      <4> SUFFICES ASSUME NEW v, Among(<<v, side>>, todo) PROVE FALSE
        OBVIOUS
      <4>1. PICK i \in 1..Len(todo) : todo[i] = <<v, side>>
        BY DEF Among
      <4>2. todo[i][2] = "plan"
        BY <1>3, <1>4, <1>5, <1>12 DEF GathersFirst
      <4> QED BY <1>6, <4>1, <4>2
    <3>2. Gathered(side)
      BY <1>1 DEF Progress
    <3>3. RowsOK(TableOf(side))
      BY <1>1, LoadedRows DEF TableOf
    <3>4. Spread(TableOf(side)) \subseteq gathered[side]
      <4>1. \A v \in Workers : Partition(TableOf(side), v) \subseteq gathered[side]
        BY <3>1, <3>2 DEF Gathered
      <4>2. UNION {Partition(TableOf(side), v) : v \in Workers} = Spread(TableOf(side))
        BY <3>3, SpreadIs
      <4> QED BY <4>1, <4>2
    <3>5. gathered[side] = Spread(TableOf(side))
      BY <3>2, <3>4 DEF Gathered
    <3>6. gathered' = gathered
      BY <1>2, <1>12
    <3>7. Gathered(side)'
      <4>1. \A v \in Workers : Partition(TableOf(side), v) \subseteq gathered[side]
        BY <3>1, <3>2 DEF Gathered
      <4> QED BY <1>7, <3>5, <3>6, <4>1 DEF Gathered
    <3> QED BY <3>5, <3>7
  <2>3. ASSUME query.func = "none", NEW v \in Workers
        PROVE  Answered(v)'
    <3>1. answers' = [answers EXCEPT ![w] = CallResult(w, "plan", Share(w))]
      BY <1>2, <1>12
    <3>2. CallResult(w, "plan", Share(w)) = RowsAt(w)
      BY <1>3, <2>2, <2>3, PlanRows
    <3>3. CASE v = w
      <4>1. answers'[v] = RowsAt(v)
        BY <1>1, <1>5, <3>1, <3>2, <3>3 DEF TypeOK
      <4> QED BY <1>7, <4>1 DEF Answered
    <3>4. CASE v # w
      <4>1. answers'[v] = answers[v]
        BY <1>1, <3>1, <3>4 DEF TypeOK
      <4>2. Among(<<v, "plan">>, todo) => Among(<<v, "plan">>, todo')
        BY <1>4, <1>5, <3>4
      <4>3. Answered(v)
        BY <1>1, <2>3 DEF Progress
      <4> QED BY <1>7, <4>1, <4>2, <4>3 DEF Answered
    <3> QED BY <3>3, <3>4
  <2>4. Progress'
    BY <1>1, <1>2, <1>4, <1>7, <1>10, <1>11, <2>2, <2>3 DEF Progress
  <2>5. DOMAIN gathered' = {"left", "right"}
    BY <1>1, <1>2, <1>12
  <2> QED BY <1>2, <1>8, <1>9, <2>4, <2>5 DEF IInv, RowsMatchLocal, Chosen
<1>13. CASE what # "plan"
  <2>1. what \in Sides(strategy) /\ what \in {"left", "right"}
    BY <1>5, <1>6, <1>13
  <2>2. gathered' = [gathered EXCEPT ![what] = @ \cup Partition(TableOf(what), w)]
    BY <1>2, <1>13, <2>1, SideRows
  <2>3. Partition(TableOf(what), w) \subseteq Spread(TableOf(what))
    BY PartitionIs
  <2>4. ASSUME NEW side \in Sides(strategy)
        PROVE  Gathered(side)'
    <3>1. Gathered(side) /\ side \in DOMAIN gathered
      BY <1>1, <1>6 DEF Progress
    <3>2. gathered'[side] = IF side = what THEN gathered[side] \cup Partition(TableOf(side), w)
                                           ELSE gathered[side]
      BY <2>2, <3>1
    <3>3. gathered'[side] \subseteq Spread(TableOf(side))
      BY <2>3, <3>1, <3>2 DEF Gathered
    <3>4. ASSUME NEW v \in Workers, ~Among(<<v, side>>, todo')
          PROVE  Partition(TableOf(side), v) \subseteq gathered'[side]
      <4>1. ~Among(<<v, side>>, todo) \/ (v = w /\ side = what)
        BY <1>4, <1>5, <3>4
      <4> QED BY <3>1, <3>2, <4>1 DEF Gathered
    <3> QED BY <1>7, <3>3, <3>4 DEF Gathered
  <2>5. ASSUME query.func = "none", NEW v \in Workers
        PROVE  Answered(v)'
    <3>1. Answered(v) /\ answers' = answers
      BY <1>1, <1>2, <1>13, <2>5 DEF Progress
    <3>2. Among(<<v, "plan">>, todo) => Among(<<v, "plan">>, todo')
      BY <1>4, <1>5, <1>13
    <3> QED BY <1>7, <3>1, <3>2 DEF Answered
  <2>6. Progress'
    BY <1>1, <1>2, <1>4, <1>7, <1>10, <1>11, <2>4, <2>5 DEF Progress
  <2>7. DOMAIN gathered' = {"left", "right"}
    BY <1>1, <2>2
  <2> QED BY <1>2, <1>8, <1>9, <2>6, <2>7 DEF IInv, RowsMatchLocal, Chosen
<1> QED BY <1>12, <1>13

\* A query that is submitted has made no call yet.
LEMMA SubmitStep ==
  ASSUME IInv, NEW q \in Queries, Submit(q)
  PROVE  IInv'
<1>1. TypeOK /\ Loaded /\ DOMAIN gathered = {"left", "right"}
  BY DEF IInv
<1>2. pc = "idle" /\ q \in QueryType /\ query' = q
  BY CoordinatorAssumption
     DEF Submit, SubmitSingle, SubmitJoin, ShuffleRefused, Fallback, Starts
<1>3. strategy = "none" /\ gathered = [left |-> {}, right |-> {}] /\ todo = <<>>
  BY <1>1, <1>2 DEF IInv, TypeOK
<1>4. UNCHANGED <<left, right, loaded, gathered, answers>>
  BY DEF Submit, SubmitSingle, SubmitJoin, ShuffleRefused, Fallback, Starts, tables
<1>5. Loaded'
  <2>1. \A v : Share(v)' = Share(v)
    BY <1>4 DEF Share
  <2> QED BY <1>1, <1>4, <2>1 DEF Loaded
<1>6. ASSUME NEW s \in Strategies, Starts(q, s), s = "single" <=> q.core = "single",
             s = "shuffle" => q.core = "join" /\ q.condition = "eq"
      PROVE  IInv'
  <2>1. pc' = "running" /\ strategy' = s /\ todo' = Calls(s) /\ s # "none"
    BY <1>6 DEF Starts, Strategies
  <2>2. CallsOf(Calls(s), Sides(s))
    BY CallsAre
  <2>3. IsSuffix(Calls(s), Calls(s))
    BY <2>2, WholeSuffix DEF CallsOf
  <2>4. TypeOK'
    <3>1. Calls(strategy)' = Calls(s)
      BY <2>1
    <3> QED BY <1>1, <1>2, <1>4, <2>1, <2>3, <3>1 DEF TypeOK, Strategies
  <2>5. ASSUME NEW side \in Sides(s)
        PROVE  Gathered(side)'
    <3>1. gathered'[side] = {}
      BY <1>3, <1>4 DEF Sides
    <3>2. \A w \in Workers : Among(<<w, side>>, todo')
      BY <2>1, <2>2 DEF CallsOf
    <3> QED BY <3>1, <3>2 DEF Gathered
  <2>6. ASSUME NEW w \in Workers
        PROVE  Answered(w)'
    <3>1. Among(<<w, "plan">>, todo')
      BY <2>1, <2>2 DEF CallsOf
    <3> QED BY <3>1 DEF Answered
  <2>7. Progress'
    BY <1>2, <1>6, <2>1, <2>2, <2>5, <2>6 DEF Progress, CallsOf
  <2> QED BY <1>1, <1>2, <1>4, <1>5, <1>6, <2>1, <2>4, <2>7 DEF IInv, Chosen, RowsMatchLocal
<1>7. CASE SubmitSingle(q)
  BY <1>6, <1>7 DEF SubmitSingle, Strategies
<1>8. CASE SubmitJoin(q)
  <2>1. PICK l, r \in Estimates : \E s \in JoinStrategies(l, r) :
          (s = "shuffle" => q.condition = "eq") /\ Starts(q, s)
    BY <1>8 DEF SubmitJoin
  <2>2. PICK s \in JoinStrategies(l, r) :
          (s = "shuffle" => q.condition = "eq") /\ Starts(q, s)
    BY <2>1
  <2>3. s \in Strategies /\ s # "single"
    BY DEF JoinStrategies, Strategies
  <2> QED BY <1>6, <1>8, <2>2, <2>3 DEF SubmitJoin
<1>9. CASE ShuffleRefused(q)
  <2>1. pc' = "error" /\ strategy' = "shuffle" /\ todo' = <<>>
    BY <1>3, <1>9 DEF ShuffleRefused
  <2>2. IsSuffix(<<>>, Calls("shuffle"))
    <3>1. Calls("shuffle") \in Seq(CallSet) /\ <<>> \in Seq(CallSet)
      BY CallsAre DEF CallsOf, Strategies
    <3> DEFINE e == <<>>
    <3>2. /\ e \in Seq(CallSet) /\ Len(e) <= Len(Calls("shuffle"))
          /\ \A i \in 1..Len(e) : e[i] = Calls("shuffle")[Len(Calls("shuffle")) - Len(e) + i]
      BY <3>1
    <3> HIDE DEF e
    <3>3. IsSuffix(e, Calls("shuffle"))
      BY <3>1, <3>2, SuffixIs
    <3> QED BY <3>3 DEF e
  <2>3. TypeOK'
    <3>1. Calls(strategy)' = Calls("shuffle")
      BY <2>1
    <3> QED BY <1>1, <1>2, <1>4, <2>1, <2>2, <3>1 DEF TypeOK
  <2> QED BY <1>1, <1>4, <1>5, <2>1, <2>3 DEF IInv, Chosen, RowsMatchLocal
<1>10. CASE Fallback(q)
  <2>1. pc' = "done" /\ strategy' = "none" /\ todo' = <<>> /\ result' = Listing(q, Local(q))
    BY <1>3, <1>10 DEF Fallback
  <2>2. TypeOK'
    BY <1>1, <1>2, <1>4, <2>1 DEF TypeOK
  <2>3. Listing(query, Local(query))' = Listing(q, Local(q))
    BY <1>2, <1>4 DEF Local
  <2> QED BY <1>1, <1>2, <1>4, <1>5, <2>1, <2>2, <2>3 DEF IInv, Chosen, RowsMatchLocal
<1> QED BY <1>7, <1>8, <1>9, <1>10 DEF Submit

\* The merge returns what one node returns.
LEMMA FinishStep ==
  ASSUME IInv, Finish
  PROVE  IInv'
<1>1. /\ TypeOK /\ Loaded /\ Progress /\ Chosen /\ pc = "running" /\ todo = <<>>
      /\ DOMAIN gathered = {"left", "right"}
  BY DEF IInv, Finish
<1>2. /\ pc' = "done"
      /\ UNCHANGED <<left, right, loaded, query, strategy, todo, gathered, answers>>
      /\ query.func = "none" => result' = Concatenation(query)
  BY DEF Finish, tables
<1>3. TypeOK'
  <2>1. Calls(strategy)' = Calls(strategy)
    BY <1>2
  <2> QED BY <1>1, <1>2, <2>1 DEF TypeOK
<1>4. Loaded'
  <2>1. \A v : Share(v)' = Share(v)
    BY <1>2 DEF Share
  <2> QED BY <1>1, <1>2, <2>1 DEF Loaded
<1>5. RowsMatchLocal'
  <2> SUFFICES ASSUME query.func = "none", strategy = "shuffle" => query.kind = "hash"
               PROVE  result' = Listing(query, Local(query))
    <3>1. Listing(query, Local(query))' = Listing(query, Local(query))
      BY <1>2, RowsAtKept
    <3> QED BY <1>2, <3>1 DEF RowsMatchLocal
  <2>1. \A w \in Workers : ~Among(<<w, "plan">>, todo)
    BY <1>1 DEF Among
  <2>2. \A w \in Workers : answers[w] = RowsAt(w)
    BY <1>1, <2>1 DEF Progress, Answered
  <2>3. Concatenation(query) = Listing(query, Local(query))
    BY <1>1, <2>2, LoadedRows, ConcatenationIsLocal DEF TypeOK, Progress, Strategies
  <2> QED BY <1>2, <2>3
<1>6. Chosen'
  BY <1>1, <1>2 DEF Chosen
<1> QED BY <1>1, <1>2, <1>3, <1>4, <1>5, <1>6 DEF IInv

\* Nothing has happened yet.
LEMMA InitIInv == Init => IInv
<1> SUFFICES ASSUME Init PROVE IInv
  OBVIOUS
<1>1. NoQuery \in QueryType
  BY DEF NoQuery, QueryType
<1>2. TypeOK
  BY <1>1 DEF Init, TypeOK
<1>3. DOMAIN gathered = {"left", "right"}
  BY DEF Init
<1> QED BY <1>2, <1>3 DEF Init, IInv, Chosen, Loaded, RowsMatchLocal

\* Every step keeps the invariant.
LEMMA NextIInv == IInv /\ [Next]_vars => IInv'
<1> SUFFICES ASSUME IInv, [Next]_vars PROVE IInv'
  OBVIOUS
<1>1. \A w \in Workers : loaded[w] = Share(w)
  BY DEF IInv, Loaded
<1>2. pc \in {"running", "hung"} /\ todo # <<>> => Head(todo)[1] \in Workers
  BY DEF IInv, Progress, CallSet
<1>3. CASE \E q \in Queries : Submit(q)
  BY <1>3, SubmitStep
<1>4. CASE WorkerAnswers \/ Recover
  BY <1>1, <1>2, <1>4, ReceiveStep DEF WorkerAnswers, Recover
<1>5. CASE WorkerHangs
  <2>1. /\ pc = "running" /\ todo # <<>> /\ pc' = "hung"
        /\ UNCHANGED <<left, right, loaded, query, strategy, todo, gathered, answers, result>>
    BY <1>5 DEF WorkerHangs, tables
  <2>2. /\ \A v : RowsAt(v)' = RowsAt(v)
        /\ \A side : TableOf(side)' = TableOf(side)
        /\ \A v : Share(v)' = Share(v)
        /\ Calls(strategy)' = Calls(strategy)
    BY <2>1, RowsAtKept
  <2>3. TypeOK' /\ Loaded' /\ Chosen'
    BY <2>1, <2>2 DEF IInv, TypeOK, Loaded, Chosen
  <2>4. Progress'
    <3>1. Progress
      BY <2>1 DEF IInv
    <3>2. \A side : Gathered(side)' <=> Gathered(side)
      BY <2>1, <2>2 DEF Gathered
    <3>3. \A w : Answered(w)' <=> Answered(w)
      BY <2>1, <2>2 DEF Answered
    <3> QED BY <2>1, <3>1, <3>2, <3>3 DEF Progress
  <2> QED BY <2>1, <2>3, <2>4 DEF IInv, RowsMatchLocal
<1>6. CASE HangEnds
  <2>1. pc = "hung" /\ todo # <<>>
    BY <1>6 DEF HangEnds, IInv
  <2> QED BY <1>1, <1>2, <1>6, <2>1, ReceiveStep DEF HangEnds
<1>7. CASE Finish
  BY <1>7, FinishStep
<1>8. CASE UNCHANGED vars
  <2>1. UNCHANGED <<left, right, loaded, query, strategy, pc, todo, gathered, answers, result>>
    BY <1>8 DEF vars, tables
  <2>2. /\ \A v : RowsAt(v)' = RowsAt(v)
        /\ \A side : TableOf(side)' = TableOf(side)
        /\ \A v : Share(v)' = Share(v)
        /\ Calls(strategy)' = Calls(strategy)
        /\ Listing(query, Local(query))' = Listing(query, Local(query))
    BY <2>1, RowsAtKept
  <2>3. TypeOK' /\ Loaded' /\ Chosen' /\ RowsMatchLocal'
    BY <2>1, <2>2 DEF IInv, TypeOK, Loaded, Chosen, RowsMatchLocal
  <2>4. Progress' <=> Progress
    <3>1. \A side : Gathered(side)' <=> Gathered(side)
      BY <2>1, <2>2 DEF Gathered
    <3>2. \A w : Answered(w)' <=> Answered(w)
      BY <2>1, <2>2 DEF Answered
    <3> QED BY <2>1, <3>1, <3>2 DEF Progress
  <2> QED BY <2>1, <2>3, <2>4 DEF IInv
<1> QED BY <1>3, <1>4, <1>5, <1>6, <1>7, <1>8 DEF Next

-----------------------------------------------------------------------------
(***************************************************************************)
(* The theorems.                                                           *)
(***************************************************************************)
\* The strengthened invariant holds in every reachable state.
THEOREM CallsTakeEffect == Spec => []IInv
BY InitIInv, NextIInv, PTL DEF Spec

\* The coordinator's variables keep their types, and the calls left are always
\* the end of the strategy's list.
THEOREM TypeCorrect == Spec => []TypeOK
<1>1. IInv => TypeOK
  BY DEF IInv
<1> QED BY <1>1, CallsTakeEffect, PTL

\* Whichever calls fail and are recovered and whichever strategy is picked, a
\* plan without an aggregate returns the rows that one node would, each as
\* often; for a shuffle, when the join is a hash join.
THEOREM RowsCorrect == Spec => []RowsMatchLocal
<1>1. IInv => RowsMatchLocal
  BY DEF IInv
<1> QED BY <1>1, CallsTakeEffect, PTL

\* When every plan returns rows, and every join on equality is a hash join,
\* whatever the coordinator returns is what one node returns.
THEOREM PlainPlansMatchLocal ==
  ASSUME \A q \in Queries :
           q.func = "none" /\ (q.core = "join" /\ q.condition = "eq" => q.kind = "hash")
  PROVE  Spec => []MatchesLocal
<1>1. IInv => MatchesLocal
  <2> SUFFICES ASSUME IInv, pc = "done" PROVE result = Listing(query, Local(query))
    BY DEF MatchesLocal
  <2>1. query.func = "none" /\ (strategy = "shuffle" => query.kind = "hash")
    BY DEF IInv, Chosen
  <2> QED BY <2>1 DEF IInv, RowsMatchLocal
<1> QED BY <1>1, CallsTakeEffect, PTL

=============================================================================
