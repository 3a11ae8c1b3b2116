-------------------------- MODULE MigrationsProofs --------------------------
(* The schema, the rows and the pods of a deployment agree, for any number of
   rollouts of any images, restarts, reverts and registrations.

   The argument runs each migration once. A statement is run on a database
   that has the four tables, for any columns, constraints and rows (At); the
   ups and downs are these statements one after the other, so that After(n, R)
   is followed by After(n + 1, ...) and preceded by After(n - 1, ...), or the
   migration is refused. An upgrade decided on an outdated reading is refused at
   its first statement, which was run before. IInv says that the database is
   After(n, rows) for the n that the table of executed migrations says.     *)
EXTENDS Migrations, InOrderProofs, SequenceTheorems, TLAPS

-----------------------------------------------------------------------------
(* Run and Upgrade are what their recursions say.                           *)

\* The states a run of statements passes through.
LEMMA RunRecursion ==
  ASSUME NEW d, NEW s, Len(s) \in Nat
  PROVE  \E f : /\ f[0] = d
                /\ \A n \in 1 .. Len(s) : f[n] = Execute(f[n - 1], s[n])
                /\ Run(d, s) = f[Len(s)]
  <1> DEFINE m == Len(s)
             Recursive(f, n) ==
               f = [i \in 0 .. n |-> IF i = 0 THEN d ELSE Execute(f[i - 1], s[i])]
             X == {n \in Nat : \E f : Recursive(f, n)}
  <1>1. 0 \in X
    <2>1. Recursive([i \in 0 .. 0 |-> d], 0)
      OBVIOUS
    <2> QED BY <2>1
  <1>2. ASSUME NEW n \in Nat, n \in X PROVE n + 1 \in X
    <2>1. PICK f : Recursive(f, n)
      BY <1>2
    <2>2. PICK g : g = [i \in 0 .. (n + 1) |->
                          IF i = 0 THEN d ELSE Execute(f[i - 1], s[i])]
      OBVIOUS
    <2>3. ASSUME NEW i \in 0 .. n PROVE g[i] = f[i]
      <3>1. i \in 0 .. (n + 1)
        OBVIOUS
      <3>2. g[i] = IF i = 0 THEN d ELSE Execute(f[i - 1], s[i])
        BY <2>2, <3>1
      <3>3. f[i] = IF i = 0 THEN d ELSE Execute(f[i - 1], s[i])
        BY <2>1
      <3> QED BY <3>2, <3>3
    <2>4. \A i \in 0 .. (n + 1) : i # 0 => i - 1 \in 0 .. n
      OBVIOUS
    <2>5. Recursive(g, n + 1)
      BY <2>2, <2>3, <2>4
    <2> HIDE DEF Recursive
    <2> QED BY <2>5
  <1>3. m \in X
    <2> HIDE DEF X
    <2>1. Nat \subseteq X
      BY <1>1, <1>2, Induction
    <2> QED BY <2>1
  <1> DEFINE f == CHOOSE f : Recursive(f, m)
  <1>4. Run(d, s) = f[m]
    BY Zenon DEF Run
  <1>5. Recursive(f, m)
    BY <1>3
  <1> HIDE DEF f
  <1>6. ASSUME NEW n \in 0 .. m PROVE f[n] = IF n = 0 THEN d ELSE Execute(f[n - 1], s[n])
    BY <1>5
  <1>7. f[0] = d /\ \A n \in 1 .. m : f[n] = Execute(f[n - 1], s[n])
    <2>1. 0 \in 0 .. m /\ \A n \in 1 .. m : n \in 0 .. m /\ n # 0
      OBVIOUS
    <2> QED BY <1>6, <2>1
  <1> QED
    BY <1>4, <1>7

\* The states an upgrade passes through.
LEMMA UpgradeRecursion ==
  ASSUME NEW d, NEW m \in Nat, NEW executed
  PROVE  \E f : /\ f[0] = d
                /\ \A n \in 1 .. m :
                     f[n] = IF n \in executed THEN f[n - 1]
                            ELSE Run(f[n - 1], Up[n])
                /\ Upgrade(d, m, executed) = f[m]
  <1> DEFINE Step(e, i) == IF i \in executed THEN e ELSE Run(e, Up[i])
             Recursive(f, n) ==
               f = [i \in 0 .. n |-> IF i = 0 THEN d ELSE Step(f[i - 1], i)]
             X == {n \in Nat : \E f : Recursive(f, n)}
             f == CHOOSE f : Recursive(f, m)
  <1>4. Upgrade(d, m, executed) = f[m]
    BY Zenon DEF Upgrade
  <1> HIDE DEF Step, f
  <1>1. 0 \in X
    <2>1. Recursive([i \in 0 .. 0 |-> d], 0)
      OBVIOUS
    <2> QED BY <2>1
  <1>2. ASSUME NEW n \in Nat, n \in X PROVE n + 1 \in X
    <2>1. PICK e : Recursive(e, n)
      BY <1>2
    <2>2. PICK g : g = [i \in 0 .. (n + 1) |-> IF i = 0 THEN d ELSE Step(e[i - 1], i)]
      OBVIOUS
    <2>3. ASSUME NEW i \in 0 .. n PROVE g[i] = e[i]
      <3>1. i \in 0 .. (n + 1)
        OBVIOUS
      <3>2. g[i] = IF i = 0 THEN d ELSE Step(e[i - 1], i)
        BY <2>2, <3>1
      <3>3. e[i] = IF i = 0 THEN d ELSE Step(e[i - 1], i)
        BY <2>1
      <3> QED BY <3>2, <3>3
    <2>4. \A i \in 0 .. (n + 1) : i # 0 => i - 1 \in 0 .. n
      OBVIOUS
    <2>5. Recursive(g, n + 1)
      BY <2>2, <2>3, <2>4
    <2> HIDE DEF Recursive
    <2> QED BY <2>5
  <1>3. m \in X
    <2> HIDE DEF X
    <2>1. Nat \subseteq X
      BY <1>1, <1>2, Induction
    <2> QED BY <2>1
  <1>5. Recursive(f, m)
    BY <1>3 DEF f
  <1>6. ASSUME NEW n \in 0 .. m PROVE f[n] = IF n = 0 THEN d ELSE Step(f[n - 1], n)
    BY <1>5
  <1>7. f[0] = d /\ \A n \in 1 .. m : f[n] = Step(f[n - 1], n)
    <2>1. 0 \in 0 .. m /\ \A n \in 1 .. m : n \in 0 .. m /\ n # 0
      OBVIOUS
    <2> QED BY <1>6, <2>1
  <1> QED
    BY <1>4, <1>7 DEF Step

\* A statement after a refused one is not run.
LEMMA RefusedStays ==
  ASSUME NEW d, ~d.ok, NEW s, Len(s) \in Nat
  PROVE  ~Run(d, s).ok
  <1>1. PICK f : /\ f[0] = d
                 /\ \A n \in 1 .. Len(s) : f[n] = Execute(f[n - 1], s[n])
                 /\ Run(d, s) = f[Len(s)]
    BY RunRecursion
  <1> DEFINE X == {n \in Nat : n <= Len(s) => ~f[n].ok}
  <1>2. 0 \in X
    BY <1>1
  <1>3. ASSUME NEW n \in Nat, n \in X PROVE n + 1 \in X
    <2>1. SUFFICES ASSUME n + 1 <= Len(s) PROVE ~f[n + 1].ok
      OBVIOUS
    <2>2. ~f[n].ok
      BY <2>1, <1>3
    <2>3. n + 1 \in 1 .. Len(s) /\ (n + 1) - 1 = n
      BY <2>1
    <2>4. f[n + 1] = Execute(f[n], s[n + 1])
      BY <1>1, <2>3
    <2> QED BY <2>2, <2>4 DEF Execute
  <1> HIDE DEF X
  <1>4. Nat \subseteq X
    BY <1>2, <1>3, Induction
  <1> QED BY <1>1, <1>4 DEF X

LEMMA RunOne == ASSUME NEW d, NEW st PROVE Run(d, <<st>>) = Execute(d, st)
  <1>1. Len(<<st>>) = 1 /\ <<st>>[1] = st
    OBVIOUS
  <1>2. PICK f : /\ f[0] = d
                 /\ \A n \in 1 .. Len(<<st>>) : f[n] = Execute(f[n - 1], <<st>>[n])
                 /\ Run(d, <<st>>) = f[Len(<<st>>)]
    BY <1>1, RunRecursion
  <1> QED BY <1>1, <1>2

\* Four statements, one after the other.
InTurn(d, p, q, r, s) == Execute(Execute(Execute(Execute(d, p), q), r), s)

LEMMA RunFour ==
  ASSUME NEW d, NEW p, NEW q, NEW r, NEW s
  PROVE  Run(d, <<p, q, r, s>>) = InTurn(d, p, q, r, s)
  <1>1. PICK v : v = <<p, q, r, s>>
    OBVIOUS
  <1>2. Len(v) = 4 /\ v[1] = p /\ v[2] = q /\ v[3] = r /\ v[4] = s
    BY <1>1
  <1>3. PICK f : /\ f[0] = d
                 /\ \A n \in 1 .. Len(v) : f[n] = Execute(f[n - 1], v[n])
                 /\ Run(d, v) = f[Len(v)]
    <2>1. Len(v) \in Nat
      BY <1>2
    <2> QED BY <2>1, RunRecursion
  <1>4. /\ f[1] = Execute(f[0], p) /\ f[2] = Execute(f[1], q)
        /\ f[3] = Execute(f[2], r) /\ f[4] = Execute(f[3], s)
        /\ Run(d, v) = f[4]
    BY <1>2, <1>3
  <1> QED BY <1>1, <1>3, <1>4 DEF InTurn

LEMMA RunConcat ==
  ASSUME NEW S, NEW s \in Seq(S), NEW t \in Seq(S), NEW d
  PROVE  Run(d, s \o t) = Run(Run(d, s), t)
  <1> DEFINE a == Len(s)
             b == Len(t)
  <1>0. PICK u : u = s \o t
    OBVIOUS
  <1>1. /\ a \in Nat /\ b \in Nat /\ Len(u) = a + b
        /\ \A i \in 1 .. a : u[i] = s[i]
        /\ \A i \in 1 .. b : u[a + i] = t[i]
    BY <1>0
  <1> HIDE DEF a, b
  <1>2. PICK f : /\ f[0] = d
                 /\ \A n \in 1 .. (a + b) : f[n] = Execute(f[n - 1], u[n])
                 /\ Run(d, u) = f[a + b]
    <2>1. Len(u) \in Nat
      BY <1>1
    <2>2. PICK f : /\ f[0] = d
                   /\ \A n \in 1 .. Len(u) : f[n] = Execute(f[n - 1], u[n])
                   /\ Run(d, u) = f[Len(u)]
      BY <2>1, RunRecursion
    <2> QED BY <2>2, <1>1
  <1>3. PICK g : /\ g[0] = d
                 /\ \A n \in 1 .. a : g[n] = Execute(g[n - 1], s[n])
                 /\ Run(d, s) = g[a]
    BY <1>1, RunRecursion DEF a
  <1>4. PICK h : /\ h[0] = Run(d, s)
                 /\ \A n \in 1 .. b : h[n] = Execute(h[n - 1], t[n])
                 /\ Run(Run(d, s), t) = h[b]
    <2>1. PICK e : e = Run(d, s)
      OBVIOUS
    <2> QED BY <2>1, <1>1, RunRecursion DEF b
  <1>5. f[a] = g[a]
    <2> DEFINE X == {n \in Nat : n <= a => f[n] = g[n]}
    <2>1. 0 \in X
      BY <1>2, <1>3
    <2>2. ASSUME NEW n \in Nat, n \in X PROVE n + 1 \in X
      <3>1. SUFFICES ASSUME n + 1 <= a PROVE f[n + 1] = g[n + 1]
        OBVIOUS
      <3>2. /\ f[n] = g[n] /\ (n + 1) - 1 = n
            /\ n + 1 \in 1 .. a /\ n + 1 \in 1 .. (a + b)
        BY <3>1, <2>2, <1>1
      <3> QED BY <3>2, <1>1, <1>2, <1>3
    <2> HIDE DEF X
    <2>3. Nat \subseteq X
      BY <2>1, <2>2, Induction
    <2> QED BY <2>3, <1>1 DEF X
  <1>6. f[a + b] = h[b]
    <2> DEFINE X == {n \in Nat : n <= b => f[a + n] = h[n]}
    <2>1. 0 \in X
      BY <1>1, <1>3, <1>4, <1>5
    <2>2. ASSUME NEW n \in Nat, n \in X PROVE n + 1 \in X
      <3>1. SUFFICES ASSUME n + 1 <= b PROVE f[a + (n + 1)] = h[n + 1]
        OBVIOUS
      <3>2. /\ f[a + n] = h[n] /\ (n + 1) - 1 = n /\ (a + (n + 1)) - 1 = a + n
            /\ n + 1 \in 1 .. b /\ a + (n + 1) \in 1 .. (a + b)
        BY <3>1, <2>2, <1>1
      <3>3. f[a + (n + 1)] = Execute(f[a + n], u[a + (n + 1)])
        BY <3>2, <1>2
      <3>4. h[n + 1] = Execute(h[n], t[n + 1]) /\ u[a + (n + 1)] = t[n + 1]
        BY <3>2, <1>1, <1>4
      <3> QED BY <3>2, <3>3, <3>4
    <2> HIDE DEF X
    <2>3. Nat \subseteq X
      BY <2>1, <2>2, Induction
    <2> QED BY <2>3, <1>1 DEF X
  <1> QED BY <1>0, <1>2, <1>4, <1>6

\* A statement, four, four more, and another: removePublic, up or down.
Ten(a, p, q, r, s, w, x, y, z, b) == <<a>> \o <<p, q, r, s>> \o <<w, x, y, z>> \o <<b>>
TenInTurn(d, a, p, q, r, s, w, x, y, z, b) ==
  Execute(InTurn(InTurn(Execute(d, a), p, q, r, s), w, x, y, z), b)

LEMMA RunTen ==
  ASSUME NEW d, NEW a, NEW b, NEW p, NEW q, NEW r, NEW s,
         NEW w, NEW x, NEW y, NEW z
  PROVE  Run(d, Ten(a, p, q, r, s, w, x, y, z, b)) = TenInTurn(d, a, p, q, r, s, w, x, y, z, b)
  <1> DEFINE S == {a, b, p, q, r, s, w, x, y, z}
  <1>1. /\ <<a>> \in Seq(S) /\ <<b>> \in Seq(S)
        /\ <<p, q, r, s>> \in Seq(S) /\ <<w, x, y, z>> \in Seq(S)
    OBVIOUS
  <1> HIDE DEF S
  <1>2. PICK A, P, W, B : A = <<a>> /\ P = <<p, q, r, s>> /\ W = <<w, x, y, z>> /\ B = <<b>>
    OBVIOUS
  <1>3. A \in Seq(S) /\ P \in Seq(S) /\ W \in Seq(S) /\ B \in Seq(S)
    BY <1>1, <1>2
  <1>4. A \o P \in Seq(S) /\ A \o P \o W \in Seq(S)
    BY <1>3
  <1>5. Run(d, A \o P \o W \o B) = Run(Run(d, A \o P \o W), B)
    BY <1>3, <1>4, RunConcat
  <1>6. Run(d, A \o P \o W) = Run(Run(d, A \o P), W)
    BY <1>3, <1>4, RunConcat
  <1>7. Run(d, A \o P) = Run(Run(d, A), P)
    BY <1>3, <1>4, RunConcat
  <1> QED BY <1>2, <1>5, <1>6, <1>7, RunOne, RunFour DEF Ten, TenInTurn

-----------------------------------------------------------------------------
(* What a statement does to a database that has the four tables.            *)

Database(tables, rows) == [tables |-> tables, rows |-> rows, ok |-> TRUE]

TablesWith(account) ==
  [t \in {"account", "challenge", "notification_entity", "whitelist_entity"} |->
     CASE t = "account" -> account
       [] t = "challenge" -> [columns |-> Columns({"id"}, {}), uniques |-> NoConstraints]
       [] t = "notification_entity" ->
            [columns |-> With(Columns({"id"}, {"accountId", "recipient", "title",
                                               "body", "payload", "senderPublicKey"}),
                              "usingAccessToken", Flag),
             uniques |-> NoConstraints]
       [] OTHER ->
            [columns |-> With(Columns({"id"}, {"publicKey"}), "isActive", Flag),
             uniques |-> NoConstraints]]

\* The database whose table account has these columns and constraints.
At(columns, uniques, rows) ==
  Database(TablesWith([columns |-> columns, uniques |-> uniques]), rows)

\* What the database is, as its account goes.
HasAccount(d, columns, uniques, rows) ==
  /\ d.ok = TRUE /\ d.rows = rows /\ "account" \in DOMAIN d.tables
  /\ d.tables["account"].columns = columns
  /\ d.tables["account"].uniques = uniques

LEMMA AccountOf == ASSUME NEW c, NEW u, NEW R PROVE HasAccount(At(c, u, R), c, u, R)
  BY DEF At, Database, TablesWith, HasAccount

\* ALTER TABLE "account" leaves the other tables as they are.
LEMMA Altering ==
  ASSUME NEW c, NEW u, NEW R, NEW e, NEW v, NEW Q
  PROVE  [tables |-> [At(c, u, R).tables EXCEPT !["account"] = [columns |-> e, uniques |-> v]],
          rows |-> Q, ok |-> TRUE] = At(e, v, Q)
  <1> DEFINE a == [columns |-> c, uniques |-> u]
             b == [columns |-> e, uniques |-> v]
  <1>1. At(c, u, R).tables = TablesWith(a)
    BY DEF At, Database
  <1> HIDE DEF a, b
  <1>2. [TablesWith(a) EXCEPT !["account"] = b] = TablesWith(b)
    BY DEF TablesWith
  <1> QED BY <1>1, <1>2 DEF At, Database, b

LEMMA AddColumnOn ==
  ASSUME NEW c, NEW u, NEW R, NEW name, NEW column,
         name \notin DOMAIN c, column.default = "none" => R = {}
  PROVE  Execute(At(c, u, R), AddColumn(name, column))
           = At(With(c, name, column), u, {With(r, name, Backfill(r, column)) : r \in R})
  <1> DEFINE d == At(c, u, R)
             st == AddColumn(name, column)
  <1>1. st.kind = "add column" /\ st.name = name /\ st.column = column
    BY DEF AddColumn
  <1>2. HasAccount(d, c, u, R)
    BY AccountOf
  <1> HIDE DEF d, st
  <1>3. Admissible(d, st)
    BY <1>1, <1>2 DEF Admissible, HasAccount
  <1>4. Execute(d, st) = Effect(d, st)
    BY <1>2, <1>3 DEF Execute, HasAccount
  <1>5. PICK Q : Q = {With(r, name, Backfill(r, column)) : r \in R}
    OBVIOUS
  <1>6. Effect(d, st) =
          [tables |-> [d.tables EXCEPT !["account"] = [columns |-> With(c, name, column), uniques |-> u]],
           rows |-> Q, ok |-> TRUE]
    BY <1>1, <1>2, <1>5 DEF Effect, HasAccount
  <1>7. Effect(d, st) = At(With(c, name, column), u, Q)
    BY <1>6, Altering DEF d
  <1> QED BY <1>4, <1>5, <1>7 DEF d, st

LEMMA AddColumnRefused ==
  ASSUME NEW c, NEW u, NEW R, NEW name, NEW column,
         name \in DOMAIN c \/ (column.default = "none" /\ R # {})
  PROVE  ~Execute(At(c, u, R), AddColumn(name, column)).ok
  <1> DEFINE d == At(c, u, R)
             st == AddColumn(name, column)
  <1>1. st.kind = "add column" /\ st.name = name /\ st.column = column
    BY DEF AddColumn
  <1>2. HasAccount(d, c, u, R)
    BY AccountOf
  <1> HIDE DEF d, st
  <1>3. ~Admissible(d, st)
    BY <1>1, <1>2 DEF Admissible, HasAccount
  <1> QED BY <1>3 DEF Execute, d, st

LEMMA DropColumnOn ==
  ASSUME NEW c, NEW u, NEW R, NEW name, name \in DOMAIN c
  PROVE  Execute(At(c, u, R), DropColumn(name))
           = At(Without(c, name), Restrict(u, {v \in DOMAIN u : name \notin u[v]}),
                {Without(r, name) : r \in R})
  <1> DEFINE d == At(c, u, R)
             st == DropColumn(name)
  <1>1. st.kind = "drop column" /\ st.name = name
    BY DEF DropColumn
  <1>2. HasAccount(d, c, u, R)
    BY AccountOf
  <1> HIDE DEF d, st
  <1>3. Admissible(d, st)
    BY <1>1, <1>2 DEF Admissible, HasAccount
  <1>4. Execute(d, st) = Effect(d, st)
    BY <1>2, <1>3 DEF Execute, HasAccount
  <1>5. PICK Q, v : /\ Q = {Without(r, name) : r \in R}
                    /\ v = Restrict(u, {w \in DOMAIN u : name \notin u[w]})
    OBVIOUS
  <1>6. Effect(d, st) =
          [tables |-> [d.tables EXCEPT !["account"] = [columns |-> Without(c, name), uniques |-> v]],
           rows |-> Q, ok |-> TRUE]
    BY <1>1, <1>2, <1>5 DEF Effect, HasAccount
  <1>7. Effect(d, st) = At(Without(c, name), v, Q)
    BY <1>6, Altering DEF d
  <1> QED BY <1>4, <1>5, <1>7 DEF d, st

LEMMA AddUniqueOn ==
  ASSUME NEW c, NEW u, NEW R, NEW name, NEW columns, name \notin DOMAIN u,
         columns \subseteq DOMAIN c, Unique(R, columns)
  PROVE  Execute(At(c, u, R), AddUnique(name, columns)) = At(c, With(u, name, columns), R)
  <1> DEFINE d == At(c, u, R)
             st == AddUnique(name, columns)
  <1>1. st.kind = "add unique" /\ st.name = name /\ st.columns = columns
    BY DEF AddUnique
  <1>2. HasAccount(d, c, u, R)
    BY AccountOf
  <1> HIDE DEF d, st
  <1>3. Admissible(d, st)
    BY <1>1, <1>2 DEF Admissible, HasAccount
  <1>4. Execute(d, st) = Effect(d, st)
    BY <1>2, <1>3 DEF Execute, HasAccount
  <1>5. Effect(d, st) =
          [tables |-> [d.tables EXCEPT !["account"] =
             [columns |-> c, uniques |-> With(u, name, columns)]],
           rows |-> R, ok |-> TRUE]
    BY <1>1, <1>2 DEF Effect, HasAccount
  <1> QED BY <1>4, <1>5, Altering DEF d, st

LEMMA AddUniqueRefused ==
  ASSUME NEW c, NEW u, NEW R, NEW name, NEW columns, ~Unique(R, columns)
  PROVE  ~Execute(At(c, u, R), AddUnique(name, columns)).ok
  <1> DEFINE d == At(c, u, R)
             st == AddUnique(name, columns)
  <1>1. st.kind = "add unique" /\ st.columns = columns
    BY DEF AddUnique
  <1>2. HasAccount(d, c, u, R)
    BY AccountOf
  <1> HIDE DEF d, st
  <1>3. ~Admissible(d, st)
    BY <1>1, <1>2 DEF Admissible, HasAccount
  <1> QED BY <1>3 DEF Execute, d, st

LEMMA DropUniqueOn ==
  ASSUME NEW c, NEW u, NEW R, NEW name, name \in DOMAIN u
  PROVE  Execute(At(c, u, R), DropUnique(name)) = At(c, Without(u, name), R)
  <1> DEFINE d == At(c, u, R)
             st == DropUnique(name)
  <1>1. st.kind = "drop unique" /\ st.name = name
    BY DEF DropUnique
  <1>2. HasAccount(d, c, u, R)
    BY AccountOf
  <1> HIDE DEF d, st
  <1>3. Admissible(d, st)
    BY <1>1, <1>2 DEF Admissible, HasAccount
  <1>4. Execute(d, st) = Effect(d, st)
    BY <1>2, <1>3 DEF Execute, HasAccount
  <1>5. Effect(d, st) =
          [tables |-> [d.tables EXCEPT !["account"] =
             [columns |-> c, uniques |-> Without(u, name)]],
           rows |-> R, ok |-> TRUE]
    BY <1>1, <1>2 DEF Effect, HasAccount
  <1> QED BY <1>4, <1>5, Altering DEF d, st

LEMMA DropUniqueRefused ==
  ASSUME NEW c, NEW u, NEW R, NEW name, name \notin DOMAIN u
  PROVE  ~Execute(At(c, u, R), DropUnique(name)).ok
  <1> DEFINE d == At(c, u, R)
             st == DropUnique(name)
  <1>1. st.kind = "drop unique" /\ st.name = name
    BY DEF DropUnique
  <1>2. HasAccount(d, c, u, R)
    BY AccountOf
  <1> HIDE DEF d, st
  <1>3. ~Admissible(d, st)
    BY <1>1, <1>2 DEF Admissible, HasAccount
  <1> QED BY <1>3 DEF Execute, d, st

LEMMA RefusedOnce ==
  ASSUME NEW d, NEW st, ~d.ok
  PROVE  ~Execute(d, st).ok
  BY DEF Execute

-----------------------------------------------------------------------------
(* Retype, with and without rows.                                           *)

Retyped(c, token, column) ==
  [x \in DOMAIN c |-> IF x = token THEN column ELSE c[x]]

\* One constraint is about a column, the one of this name, and about no other.
Guards(u, unique, token) ==
  /\ u = [x \in DOMAIN u |-> u[x]]
  /\ unique \in DOMAIN u /\ u[unique] = {token}
  /\ \A x \in DOMAIN u : x # unique => token \notin u[x]

\* The column is of the other kind, everything else is as it was.
LEMMA RetypeOn ==
  ASSUME NEW c, NEW u, NEW token, NEW unique, NEW column,
         token \in DOMAIN c, Guards(u, unique, token)
  PROVE  InTurn(At(c, u, {}), DropUnique(unique), DropColumn(token),
                AddColumn(token, column), AddUnique(unique, {token}))
           = At(Retyped(c, token, column), u, {})
  <1> DEFINE d1 == Execute(At(c, u, {}), DropUnique(unique))
             d2 == Execute(d1, DropColumn(token))
             d3 == Execute(d2, AddColumn(token, column))
             d4 == Execute(d3, AddUnique(unique, {token}))
  <1>1. PICK v, e, f : /\ v = Without(u, unique) /\ e = Without(c, token)
                       /\ f = With(e, token, column)
    OBVIOUS
  <1>2. d1 = At(c, v, {})
    BY <1>1, DropUniqueOn DEF Guards
  <1>3. d2 = At(e, v, {})
    <2>1. d2 = At(e, Restrict(v, {x \in DOMAIN v : token \notin v[x]}), {Without(r, token) : r \in {}})
      BY <1>1, <1>2, DropColumnOn
    <2>2. {Without(r, token) : r \in {}} = {}
      OBVIOUS
    <2>3. Restrict(v, {x \in DOMAIN v : token \notin v[x]}) = v
      <3>1. {x \in DOMAIN v : token \notin v[x]} = DOMAIN u \ {unique}
        BY <1>1 DEF Without, Restrict, Guards
      <3> QED BY <3>1, <1>1 DEF Without, Restrict
    <2> QED BY <2>1, <2>2, <2>3
  <1>4. d3 = At(f, v, {})
    <2>1. token \notin DOMAIN e
      BY <1>1 DEF Without, Restrict
    <2>2. d3 = At(f, v, {With(r, token, Backfill(r, column)) : r \in {}})
      <3> HIDE DEF d2
      <3> QED BY <1>1, <1>3, <2>1, AddColumnOn
    <2>3. {With(r, token, Backfill(r, column)) : r \in {}} = {}
      OBVIOUS
    <2> QED BY <2>2, <2>3
  <1>5. d4 = At(f, With(v, unique, {token}), {})
    <2>1. unique \notin DOMAIN v /\ {token} \subseteq DOMAIN f
      BY <1>1 DEF With, Without, Restrict
    <2>2. Unique({}, {token})
      BY DEF Unique
    <2> HIDE DEF d3
    <2> QED BY <1>4, <2>1, <2>2, AddUniqueOn
  <1>6. With(v, unique, {token}) = u
    BY <1>1 DEF With, Without, Restrict, Guards
  <1>7. f = Retyped(c, token, column)
    BY <1>1 DEF With, Without, Restrict, Retyped
  <1> QED BY <1>5, <1>6, <1>7 DEF InTurn

\* With rows, a column for which they have no value is refused.
LEMMA RetypeRefused ==
  ASSUME NEW c, NEW u, NEW R, R # {}, NEW token, NEW unique, NEW column,
         column.default = "none", token \in DOMAIN c, unique \in DOMAIN u
  PROVE  ~InTurn(At(c, u, R), DropUnique(unique), DropColumn(token),
                 AddColumn(token, column), AddUnique(unique, {token})).ok
  <1> DEFINE d1 == Execute(At(c, u, R), DropUnique(unique))
             d2 == Execute(d1, DropColumn(token))
             d3 == Execute(d2, AddColumn(token, column))
  <1>1. d1 = At(c, Without(u, unique), R)
    BY DropUniqueOn
  <1>2. PICK v, Q : d2 = At(Without(c, token), v, Q) /\ Q # {}
    <2>1. PICK w : w = Without(u, unique)
      OBVIOUS
    <2>2. d2 = At(Without(c, token), Restrict(w, {x \in DOMAIN w : token \notin w[x]}),
                  {Without(r, token) : r \in R})
      <3> HIDE DEF d1
      <3> QED BY <1>1, <2>1, DropColumnOn
    <2>3. {Without(r, token) : r \in R} # {}
      OBVIOUS
    <2> QED BY <2>2, <2>3
  <1>3. ~d3.ok
    <2> HIDE DEF d2
    <2> QED BY <1>2, AddColumnRefused
  <1>4. ~Execute(d3, AddUnique(unique, {token})).ok
    <2> HIDE DEF d3
    <2> QED BY <1>3, RefusedOnce
  <1> QED BY <1>4 DEF InTurn

LEMMA InTurnRefused ==
  ASSUME NEW d, ~d.ok, NEW p, NEW q, NEW r, NEW s
  PROVE  ~InTurn(d, p, q, r, s).ok
  BY RefusedOnce DEF InTurn

-----------------------------------------------------------------------------
(* The schema after the first migrations, written out.                      *)

FirstColumns ==
  Columns({"id"},
          {"name", "challenge", "address", "accountPublicKey",
           "backendUrl", "signature", "accessToken", "managementToken"})
SecondColumns == With(FirstColumns, "protocolIdentifier", Column("varchar", "xtz"))
LastColumns ==
  With(Columns({"id", "accessToken", "managementToken"},
               {"name", "challenge", "address", "accountPublicKey",
                "backendUrl", "signature", "deviceId"}),
       "protocolIdentifier", Column("varchar", "xtz"))
DeviceUniques == With(InitialUniques, DeviceUnique, {"deviceId", "address"})

ColumnsAt(n) ==
  IF n = 1 THEN FirstColumns ELSE IF n = 2 THEN SecondColumns ELSE LastColumns
UniquesAt(n) == IF n = 3 THEN DeviceUniques ELSE InitialUniques

NoTables == [t \in {} |-> {}]

\* The database after n migrations, with these rows.
After(n, R) ==
  IF n = 0 THEN Database(NoTables, {}) ELSE At(ColumnsAt(n), UniquesAt(n), R)

LEMMA AfterIs ==
  ASSUME NEW n, NEW R
  PROVE  After(n, R).ok = TRUE /\ (n # 0 => After(n, R).rows = R) /\ (n = 0 => After(n, R).rows = {})
  BY DEF After, At, Database

LEMMA FourMigrations ==
  /\ Len(Up) = 4 /\ Migration = 1 .. 4
  /\ Up[1] = InitialMigrationUp /\ Up[2] = ProtocolIdentifierUp
  /\ Up[3] = RemovePublicUp /\ Up[4] = AdjustAccountUp
  /\ Down[1] = InitialMigrationDown /\ Down[2] = ProtocolIdentifierDown
  /\ Down[3] = RemovePublicDown /\ Down[4] = AdjustAccountDown
  <1>1. Len(Up) = 4
    BY DEF Up
  <1>2. Migration = 1 .. 4
    BY <1>1 DEF Migration
  <1> QED BY <1>1, <1>2 DEF Up, Down

\* Names of constraints are four names.
LEMMA Names ==
  /\ AccessTokenUnique # ManagementTokenUnique /\ AccessTokenUnique # BackendUnique
  /\ AccessTokenUnique # DeviceUnique /\ ManagementTokenUnique # BackendUnique
  /\ ManagementTokenUnique # DeviceUnique /\ BackendUnique # DeviceUnique
  BY DEF AccessTokenUnique, ManagementTokenUnique, BackendUnique, DeviceUnique

LEMMA InitialUniquesAre ==
  /\ DOMAIN InitialUniques = {AccessTokenUnique, ManagementTokenUnique, BackendUnique}
  /\ InitialUniques[AccessTokenUnique] = {"accessToken"}
  /\ InitialUniques[ManagementTokenUnique] = {"managementToken"}
  /\ InitialUniques[BackendUnique] = {"accountPublicKey", "backendUrl"}
  /\ InitialUniques = [x \in DOMAIN InitialUniques |-> InitialUniques[x]]
  /\ DeviceUnique \notin DOMAIN InitialUniques
  BY Names DEF InitialUniques

LEMMA DeviceUniquesAre ==
  /\ DOMAIN DeviceUniques = {AccessTokenUnique, ManagementTokenUnique, BackendUnique, DeviceUnique}
  /\ DeviceUniques[AccessTokenUnique] = {"accessToken"}
  /\ DeviceUniques[ManagementTokenUnique] = {"managementToken"}
  /\ DeviceUniques[BackendUnique] = {"accountPublicKey", "backendUrl"}
  /\ DeviceUniques[DeviceUnique] = {"deviceId", "address"}
  /\ DeviceUniques = [x \in DOMAIN DeviceUniques |-> DeviceUniques[x]]
  BY InitialUniquesAre DEF DeviceUniques, With

LEMMA TokensGuarded ==
  /\ Guards(InitialUniques, AccessTokenUnique, "accessToken")
  /\ Guards(InitialUniques, ManagementTokenUnique, "managementToken")
  BY InitialUniquesAre, Names DEF Guards

LEMMA ColumnNames ==
  /\ DOMAIN FirstColumns = {"id", "name", "challenge", "address", "accountPublicKey", "backendUrl",
                            "signature", "accessToken", "managementToken", "created_at"}
  /\ DOMAIN SecondColumns = DOMAIN FirstColumns \union {"protocolIdentifier"}
  /\ DOMAIN LastColumns = DOMAIN SecondColumns \union {"deviceId"}
  /\ LastColumns = AccountEntity.columns
  <1>1. DOMAIN FirstColumns = {"id", "name", "challenge", "address", "accountPublicKey", "backendUrl",
                               "signature", "accessToken", "managementToken", "created_at"}
    BY DEF FirstColumns, Columns
  <1>2. DOMAIN SecondColumns = DOMAIN FirstColumns \union {"protocolIdentifier"}
    BY DEF SecondColumns, With
  <1>3. DOMAIN LastColumns = DOMAIN SecondColumns \union {"deviceId"}
    BY <1>1, <1>2 DEF LastColumns, Columns, With
  <1>4. LastColumns = AccountEntity.columns
    BY DEF LastColumns, AccountEntity
  <1> QED BY <1>1, <1>2, <1>3, <1>4

-----------------------------------------------------------------------------
(* CREATE TABLE and DROP TABLE.                                             *)

LEMMA CreateTableOn ==
  ASSUME NEW T, NEW R, NEW table, table \notin DOMAIN T, NEW c, NEW u
  PROVE  Execute(Database(T, R), CreateTable(table, c, u))
           = Database(With(T, table, [columns |-> c, uniques |-> u]), R)
  <1> DEFINE d == Database(T, R)
             st == CreateTable(table, c, u)
  <1>1. st.kind = "create table" /\ st.table = table /\ st.columns = c /\ st.uniques = u
    BY DEF CreateTable
  <1>2. d.tables = T /\ d.rows = R /\ d.ok = TRUE
    BY DEF Database
  <1> HIDE DEF d, st
  <1>3. Admissible(d, st)
    BY <1>1, <1>2 DEF Admissible
  <1>4. Execute(d, st) = Effect(d, st)
    BY <1>2, <1>3 DEF Execute
  <1>5. Effect(d, st) = Database(With(T, table, [columns |-> c, uniques |-> u]), R)
    BY <1>1, <1>2 DEF Effect, Database
  <1> QED BY <1>4, <1>5 DEF d, st

LEMMA DropTableOn ==
  ASSUME NEW T, NEW R, NEW table, table \in DOMAIN T
  PROVE  Execute(Database(T, R), DropTable(table))
           = Database(Without(T, table), IF table = "account" THEN {} ELSE R)
  <1> DEFINE d == Database(T, R)
             st == DropTable(table)
  <1>1. st.kind = "drop table" /\ st.table = table
    BY DEF DropTable
  <1>2. d.tables = T /\ d.rows = R /\ d.ok = TRUE
    BY DEF Database
  <1> HIDE DEF d, st
  <1>3. Admissible(d, st)
    BY <1>1, <1>2 DEF Admissible
  <1>4. Execute(d, st) = Effect(d, st)
    BY <1>2, <1>3 DEF Execute
  <1>5. Effect(d, st) = Database(Without(T, table), IF table = "account" THEN {} ELSE R)
    BY <1>1, <1>2 DEF Effect, Database
  <1> QED BY <1>4, <1>5 DEF d, st

LEMMA CreateTableRefused ==
  ASSUME NEW c, NEW u, NEW R, NEW e, NEW v
  PROVE  ~Execute(At(c, u, R), CreateTable("account", e, v)).ok
  <1> DEFINE d == At(c, u, R)
             st == CreateTable("account", e, v)
  <1>1. st.kind = "create table" /\ st.table = "account"
    BY DEF CreateTable
  <1>2. HasAccount(d, c, u, R)
    BY AccountOf
  <1> HIDE DEF d, st
  <1>3. ~Admissible(d, st)
    BY <1>1, <1>2 DEF Admissible, HasAccount
  <1> QED BY <1>3 DEF Execute, d, st

-----------------------------------------------------------------------------
(* Each migration on the schema it follows. The rows are those there were,
   or the statements are refused.                                           *)

LEMMA InitialMigrationRuns == Run(After(0, {}), Up[1]) = After(1, {})
  <1> DEFINE challenge == Columns({"id"}, {})
             notification == With(Columns({"id"}, {"accountId", "recipient", "title", "body",
                                                   "payload", "senderPublicKey"}),
                                  "usingAccessToken", Flag)
             whitelist == With(Columns({"id"}, {"publicKey"}), "isActive", Flag)
             table(c, u) == [columns |-> c, uniques |-> u]
             d1 == Execute(Database(NoTables, {}), CreateTable("account", FirstColumns, InitialUniques))
             d2 == Execute(d1, CreateTable("challenge", challenge, NoConstraints))
             d3 == Execute(d2, CreateTable("notification_entity", notification, NoConstraints))
             d4 == Execute(d3, CreateTable("whitelist_entity", whitelist, NoConstraints))
  <1>1. Run(After(0, {}), Up[1]) = d4
    <2>1. PICK d : d = After(0, {})
      OBVIOUS
    <2>2. Run(d, Up[1]) =
            InTurn(d, CreateTable("account", FirstColumns, InitialUniques),
                   CreateTable("challenge", challenge, NoConstraints),
                   CreateTable("notification_entity", notification, NoConstraints),
                   CreateTable("whitelist_entity", whitelist, NoConstraints))
      BY RunFour, FourMigrations, Zenon DEF InitialMigrationUp, FirstColumns
    <2>3. d = Database(NoTables, {})
      BY <2>1 DEF After
    <2> QED BY <2>1, <2>2, <2>3 DEF InTurn
  <1> DEFINE T1 == With(NoTables, "account", table(FirstColumns, InitialUniques))
             T2 == With(T1, "challenge", table(challenge, NoConstraints))
             T3 == With(T2, "notification_entity", table(notification, NoConstraints))
             T4 == With(T3, "whitelist_entity", table(whitelist, NoConstraints))
  <1>2. /\ DOMAIN NoTables = {}
        /\ DOMAIN T1 = {"account"}
        /\ DOMAIN T2 = {"account", "challenge"}
        /\ DOMAIN T3 = {"account", "challenge", "notification_entity"}
    BY DEF NoTables, With
  <1>3. T4 = TablesWith(table(FirstColumns, InitialUniques))
    BY DEF NoTables, With, TablesWith
  <1> HIDE DEF T1, T2, T3, T4, challenge, notification, whitelist
  <1>4. d1 = Database(T1, {})
    <2>1. "account" \notin DOMAIN NoTables
      BY <1>2
    <2> QED BY <2>1, CreateTableOn DEF T1
  <1> HIDE DEF d1
  <1>5. d2 = Database(T2, {})
    BY <1>2, <1>4, CreateTableOn DEF T2
  <1> HIDE DEF d2
  <1>6. d3 = Database(T3, {})
    BY <1>2, <1>5, CreateTableOn DEF T3
  <1> HIDE DEF d3
  <1>7. d4 = Database(T4, {})
    <2>1. "whitelist_entity" \notin DOMAIN T3
      BY <1>2
    <2> QED BY <2>1, <1>6, CreateTableOn DEF T4
  <1> HIDE DEF d4
  <1> QED BY <1>1, <1>3, <1>7 DEF After, At, ColumnsAt, UniquesAt

\* A row with the protocol every earlier registration is given.
WithProtocol(r) == With(r, "protocolIdentifier", "xtz")

LEMMA ProtocolIdentifierRuns ==
  ASSUME NEW R
  PROVE  Run(After(1, R), Up[2]) = After(2, {WithProtocol(r) : r \in R})
  <1> DEFINE column == Column("varchar", "xtz")
             st == AddColumn("protocolIdentifier", column)
  <1>1. Up[2] = <<st>>
    BY FourMigrations DEF ProtocolIdentifierUp
  <1>2. After(1, R) = At(FirstColumns, InitialUniques, R)
    BY DEF After, ColumnsAt, UniquesAt
  <1>3. column.default = "xtz"
    BY DEF Column
  <1>4. \A r \in R : With(r, "protocolIdentifier", Backfill(r, column)) = WithProtocol(r)
    BY <1>3 DEF Backfill, WithProtocol
  <1>5. {With(r, "protocolIdentifier", Backfill(r, column)) : r \in R} = {WithProtocol(r) : r \in R}
    BY <1>4
  <1>6. "protocolIdentifier" \notin DOMAIN FirstColumns
    BY ColumnNames
  <1>7. SecondColumns = With(FirstColumns, "protocolIdentifier", column)
    BY DEF SecondColumns
  <1> HIDE DEF column
  <1>8. Execute(At(FirstColumns, InitialUniques, R), st)
          = At(SecondColumns, InitialUniques,
               {With(r, "protocolIdentifier", Backfill(r, column)) : r \in R})
    <2>1. column.default = "none" => R = {}
      BY <1>3
    <2>2. Execute(At(FirstColumns, InitialUniques, R), st)
            = At(With(FirstColumns, "protocolIdentifier", column), InitialUniques,
                 {With(r, "protocolIdentifier", Backfill(r, column)) : r \in R})
      BY <2>1, <1>6, AddColumnOn
    <2> QED BY <2>2, <1>7
  <1> HIDE DEF st
  <1>9. Run(At(FirstColumns, InitialUniques, R), <<st>>)
          = Execute(At(FirstColumns, InitialUniques, R), st)
    BY RunOne
  <1>10. PICK Q : Q = {WithProtocol(r) : r \in R}
    OBVIOUS
  <1>11. Run(After(1, R), Up[2]) = At(SecondColumns, InitialUniques, Q)
    <2> HIDE DEF WithProtocol
    <2> QED BY <1>1, <1>2, <1>5, <1>8, <1>9, <1>10
  <1>12. After(2, Q) = At(SecondColumns, InitialUniques, Q)
    BY DEF After, ColumnsAt, UniquesAt
  <1> QED BY <1>10, <1>11, <1>12

LEMMA RemovePublicIs ==
  ASSUME NEW d
  PROVE  /\ Run(d, Up[3]) =
              Execute(InTurn(InTurn(Execute(d, AddColumn("deviceId", Text)),
                        DropUnique(AccessTokenUnique), DropColumn("accessToken"),
                        AddColumn("accessToken", GeneratedId),
                        AddUnique(AccessTokenUnique, {"accessToken"})),
                      DropUnique(ManagementTokenUnique), DropColumn("managementToken"),
                      AddColumn("managementToken", GeneratedId),
                      AddUnique(ManagementTokenUnique, {"managementToken"})),
                AddUnique(DeviceUnique, {"deviceId", "address"}))
         /\ Run(d, Down[3]) =
              Execute(InTurn(InTurn(Execute(d, DropUnique(DeviceUnique)),
                        DropUnique(ManagementTokenUnique), DropColumn("managementToken"),
                        AddColumn("managementToken", Text),
                        AddUnique(ManagementTokenUnique, {"managementToken"})),
                      DropUnique(AccessTokenUnique), DropColumn("accessToken"),
                      AddColumn("accessToken", Text),
                      AddUnique(AccessTokenUnique, {"accessToken"})),
                DropColumn("deviceId"))
  <1>1. Up[3] = Ten(AddColumn("deviceId", Text),
                    DropUnique(AccessTokenUnique), DropColumn("accessToken"),
                    AddColumn("accessToken", GeneratedId),
                    AddUnique(AccessTokenUnique, {"accessToken"}),
                    DropUnique(ManagementTokenUnique), DropColumn("managementToken"),
                    AddColumn("managementToken", GeneratedId),
                    AddUnique(ManagementTokenUnique, {"managementToken"}),
                    AddUnique(DeviceUnique, {"deviceId", "address"}))
    BY FourMigrations, Zenon DEF RemovePublicUp, Retype, Ten
  <1>2. Down[3] = Ten(DropUnique(DeviceUnique),
                      DropUnique(ManagementTokenUnique), DropColumn("managementToken"),
                      AddColumn("managementToken", Text),
                      AddUnique(ManagementTokenUnique, {"managementToken"}),
                      DropUnique(AccessTokenUnique), DropColumn("accessToken"),
                      AddColumn("accessToken", Text),
                      AddUnique(AccessTokenUnique, {"accessToken"}),
                      DropColumn("deviceId"))
    BY FourMigrations, Zenon DEF RemovePublicDown, Retype, Ten
  <1>3. Run(d, Up[3]) =
          TenInTurn(d, AddColumn("deviceId", Text),
                    DropUnique(AccessTokenUnique), DropColumn("accessToken"),
                    AddColumn("accessToken", GeneratedId),
                    AddUnique(AccessTokenUnique, {"accessToken"}),
                    DropUnique(ManagementTokenUnique), DropColumn("managementToken"),
                    AddColumn("managementToken", GeneratedId),
                    AddUnique(ManagementTokenUnique, {"managementToken"}),
                    AddUnique(DeviceUnique, {"deviceId", "address"}))
    BY <1>1, RunTen
  <1>4. Run(d, Down[3]) =
          TenInTurn(d, DropUnique(DeviceUnique),
                    DropUnique(ManagementTokenUnique), DropColumn("managementToken"),
                    AddColumn("managementToken", Text),
                    AddUnique(ManagementTokenUnique, {"managementToken"}),
                    DropUnique(AccessTokenUnique), DropColumn("accessToken"),
                    AddColumn("accessToken", Text),
                    AddUnique(AccessTokenUnique, {"accessToken"}),
                    DropColumn("deviceId"))
    BY <1>2, RunTen
  <1> QED BY <1>3, <1>4, Zenon DEF TenInTurn

LEMMA RemovePublicRuns == Run(After(2, {}), Up[3]) = After(3, {})
  <1> DEFINE c1 == With(SecondColumns, "deviceId", Text)
             c2 == Retyped(c1, "accessToken", GeneratedId)
             c3 == Retyped(c2, "managementToken", GeneratedId)
             d1 == Execute(After(2, {}), AddColumn("deviceId", Text))
             d2 == InTurn(d1, DropUnique(AccessTokenUnique), DropColumn("accessToken"),
                          AddColumn("accessToken", GeneratedId),
                          AddUnique(AccessTokenUnique, {"accessToken"}))
             d3 == InTurn(d2, DropUnique(ManagementTokenUnique), DropColumn("managementToken"),
                          AddColumn("managementToken", GeneratedId),
                          AddUnique(ManagementTokenUnique, {"managementToken"}))
             d4 == Execute(d3, AddUnique(DeviceUnique, {"deviceId", "address"}))
  <1>1. Run(After(2, {}), Up[3]) = d4
    BY RemovePublicIs, Zenon
  <1>2. /\ "deviceId" \notin DOMAIN SecondColumns
        /\ "accessToken" \in DOMAIN c1 /\ "managementToken" \in DOMAIN c2
        /\ {"deviceId", "address"} \subseteq DOMAIN c3
    BY ColumnNames DEF With, Retyped
  <1>3. c3 = LastColumns
    BY DEF With, Retyped, LastColumns, SecondColumns, FirstColumns, Columns
  <1> HIDE DEF c1, c2, c3
  <1>4. d1 = At(c1, InitialUniques, {})
    <2>1. d1 = At(c1, InitialUniques, {With(r, "deviceId", Backfill(r, Text)) : r \in {}})
      BY <1>2, AddColumnOn DEF After, ColumnsAt, UniquesAt, c1
    <2>2. {With(r, "deviceId", Backfill(r, Text)) : r \in {}} = {}
      OBVIOUS
    <2> QED BY <2>1, <2>2
  <1> HIDE DEF d1
  <1>5. d2 = At(c2, InitialUniques, {})
    BY <1>2, <1>4, RetypeOn, TokensGuarded DEF c2
  <1> HIDE DEF d2
  <1>6. d3 = At(c3, InitialUniques, {})
    BY <1>2, <1>5, RetypeOn, TokensGuarded DEF c3
  <1> HIDE DEF d3
  <1>7. d4 = At(c3, DeviceUniques, {})
    <2>1. Unique({}, {"deviceId", "address"})
      BY DEF Unique
    <2>2. DeviceUnique \notin DOMAIN InitialUniques
      BY InitialUniquesAre
    <2> QED BY <2>1, <2>2, <1>2, <1>6, AddUniqueOn DEF DeviceUniques
  <1> QED BY <1>1, <1>3, <1>7 DEF After, ColumnsAt, UniquesAt

\* With rows, removePublic has no device id to give them.
LEMMA RemovePublicRefused ==
  ASSUME NEW R, R # {}
  PROVE  ~Run(After(2, R), Up[3]).ok
  <1> DEFINE d1 == Execute(After(2, R), AddColumn("deviceId", Text))
  <1>1. ~d1.ok
    <2>1. Text.default = "none"
      BY DEF Text, Column
    <2>2. After(2, R) = At(SecondColumns, InitialUniques, R)
      BY DEF After, ColumnsAt, UniquesAt
    <2> QED BY <2>1, <2>2, AddColumnRefused
  <1> HIDE DEF d1
  <1>2. PICK d : d = After(2, R)
    OBVIOUS
  <1>3. ~Run(d, Up[3]).ok
    BY <1>1, <1>2, RemovePublicIs, InTurnRefused, RefusedOnce DEF d1
  <1> QED BY <1>2, <1>3

LEMMA AdjustAccountRuns ==
  ASSUME NEW R
  PROVE  Run(After(3, R), Up[4]) = After(4, R)
  <1>1. Run(After(3, R), Up[4]) = Execute(After(3, R), DropUnique(DeviceUnique))
    BY RunOne, FourMigrations DEF AdjustAccountUp
  <1>2. Execute(At(LastColumns, DeviceUniques, R), DropUnique(DeviceUnique))
          = At(LastColumns, Without(DeviceUniques, DeviceUnique), R)
    BY DropUniqueOn, DeviceUniquesAre
  <1>3. Without(DeviceUniques, DeviceUnique) = InitialUniques
    BY InitialUniquesAre DEF Without, Restrict, DeviceUniques, With
  <1> QED BY <1>1, <1>2, <1>3 DEF After, ColumnsAt, UniquesAt

\* A migration that was run is refused when it is run again: its first
\* statement is, whatever was run since.
LEMMA AgainRefused ==
  ASSUME NEW m \in 1 .. 4, NEW n \in 1 .. 4, n <= m, NEW R
  PROVE  ~Run(After(m, R), Up[n]).ok
  <1>1. PICK c, u : /\ After(m, R) = At(c, u, R) /\ c = ColumnsAt(m) /\ u = UniquesAt(m)
    BY DEF After
  <1>2. CASE n = 1
    <2>1. PICK p, q, r, s, e, v : Up[1] = <<p, q, r, s>> /\ p = CreateTable("account", e, v)
      BY FourMigrations, Zenon DEF InitialMigrationUp
    <2>2. ~Execute(At(c, u, R), p).ok
      BY <2>1, CreateTableRefused
    <2>3. ~InTurn(At(c, u, R), p, q, r, s).ok
      BY <2>2, RefusedOnce DEF InTurn
    <2>4. Run(At(c, u, R), Up[1]) = InTurn(At(c, u, R), p, q, r, s)
      BY <2>1, RunFour
    <2> QED BY <1>1, <1>2, <2>3, <2>4
  <1>3. CASE n = 2
    <2>1. "protocolIdentifier" \in DOMAIN c
      BY <1>1, <1>3, ColumnNames DEF ColumnsAt
    <2>2. PICK column : Up[2] = <<AddColumn("protocolIdentifier", column)>>
      BY FourMigrations, Zenon DEF ProtocolIdentifierUp
    <2>3. ~Execute(At(c, u, R), AddColumn("protocolIdentifier", column)).ok
      BY <2>1, AddColumnRefused
    <2>4. Run(At(c, u, R), Up[2]) = Execute(At(c, u, R), AddColumn("protocolIdentifier", column))
      BY <2>2, RunOne
    <2> QED BY <1>1, <1>3, <2>3, <2>4
  <1>4. CASE n = 3
    <2>1. "deviceId" \in DOMAIN c
      BY <1>1, <1>4, ColumnNames DEF ColumnsAt
    <2>2. ~Execute(At(c, u, R), AddColumn("deviceId", Text)).ok
      BY <2>1, AddColumnRefused
    <2>3. PICK d, e : d = At(c, u, R) /\ e = Execute(d, AddColumn("deviceId", Text))
      OBVIOUS
    <2>4. ~Run(d, Up[3]).ok
      BY <2>2, <2>3, RemovePublicIs, InTurnRefused, RefusedOnce
    <2> QED BY <1>1, <1>4, <2>3, <2>4
  <1>5. CASE n = 4
    <2>1. DeviceUnique \notin DOMAIN u
      <3>1. m = 4
        BY <1>5
      <3> QED BY <3>1, <1>1, InitialUniquesAre DEF UniquesAt
    <2>2. Up[4] = <<DropUnique(DeviceUnique)>>
      BY FourMigrations DEF AdjustAccountUp
    <2>3. ~Execute(At(c, u, R), DropUnique(DeviceUnique)).ok
      BY <2>1, DropUniqueRefused
    <2>4. Run(At(c, u, R), Up[4]) = Execute(At(c, u, R), DropUnique(DeviceUnique))
      BY <2>2, RunOne
    <2> QED BY <1>1, <1>5, <2>3, <2>4
  <1> QED BY <1>2, <1>3, <1>4, <1>5

-----------------------------------------------------------------------------
(* The down of each migration.                                              *)

LEMMA InitialMigrationUndone == ASSUME NEW R PROVE Run(After(1, R), Down[1]) = After(0, {})
  <1> DEFINE T1 == TablesWith([columns |-> FirstColumns, uniques |-> InitialUniques])
             T2 == Without(T1, "whitelist_entity")
             T3 == Without(T2, "notification_entity")
             T4 == Without(T3, "challenge")
             T5 == Without(T4, "account")
             d1 == Execute(Database(T1, R), DropTable("whitelist_entity"))
             d2 == Execute(d1, DropTable("notification_entity"))
             d3 == Execute(d2, DropTable("challenge"))
             d4 == Execute(d3, DropTable("account"))
  <1>1. Run(After(1, R), Down[1]) = d4
    <2>1. PICK d : d = After(1, R)
      OBVIOUS
    <2>2. Run(d, Down[1]) = InTurn(d, DropTable("whitelist_entity"), DropTable("notification_entity"),
                                   DropTable("challenge"), DropTable("account"))
      BY RunFour, FourMigrations, Zenon DEF InitialMigrationDown
    <2>3. d = Database(T1, R)
      BY <2>1 DEF After, At, ColumnsAt, UniquesAt
    <2> QED BY <2>1, <2>2, <2>3 DEF InTurn
  <1>2. /\ "whitelist_entity" \in DOMAIN T1 /\ "notification_entity" \in DOMAIN T2
        /\ "challenge" \in DOMAIN T3 /\ "account" \in DOMAIN T4 /\ DOMAIN T5 = {}
    BY DEF TablesWith, Without, Restrict
  <1>3. T5 = NoTables
    BY <1>2 DEF Without, Restrict, NoTables
  <1> HIDE DEF T1, T2, T3, T4, T5
  <1>4. d1 = Database(T2, R)
    BY <1>2, DropTableOn DEF T2
  <1> HIDE DEF d1
  <1>5. d2 = Database(T3, R)
    BY <1>2, <1>4, DropTableOn DEF T3
  <1> HIDE DEF d2
  <1>6. d3 = Database(T4, R)
    BY <1>2, <1>5, DropTableOn DEF T4
  <1> HIDE DEF d3
  <1>7. d4 = Database(T5, {})
    BY <1>2, <1>6, DropTableOn DEF T5
  <1> HIDE DEF d4
  <1> QED BY <1>1, <1>3, <1>7 DEF After

\* No constraint of account is about these two columns.
LEMMA Unconstrained ==
  ASSUME NEW name \in {"protocolIdentifier", "deviceId"}
  PROVE  Restrict(InitialUniques, {w \in DOMAIN InitialUniques : name \notin InitialUniques[w]})
           = InitialUniques
  <1>1. {w \in DOMAIN InitialUniques : name \notin InitialUniques[w]} = DOMAIN InitialUniques
    BY InitialUniquesAre
  <1> QED BY <1>1, InitialUniquesAre DEF Restrict

WithoutProtocol(r) == Without(r, "protocolIdentifier")

LEMMA ProtocolIdentifierUndone ==
  ASSUME NEW R
  PROVE  Run(After(2, R), Down[2]) = After(1, {WithoutProtocol(r) : r \in R})
  <1>1. PICK Q : Q = {Without(r, "protocolIdentifier") : r \in R}
    OBVIOUS
  <1>2. Run(After(2, R), Down[2]) = Execute(After(2, R), DropColumn("protocolIdentifier"))
    BY RunOne, FourMigrations DEF ProtocolIdentifierDown
  <1>3. After(2, R) = At(SecondColumns, InitialUniques, R)
    BY DEF After, ColumnsAt, UniquesAt
  <1>4. Execute(At(SecondColumns, InitialUniques, R), DropColumn("protocolIdentifier"))
          = At(Without(SecondColumns, "protocolIdentifier"), InitialUniques, Q)
    <2>1. "protocolIdentifier" \in DOMAIN SecondColumns
      BY ColumnNames
    <2>2. PICK v : v = Restrict(InitialUniques, {w \in DOMAIN InitialUniques :
                                  "protocolIdentifier" \notin InitialUniques[w]})
      OBVIOUS
    <2>3. Execute(At(SecondColumns, InitialUniques, R), DropColumn("protocolIdentifier"))
            = At(Without(SecondColumns, "protocolIdentifier"), v, Q)
      BY <2>1, <2>2, <1>1, DropColumnOn
    <2>4. v = InitialUniques
      BY <2>2, Unconstrained
    <2> QED BY <2>3, <2>4
  <1>5. Without(SecondColumns, "protocolIdentifier") = FirstColumns
    BY ColumnNames DEF Without, Restrict, SecondColumns, With, FirstColumns, Columns
  <1>6. After(1, Q) = At(FirstColumns, InitialUniques, Q)
    BY DEF After, ColumnsAt, UniquesAt
  <1>7. Q = {WithoutProtocol(r) : r \in R}
    BY <1>1 DEF WithoutProtocol
  <1> QED BY <1>2, <1>3, <1>4, <1>5, <1>6, <1>7

LEMMA RemovePublicUndone == Run(After(3, {}), Down[3]) = After(2, {})
  <1> DEFINE c1 == Retyped(LastColumns, "managementToken", Text)
             c2 == Retyped(c1, "accessToken", Text)
             c3 == Without(c2, "deviceId")
             d1 == Execute(After(3, {}), DropUnique(DeviceUnique))
             d2 == InTurn(d1, DropUnique(ManagementTokenUnique), DropColumn("managementToken"),
                          AddColumn("managementToken", Text),
                          AddUnique(ManagementTokenUnique, {"managementToken"}))
             d3 == InTurn(d2, DropUnique(AccessTokenUnique), DropColumn("accessToken"),
                          AddColumn("accessToken", Text),
                          AddUnique(AccessTokenUnique, {"accessToken"}))
             d4 == Execute(d3, DropColumn("deviceId"))
  <1>1. Run(After(3, {}), Down[3]) = d4
    BY RemovePublicIs, Zenon
  <1>2. /\ "managementToken" \in DOMAIN LastColumns /\ "accessToken" \in DOMAIN c1
        /\ "deviceId" \in DOMAIN c2
    BY ColumnNames DEF Retyped
  <1>3. c3 = SecondColumns
    BY DEF With, Without, Restrict, Retyped, LastColumns, SecondColumns, FirstColumns, Columns
  <1> HIDE DEF c1, c2, c3
  <1>4. d1 = At(LastColumns, InitialUniques, {})
    <2>1. After(3, {}) = At(LastColumns, DeviceUniques, {})
      BY DEF After, ColumnsAt, UniquesAt
    <2>2. d1 = At(LastColumns, Without(DeviceUniques, DeviceUnique), {})
      BY <2>1, DropUniqueOn, DeviceUniquesAre
    <2>3. Without(DeviceUniques, DeviceUnique) = InitialUniques
      BY InitialUniquesAre DEF Without, Restrict, DeviceUniques, With
    <2> QED BY <2>2, <2>3
  <1> HIDE DEF d1
  <1>5. d2 = At(c1, InitialUniques, {})
    BY <1>2, <1>4, RetypeOn, TokensGuarded DEF c1
  <1> HIDE DEF d2
  <1>6. d3 = At(c2, InitialUniques, {})
    BY <1>2, <1>5, RetypeOn, TokensGuarded DEF c2
  <1> HIDE DEF d3
  <1>7. d4 = At(c3, InitialUniques, {})
    <2>1. PICK Q, v : /\ Q = {Without(r, "deviceId") : r \in {}}
                      /\ v = Restrict(InitialUniques, {w \in DOMAIN InitialUniques :
                                        "deviceId" \notin InitialUniques[w]})
      OBVIOUS
    <2>2. d4 = At(c3, v, Q)
      BY <2>1, <1>2, <1>6, DropColumnOn DEF c3
    <2>3. v = InitialUniques /\ Q = {}
      BY <2>1, Unconstrained
    <2> QED BY <2>2, <2>3
  <1> QED BY <1>1, <1>3, <1>7 DEF After, ColumnsAt, UniquesAt

\* With rows, there is no string to be had for a token.
LEMMA RemovePublicKept ==
  ASSUME NEW R, R # {}
  PROVE  ~Run(After(3, R), Down[3]).ok
  <1> DEFINE d1 == Execute(After(3, R), DropUnique(DeviceUnique))
             d2 == InTurn(d1, DropUnique(ManagementTokenUnique), DropColumn("managementToken"),
                          AddColumn("managementToken", Text),
                          AddUnique(ManagementTokenUnique, {"managementToken"}))
  <1>1. PICK u : d1 = At(LastColumns, u, R) /\ ManagementTokenUnique \in DOMAIN u
    <2>1. After(3, R) = At(LastColumns, DeviceUniques, R)
      BY DEF After, ColumnsAt, UniquesAt
    <2>2. d1 = At(LastColumns, Without(DeviceUniques, DeviceUnique), R)
      BY <2>1, DropUniqueOn, DeviceUniquesAre
    <2>3. ManagementTokenUnique \in DOMAIN Without(DeviceUniques, DeviceUnique)
      BY DeviceUniquesAre, Names DEF Without, Restrict
    <2> QED BY <2>2, <2>3
  <1> HIDE DEF d1
  <1>2. ~d2.ok
    <2>1. Text.default = "none" /\ "managementToken" \in DOMAIN LastColumns
      BY ColumnNames DEF Text, Column
    <2> QED BY <1>1, <2>1, RetypeRefused
  <1> HIDE DEF d2
  <1>3. PICK d : d = After(3, R)
    OBVIOUS
  <1>4. ~Run(d, Down[3]).ok
    BY <1>2, <1>3, RemovePublicIs, InTurnRefused, RefusedOnce DEF d1, d2
  <1> QED BY <1>3, <1>4

LEMMA AdjustAccountUndone ==
  ASSUME NEW R, Run(After(4, R), Down[4]).ok
  PROVE  Run(After(4, R), Down[4]) = After(3, R)
  <1>1. Run(After(4, R), Down[4]) = Execute(After(4, R), AddUnique(DeviceUnique, {"address", "deviceId"}))
    BY RunOne, FourMigrations DEF AdjustAccountDown
  <1>2. After(4, R) = At(LastColumns, InitialUniques, R)
    BY DEF After, ColumnsAt, UniquesAt
  <1>3. Unique(R, {"address", "deviceId"})
    BY <1>1, <1>2, AddUniqueRefused
  <1>4. {"address", "deviceId"} \subseteq DOMAIN LastColumns /\ DeviceUnique \notin DOMAIN InitialUniques
    BY ColumnNames, InitialUniquesAre
  <1>5. Execute(At(LastColumns, InitialUniques, R), AddUnique(DeviceUnique, {"address", "deviceId"}))
          = At(LastColumns, With(InitialUniques, DeviceUnique, {"address", "deviceId"}), R)
    BY <1>3, <1>4, AddUniqueOn
  <1>6. {"address", "deviceId"} = {"deviceId", "address"}
    OBVIOUS
  <1>7. With(InitialUniques, DeviceUnique, {"address", "deviceId"}) = DeviceUniques
    BY <1>6 DEF DeviceUniques
  <1> QED BY <1>1, <1>2, <1>5, <1>7 DEF After, ColumnsAt, UniquesAt

-----------------------------------------------------------------------------
(* What an upgrade makes of a database whose schema is that of the first n
   migrations, when it takes the first m for executed.                      *)

\* The rows there were, with the protocol if the second migration gave it.
Grown(R, n, i) == IF n <= 1 /\ i >= 2 THEN {WithProtocol(r) : r \in R} ELSE R

\* One more migration, when those before it made After(i - 1, ...).
LEMMA UpNext ==
  ASSUME NEW n \in 0 .. 4, NEW i \in 1 .. 4, n < i, NEW R, n = 0 => R = {}
  PROVE  LET d == After(i - 1, Grown(R, n, i - 1))
         IN /\ Run(d, Up[i]).ok => Run(d, Up[i]) = After(i, Grown(R, n, i))
            /\ R = {} => Run(d, Up[i]) = After(i, Grown(R, n, i))
            /\ i = 3 /\ R # {} => ~Run(d, Up[i]).ok
  <1>1. CASE i = 1
    <2>1. n = 0 /\ R = {} /\ i - 1 = 0
      BY <1>1
    <2>2. Grown(R, n, i - 1) = {} /\ Grown(R, n, i) = {}
      BY <2>1, <1>1 DEF Grown
    <2>3. Run(After(0, {}), Up[1]) = After(1, {})
      BY InitialMigrationRuns
    <2> QED BY <2>1, <2>2, <2>3, <1>1
  <1>2. CASE i = 2
    <2>1. n <= 1 /\ i - 1 = 1
      BY <1>2
    <2>2. Grown(R, n, i - 1) = R /\ Grown(R, n, i) = {WithProtocol(r) : r \in R}
      BY <2>1, <1>2 DEF Grown
    <2>3. PICK Q : Q = {WithProtocol(r) : r \in R}
      OBVIOUS
    <2>4. Run(After(1, R), Up[2]) = After(2, Q)
      BY <2>3, ProtocolIdentifierRuns
    <2>5. Grown(R, n, i) = Q
      BY <2>2, <2>3
    <2> QED BY <2>1, <2>2, <2>4, <2>5, <1>2
  <1>3. CASE i = 3
    <2>1. i - 1 = 2
      BY <1>3
    <2>2. PICK Q : Q = Grown(R, n, i - 1)
      OBVIOUS
    <2>3. Grown(R, n, i) = Q
      BY <2>1, <2>2, <1>3 DEF Grown
    <2>4. R = {} <=> Q = {}
      BY <2>2 DEF Grown
    <2>5. CASE Q = {}
      <3>1. Run(After(2, {}), Up[3]) = After(3, {})
        BY RemovePublicRuns
      <3> QED BY <2>1, <2>2, <2>3, <2>4, <2>5, <3>1, <1>3
    <2>6. CASE Q # {}
      <3>1. ~Run(After(2, Q), Up[3]).ok
        BY <2>6, RemovePublicRefused
      <3> QED BY <2>1, <2>2, <2>4, <2>6, <3>1, <1>3
    <2> QED BY <2>5, <2>6
  <1>4. CASE i = 4
    <2>1. i - 1 = 3
      BY <1>4
    <2>2. PICK Q : Q = Grown(R, n, i - 1)
      OBVIOUS
    <2>3. Grown(R, n, i) = Q
      BY <2>1, <2>2, <1>4 DEF Grown
    <2>4. Run(After(3, Q), Up[4]) = After(4, Q)
      BY AdjustAccountRuns
    <2> QED BY <2>1, <2>2, <2>3, <2>4, <1>4
  <1> QED BY <1>1, <1>2, <1>3, <1>4

\* A migration runs on what a refused one left: nothing.
LEMMA UpRefused ==
  ASSUME NEW d, ~d.ok, NEW i \in 1 .. 4
  PROVE  ~Run(d, Up[i]).ok
  <1>1. Len(Up[1]) \in Nat /\ Len(Up[2]) \in Nat /\ Len(Up[4]) \in Nat
    BY FourMigrations DEF InitialMigrationUp, ProtocolIdentifierUp, AdjustAccountUp
  <1>2. ASSUME Len(Up[i]) \in Nat PROVE ~Run(d, Up[i]).ok
    BY <1>2, RefusedStays
  <1>3. ~Run(d, Up[3]).ok
    BY RemovePublicIs, InTurnRefused, RefusedOnce
  <1> QED BY <1>1, <1>2, <1>3

\* Nothing is left to run.
LEMMA UpgradeNothing ==
  ASSUME NEW d, NEW i \in 0 .. 4, NEW m \in Nat, i <= m
  PROVE  Upgrade(d, i, 1 .. m) = d
  <1>1. PICK f : /\ f[0] = d
                 /\ \A k \in 1 .. i :
                      f[k] = IF k \in 1 .. m THEN f[k - 1] ELSE Run(f[k - 1], Up[k])
                 /\ Upgrade(d, i, 1 .. m) = f[i]
    <2>1. PICK E : E = 1 .. m
      OBVIOUS
    <2>2. i \in Nat
      OBVIOUS
    <2>3. PICK f : /\ f[0] = d
                   /\ \A k \in 1 .. i :
                        f[k] = IF k \in E THEN f[k - 1] ELSE Run(f[k - 1], Up[k])
                   /\ Upgrade(d, i, E) = f[i]
      BY <2>2, UpgradeRecursion
    <2> QED BY <2>1, <2>3
  <1>2. \A k \in 1 .. i : k \in 1 .. m
    OBVIOUS
  <1>3. \A k \in 1 .. i : f[k] = f[k - 1]
    BY <1>1, <1>2
  <1>4. i = 0 \/ i = 1 \/ i = 2 \/ i = 3 \/ i = 4
    OBVIOUS
  <1> QED BY <1>1, <1>3, <1>4

\* What was read is what was executed: the rest is run, or refused.
LEMMA UpgradeRest ==
  ASSUME NEW n \in 0 .. 4, NEW i \in 0 .. 4, n <= i, NEW R, n = 0 => R = {}
  PROVE  LET e == Upgrade(After(n, R), i, 1 .. n)
         IN /\ e.ok => e = After(i, Grown(R, n, i))
            /\ R = {} => e = After(i, Grown(R, n, i))
            /\ n <= 2 /\ i >= 3 /\ R # {} => ~e.ok
  <1> DEFINE d == After(n, R)
  <1>1. PICK f : /\ f[0] = d
                 /\ \A k \in 1 .. i :
                      f[k] = IF k \in 1 .. n THEN f[k - 1] ELSE Run(f[k - 1], Up[k])
                 /\ Upgrade(d, i, 1 .. n) = f[i]
    <2>1. PICK E : E = 1 .. n
      OBVIOUS
    <2>2. i \in Nat
      OBVIOUS
    <2> HIDE DEF d
    <2>3. PICK f : /\ f[0] = d
                   /\ \A k \in 1 .. i :
                        f[k] = IF k \in E THEN f[k - 1] ELSE Run(f[k - 1], Up[k])
                   /\ Upgrade(d, i, E) = f[i]
      BY <2>2, UpgradeRecursion
    <2> QED BY <2>1, <2>3
  <1>2. f[n] = d
    <2>1. \A k \in 1 .. n : f[k] = f[k - 1]
      BY <1>1
    <2>2. n = 0 \/ n = 1 \/ n = 2 \/ n = 3 \/ n = 4
      OBVIOUS
    <2> HIDE DEF d
    <2> QED BY <1>1, <2>1, <2>2
  <1>3. d.ok = TRUE /\ Grown(R, n, n) = R
    <2>1. Grown(R, n, n) = R
      BY DEF Grown
    <2>2. After(n, R).ok = TRUE
      BY AfterIs
    <2> QED BY <2>1, <2>2
  <1> DEFINE Good(j) == /\ f[j].ok => f[j] = After(j, Grown(R, n, j))
                        /\ R = {} => f[j] = After(j, Grown(R, n, j))
                        /\ n <= 2 /\ j >= 3 /\ R # {} => ~f[j].ok
  <1>4. Good(n)
    BY <1>2, <1>3
  <1>5. ASSUME NEW j \in 1 .. i, n < j, Good(j - 1) PROVE Good(j)
    <2>1. f[j] = Run(f[j - 1], Up[j])
      BY <1>1, <1>5
    <2>2. PICK e : e = After(j - 1, Grown(R, n, j - 1))
      OBVIOUS
    <2>3. j \in 1 .. 4
      OBVIOUS
    <2>4. /\ Run(e, Up[j]).ok => Run(e, Up[j]) = After(j, Grown(R, n, j))
          /\ R = {} => Run(e, Up[j]) = After(j, Grown(R, n, j))
          /\ j = 3 /\ R # {} => ~Run(e, Up[j]).ok
      BY <2>2, <2>3, <1>5, UpNext
    <2>5. CASE f[j - 1] = e
      <3>1. f[j - 1].ok = TRUE
        BY <2>2, <2>5, AfterIs
      <3>2. n <= 2 /\ j >= 3 /\ R # {} => j = 3
        <4>1. ASSUME n <= 2, j >= 3, R # {}, j # 3 PROVE FALSE
          <5>1. j - 1 >= 3
            BY <4>1
          <5> QED BY <5>1, <4>1, <3>1, <1>5
        <4> QED BY <4>1
      <3> QED BY <2>1, <2>4, <2>5, <3>2
    <2>6. CASE f[j - 1] # e
      <3>1. ~f[j - 1].ok /\ R # {}
        BY <2>2, <2>6, <1>5
      <3>2. ~Run(f[j - 1], Up[j]).ok
        BY <3>1, <2>3, UpRefused
      <3> QED BY <2>1, <3>1, <3>2
    <2> QED BY <2>5, <2>6
  <1> HIDE DEF Good
  <1>6. Good(i)
    <2>1. 0 \in 1 .. i \/ i = 0 \/ i \in 1 .. 4
      OBVIOUS
    <2>2. n < 1 /\ 1 <= i /\ Good(0) => Good(1)
      BY <1>5
    <2>3. n < 2 /\ 2 <= i /\ Good(1) => Good(2)
      BY <1>5
    <2>4. n < 3 /\ 3 <= i /\ Good(2) => Good(3)
      BY <1>5
    <2>5. n < 4 /\ 4 <= i /\ Good(3) => Good(4)
      BY <1>5
    <2>6. /\ n = 0 \/ n = 1 \/ n = 2 \/ n = 3 \/ n = 4
          /\ i = 0 \/ i = 1 \/ i = 2 \/ i = 3 \/ i = 4
      OBVIOUS
    <2> QED BY <1>4, <2>2, <2>3, <2>4, <2>5, <2>6
  <1> HIDE DEF d
  <1> QED BY <1>1, <1>6 DEF Good, d

\* Another pod's run came between: what it executed is refused.
LEMMA UpgradeStale ==
  ASSUME NEW n \in 1 .. 4, NEW i \in 1 .. 4, NEW m \in 0 .. 3, m < n, m < i, NEW R
  PROVE  ~Upgrade(After(n, R), i, 1 .. m).ok
  <1> DEFINE d == After(n, R)
  <1>1. PICK f : /\ f[0] = d
                 /\ \A k \in 1 .. i :
                      f[k] = IF k \in 1 .. m THEN f[k - 1] ELSE Run(f[k - 1], Up[k])
                 /\ Upgrade(d, i, 1 .. m) = f[i]
    <2>1. PICK E : E = 1 .. m
      OBVIOUS
    <2>2. i \in Nat
      OBVIOUS
    <2> HIDE DEF d
    <2>3. PICK f : /\ f[0] = d
                   /\ \A k \in 1 .. i :
                        f[k] = IF k \in E THEN f[k - 1] ELSE Run(f[k - 1], Up[k])
                   /\ Upgrade(d, i, E) = f[i]
      BY <2>2, UpgradeRecursion
    <2> QED BY <2>1, <2>3
  <1>2. f[m] = d
    <2>1. \A k \in 1 .. m : f[k] = f[k - 1]
      BY <1>1
    <2>2. m = 0 \/ m = 1 \/ m = 2 \/ m = 3
      OBVIOUS
    <2> HIDE DEF d
    <2> QED BY <1>1, <2>1, <2>2
  <1>3. ~f[m + 1].ok
    <2>1. m + 1 \in 1 .. i /\ m + 1 \notin 1 .. m /\ (m + 1) - 1 = m
      OBVIOUS
    <2>2. f[m + 1] = Run(d, Up[m + 1])
      BY <1>1, <1>2, <2>1
    <2>3. ~Run(After(n, R), Up[m + 1]).ok
      <3>1. PICK j : j = m + 1 /\ j \in 1 .. 4 /\ j <= n
        OBVIOUS
      <3> QED BY <3>1, AgainRefused
    <2> QED BY <2>2, <2>3
  <1> DEFINE Bad(j) == ~f[j].ok
  <1>4. ASSUME NEW j \in 2 .. i, m < j - 1, Bad(j - 1) PROVE Bad(j)
    <2>1. j \in 1 .. i /\ j \in 1 .. 4 /\ j \notin 1 .. m
      BY <1>4
    <2>2. f[j] = Run(f[j - 1], Up[j])
      BY <1>1, <2>1
    <2> QED BY <2>1, <2>2, <1>4, UpRefused
  <1>5. Bad(m + 1)
    BY <1>3
  <1> HIDE DEF Bad
  <1>6. Bad(i)
    <2>1. 2 <= i /\ m < 1 /\ Bad(1) => Bad(2)
      BY <1>4
    <2>2. 3 <= i /\ m < 2 /\ Bad(2) => Bad(3)
      BY <1>4
    <2>3. 4 <= i /\ m < 3 /\ Bad(3) => Bad(4)
      BY <1>4
    <2>4. /\ m = 0 \/ m = 1 \/ m = 2 \/ m = 3
          /\ i = 1 \/ i = 2 \/ i = 3 \/ i = 4
      OBVIOUS
    <2> QED BY <1>5, <2>1, <2>2, <2>3, <2>4
  <1> QED BY <1>1, <1>6 DEF Bad, d

\* The schema of the first migrations is the one written out.
LEMMA SchemaAfterIs ==
  ASSUME NEW i \in 0 .. 4
  PROVE  SchemaAfter[i] = After(i, {}).tables
  <1>1. EmptyDatabase = After(0, {})
    BY DEF EmptyDatabase, After, Database, NoTables
  <1>2. SchemaAfter[i] = Upgrade(EmptyDatabase, i, {}).tables
    BY FourMigrations DEF SchemaAfter
  <1>3. PICK z : z = 0 /\ 1 .. z = {} /\ z \in 0 .. 4 /\ z <= i
    OBVIOUS
  <1>4. Upgrade(After(z, {}), i, 1 .. z) = After(i, Grown({}, z, i))
    BY <1>3, UpgradeRest
  <1>5. Grown({}, z, i) = {}
    BY DEF Grown
  <1> QED BY <1>1, <1>2, <1>3, <1>4, <1>5

-----------------------------------------------------------------------------
(* The inductive invariant.                                                 *)

\* The rows have the columns of the schema, and tokens that were given to a
\* registration before.
Given(bound) == {<<"given", n>> : n \in 0 .. (bound - 1)}
IsRow(r, n, bound) ==
  /\ r = [c \in DOMAIN ColumnsAt(n) |-> r[c]]
  /\ r["accessToken"] \in Given(bound) /\ r["managementToken"] \in Given(bound)
RowsFit(rows, n, bound) ==
  /\ IsFiniteSet(rows)
  /\ \A r \in rows : IsRow(r, n, bound)

\* The migrations were executed in their order, and made the database.
Executed ==
  /\ Len(applied) \in 0 .. 4 /\ applied = [n \in 1 .. Len(applied) |-> n]
  /\ db = After(Len(applied), db.rows)
  /\ RowsFit(db.rows, Len(applied), inserts)

\* What an init container read is the first of the executed migrations, unless
\* a revert took some of them, which none of the container's image are.
ReadFirst(k, n) ==
  \E m \in 0 .. 4 : read[k] = 1 .. m /\ (m <= n \/ image[k] <= n)

Pods ==
  /\ image \in [Rollouts -> 0 .. 4]
  /\ phase \in [Rollouts -> Phases]
  /\ read \in [Rollouts -> SUBSET (1 .. 4)]
  /\ rollouts \in Nat
  /\ \A k \in Rollouts : Live(k) => image[k] \in 1 .. 4
PodsFit(n) ==
  \A k \in Rollouts :
    /\ phase[k] = "read" => ReadFirst(k, n)
    /\ phase[k] \in {"migrated", "serving"} => image[k] <= n

IInv ==
  /\ Executed
  /\ Pods
  /\ PodsFit(Len(applied))
  /\ inserts \in 0 .. MaxInserts

-----------------------------------------------------------------------------
(* The numbers of the executed migrations.                                  *)

Counted(n) == [j \in 1 .. n |-> j]

LEMMA CountedIs == ASSUME NEW n \in Nat PROVE InOrder(1 .. n) = Counted(n)
  <1>1. PICK S, w : S = 1 .. n /\ w = Counted(n)
    OBVIOUS
  <1>2. w \in Seq(S) /\ DOMAIN w = 1 .. n
    BY <1>1 DEF Counted
  <1>3. Increases(w) /\ Covers(w, S)
    BY <1>1 DEF Counted, Increases, Covers
  <1>4. S \subseteq Nat
    BY <1>1
  <1> QED BY <1>1, <1>2, <1>3, <1>4, InOrderIs

\* The pending migrations follow the executed ones.
LEMMA PendingFollow ==
  ASSUME NEW n \in Nat, NEW i \in Nat, n <= i
  PROVE  Counted(n) \o Pending(i, 1 .. n) = Counted(i)
  <1>1. PICK S, T : S = 1 .. n /\ T = {j \in 1 .. i : j \notin 1 .. n}
    OBVIOUS
  <1>2. S \subseteq 1 .. n /\ T \subseteq 1 .. i /\ S \union T = 1 .. i
    BY <1>1
  <1>3. IsFiniteSet(S) /\ IsFiniteSet(T)
    BY <1>2, FiniteRange
  <1>4. S \subseteq Nat /\ T \subseteq Nat /\ \A k \in S, l \in T : k < l
    BY <1>1
  <1>5. InOrder(S \union T) = InOrder(S) \o InOrder(T)
    BY <1>3, <1>4, InOrderSplit
  <1>6. InOrder(S) = Counted(n) /\ InOrder(S \union T) = Counted(i)
    BY <1>1, <1>2, CountedIs
  <1>7. InOrder(T) = Pending(i, 1 .. n)
    BY <1>1 DEF Pending
  <1> QED BY <1>5, <1>6, <1>7

LEMMA PendingNone ==
  ASSUME NEW n \in Nat, NEW i \in Nat, i <= n
  PROVE  Pending(i, 1 .. n) = <<>>
  <1>1. {j \in 1 .. i : j \notin 1 .. n} = {}
    OBVIOUS
  <1> QED BY <1>1, InOrderEmpty DEF Pending

LEMMA CountedLength ==
  ASSUME NEW n \in Nat
  PROVE  /\ Len(Counted(n)) = n /\ Counted(n) \in Seq(1 .. n)
         /\ Counted(n) \o <<>> = Counted(n)
  BY DEF Counted

LEMMA ExecutedIs ==
  Executed => /\ applied = Counted(Len(applied)) /\ Len(applied) \in 0 .. 4
              /\ Len(applied) \in Nat
  BY DEF Executed, Counted

-----------------------------------------------------------------------------
(* The rows.                                                                *)

LEMMA NoRowsFit == ASSUME NEW n, NEW b PROVE RowsFit({}, n, b)
  BY FS_EmptySet DEF RowsFit

\* The second migration gives each row a column, and takes it from each.
LEMMA ProtocolRowsFit ==
  ASSUME NEW R, NEW b
  PROVE  /\ RowsFit(R, 1, b) => RowsFit({WithProtocol(r) : r \in R}, 2, b)
         /\ RowsFit(R, 2, b) => RowsFit({WithoutProtocol(r) : r \in R}, 1, b)
  <1>1. ASSUME RowsFit(R, 1, b) PROVE RowsFit({WithProtocol(r) : r \in R}, 2, b)
    <2> DEFINE f == [r \in R |-> WithProtocol(r)]
               Q == {WithProtocol(r) : r \in R}
    <2>1. f \in Surjection(R, Q)
      BY DEF Surjection
    <2>2. IsFiniteSet(R)
      BY <1>1 DEF RowsFit
    <2> HIDE DEF f, Q
    <2>3. IsFiniteSet(Q)
      BY <2>1, <2>2, FS_Surjection
    <2>4. ASSUME NEW r \in R PROVE IsRow(WithProtocol(r), 2, b)
      <3>1. /\ r = [c \in DOMAIN FirstColumns |-> r[c]]
            /\ r["accessToken"] \in Given(b) /\ r["managementToken"] \in Given(b)
        BY <1>1 DEF RowsFit, IsRow, ColumnsAt
      <3>2. DOMAIN r = DOMAIN FirstColumns
        BY <3>1
      <3>3. DOMAIN WithProtocol(r) = DOMAIN SecondColumns
        BY <3>2, ColumnNames DEF WithProtocol, With
      <3>4. WithProtocol(r)["accessToken"] = r["accessToken"]
            /\ WithProtocol(r)["managementToken"] = r["managementToken"]
        BY <3>2, ColumnNames DEF WithProtocol, With
      <3>5. WithProtocol(r) = [c \in DOMAIN WithProtocol(r) |-> WithProtocol(r)[c]]
        BY DEF WithProtocol, With
      <3> QED BY <3>1, <3>3, <3>4, <3>5 DEF IsRow, ColumnsAt
    <2>5. \A q \in Q : IsRow(q, 2, b)
      BY <2>4 DEF Q
    <2> QED BY <2>3, <2>5 DEF RowsFit, Q
  <1>2. ASSUME RowsFit(R, 2, b) PROVE RowsFit({WithoutProtocol(r) : r \in R}, 1, b)
    <2> DEFINE f == [r \in R |-> WithoutProtocol(r)]
               Q == {WithoutProtocol(r) : r \in R}
    <2>1. f \in Surjection(R, Q)
      BY DEF Surjection
    <2>2. IsFiniteSet(R)
      BY <1>2 DEF RowsFit
    <2> HIDE DEF f, Q
    <2>3. IsFiniteSet(Q)
      BY <2>1, <2>2, FS_Surjection
    <2>4. ASSUME NEW r \in R PROVE IsRow(WithoutProtocol(r), 1, b)
      <3>1. /\ r = [c \in DOMAIN SecondColumns |-> r[c]]
            /\ r["accessToken"] \in Given(b) /\ r["managementToken"] \in Given(b)
        BY <1>2 DEF RowsFit, IsRow, ColumnsAt
      <3>2. DOMAIN r = DOMAIN SecondColumns
        BY <3>1
      <3>3. DOMAIN WithoutProtocol(r) = DOMAIN FirstColumns
        BY <3>2, ColumnNames DEF WithoutProtocol, Without, Restrict
      <3>4. WithoutProtocol(r)["accessToken"] = r["accessToken"]
            /\ WithoutProtocol(r)["managementToken"] = r["managementToken"]
        BY <3>2, ColumnNames DEF WithoutProtocol, Without, Restrict
      <3>5. WithoutProtocol(r) = [c \in DOMAIN WithoutProtocol(r) |-> WithoutProtocol(r)[c]]
        BY DEF WithoutProtocol, Without, Restrict
      <3> QED BY <3>1, <3>3, <3>4, <3>5 DEF IsRow, ColumnsAt
    <2>5. \A q \in Q : IsRow(q, 1, b)
      BY <2>4 DEF Q
    <2> QED BY <2>3, <2>5 DEF RowsFit, Q
  <1> QED BY <1>1, <1>2

\* The last migration changes no column.
LEMMA SameColumns ==
  ASSUME NEW R, NEW b
  PROVE  RowsFit(R, 3, b) <=> RowsFit(R, 4, b)
  BY DEF RowsFit, IsRow, ColumnsAt

\* The rows fit what an upgrade that was accepted made of them.
LEMMA GrownFit ==
  ASSUME NEW n \in 0 .. 4, NEW i \in 0 .. 4, n <= i, NEW R, NEW b, RowsFit(R, n, b),
         n = 0 => R = {}, n <= 2 /\ i >= 3 => R = {}
  PROVE  RowsFit(Grown(R, n, i), i, b)
  <1>1. CASE R = {}
    <2>1. Grown(R, n, i) = {}
      BY <1>1 DEF Grown
    <2> QED BY <2>1, NoRowsFit
  <1>2. CASE R # {} /\ n = 1 /\ i = 2
    <2>1. Grown(R, n, i) = {WithProtocol(r) : r \in R}
      BY <1>2 DEF Grown
    <2> QED BY <2>1, <1>2, ProtocolRowsFit
  <1>3. CASE R # {} /\ ~(n = 1 /\ i = 2)
    <2>1. (n = i \/ (n = 3 /\ i = 4)) /\ Grown(R, n, i) = R
      BY <1>3 DEF Grown
    <2> QED BY <2>1, SameColumns
  <1> QED BY <1>1, <1>2, <1>3

\* The database with other rows.
LEMMA Rewritten ==
  ASSUME NEW n \in 1 .. 4, NEW R, NEW Q
  PROVE  Holding(After(n, R), Q) = After(n, Q)
  <1>1. PICK T : T = TablesWith([columns |-> ColumnsAt(n), uniques |-> UniquesAt(n)])
    OBVIOUS
  <1>2. After(n, R) = [tables |-> T, rows |-> R, ok |-> TRUE]
    BY <1>1 DEF After, At, Database
  <1>3. After(n, Q) = [tables |-> T, rows |-> Q, ok |-> TRUE]
    BY <1>1 DEF After, At, Database
  <1> HIDE DEF After
  <1> QED BY <1>2, <1>3 DEF Holding

LEMMA MappedIs == ASSUME NEW i \in 1 .. 4 PROVE MappedColumns[i] = DOMAIN ColumnsAt(i)
  <1>1. i \in Migration /\ i \in 0 .. 4
    BY FourMigrations
  <1>2. CASE i = 4
    BY <1>1, <1>2, FourMigrations, ColumnNames DEF MappedColumns, ColumnsAt
  <1>3. CASE i # 4
    <2>1. MappedColumns[i] = DOMAIN SchemaAfter[i]["account"].columns
      BY <1>1, <1>3, FourMigrations DEF MappedColumns
    <2>2. SchemaAfter[i] = After(i, {}).tables
      BY <1>1, SchemaAfterIs
    <2>3. After(i, {}) = At(ColumnsAt(i), UniquesAt(i), {})
      BY DEF After
    <2>4. HasAccount(At(ColumnsAt(i), UniquesAt(i), {}), ColumnsAt(i), UniquesAt(i), {})
      BY AccountOf
    <2> QED BY <2>1, <2>2, <2>3, <2>4 DEF HasAccount
  <1> QED BY <1>2, <1>3

\* A later schema has the columns of an earlier one.
LEMMA ColumnsGrow ==
  ASSUME NEW i \in 1 .. 4, NEW n \in 1 .. 4, i <= n
  PROVE  DOMAIN ColumnsAt(i) \subseteq DOMAIN ColumnsAt(n)
  BY ColumnNames DEF ColumnsAt

-----------------------------------------------------------------------------
(* What a run of migrations does: nothing, or all of its image.             *)

\* Nothing new is in the database.
Idle(k) ==
  /\ db' = db /\ applied' = applied
  /\ phase' = [phase EXCEPT ![k] = "init"]
     \/ (phase' = [phase EXCEPT ![k] = "migrated"] /\ image[k] <= Len(applied))

\* The database is that of the image, as are the executed migrations.
Migrated(k) ==
  /\ Len(applied) < image[k] /\ image[k] \in 1 .. 4
  /\ Len(applied) <= 2 /\ image[k] >= 3 => db.rows = {}
  /\ applied' = Counted(image[k])
  /\ db' = After(image[k], Grown(db.rows, Len(applied), image[k]))
  /\ phase' = [phase EXCEPT ![k] = "migrated"]

LEMMA RunDoes ==
  ASSUME IInv, NEW k \in Rollouts, RunMigrations(k)
  PROVE  Idle(k) \/ Migrated(k)
  <1> DEFINE n == Len(applied)
             i == image[k]
             R == db.rows
             e == Upgrade(db, i, read[k])
  <1>1. /\ n \in 0 .. 4 /\ n \in Nat /\ applied = Counted(n) /\ db = After(n, R)
    BY ExecutedIs DEF IInv, Executed
  <1>2. phase[k] = "read" /\ i \in 1 .. 4
    BY DEF RunMigrations, IInv, Pods, Live
  <1>3. PICK m \in 0 .. 4 : read[k] = 1 .. m /\ (m <= n \/ i <= n)
    BY <1>2 DEF IInv, PodsFit, ReadFirst
  <1>4. n = 0 => R = {}
    BY <1>1, AfterIs
  <1>5. \/ /\ e.ok /\ db' = e /\ applied' = applied \o Pending(i, read[k])
           /\ phase' = [phase EXCEPT ![k] = "migrated"]
        \/ /\ db' = db /\ applied' = applied
           /\ phase' = [phase EXCEPT ![k] = "init"]
    BY DEF RunMigrations
  <1> HIDE DEF n, i, R, e
  <1>6. CASE i <= m
    <2>1. i \in 0 .. 4 /\ m \in Nat /\ i \in Nat
      BY <1>2
    <2>2. e = db
      BY <2>1, <1>3, <1>6, UpgradeNothing DEF e
    <2>3. Pending(i, 1 .. m) = <<>>
      BY <2>1, <1>6, PendingNone
    <2>4. applied \o <<>> = applied
      BY <1>1, CountedLength
    <2>5. i <= n
      BY <1>1, <1>2, <1>3, <1>6
    <2> QED BY <2>2, <2>3, <2>4, <2>5, <1>3, <1>5 DEF Idle, i, n
  <1>7. CASE m < i /\ m # n
    <2>1. m < n /\ n \in 1 .. 4 /\ m \in 0 .. 3
      BY <1>1, <1>2, <1>3, <1>7
    <2>2. ~Upgrade(After(n, R), i, 1 .. m).ok
      BY <2>1, <1>2, <1>7, UpgradeStale
    <2> QED BY <2>2, <1>1, <1>3, <1>5 DEF Idle, e
  <1>8. CASE m < i /\ m = n
    <2>1. i \in 0 .. 4 /\ n <= i /\ i \in Nat /\ n < i
      BY <1>1, <1>2, <1>8
    <2>2. e = Upgrade(After(n, R), i, 1 .. n)
      BY <1>1, <1>3, <1>8 DEF e
    <2>3. /\ e.ok => e = After(i, Grown(R, n, i))
          /\ n <= 2 /\ i >= 3 /\ R # {} => ~e.ok
      BY <2>1, <2>2, <1>1, <1>4, UpgradeRest
    <2>4. Counted(n) \o Pending(i, 1 .. n) = Counted(i)
      BY <2>1, <1>1, PendingFollow
    <2>5. CASE /\ e.ok /\ db' = e /\ applied' = applied \o Pending(i, read[k])
               /\ phase' = [phase EXCEPT ![k] = "migrated"]
      <3>1. /\ db' = After(i, Grown(R, n, i)) /\ applied' = Counted(i)
            /\ phase' = [phase EXCEPT ![k] = "migrated"]
        BY <2>3, <2>4, <2>5, <1>1, <1>3, <1>8
      <3>2. n <= 2 /\ i >= 3 => R = {}
        BY <2>3, <2>5
      <3> QED BY <3>1, <3>2, <2>1, <1>2 DEF Migrated, i, n, R
    <2>6. CASE /\ db' = db /\ applied' = applied
               /\ phase' = [phase EXCEPT ![k] = "init"]
      BY <2>6 DEF Idle
    <2> QED BY <2>5, <2>6, <1>5
  <1> QED BY <1>1, <1>2, <1>3, <1>6, <1>7, <1>8

-----------------------------------------------------------------------------
(* Steps.                                                                   *)

LEMMA InitHolds == Init => IInv
  <1> SUFFICES ASSUME Init PROVE IInv
    OBVIOUS
  <1>1. Len(applied) = 0 /\ applied = Counted(0)
    BY CountedLength DEF Init, Counted
  <1>2. db = After(0, db.rows) /\ db.rows = {}
    BY DEF Init, EmptyDatabase, After, Database, NoTables
  <1>3. Executed
    BY <1>1, <1>2, NoRowsFit DEF Executed, Counted
  <1>4. Pods
    BY DEF Init, Pods, Phases, Live
  <1>5. PodsFit(Len(applied))
    BY DEF Init, PodsFit, Rollouts
  <1>6. inserts \in 0 .. MaxInserts
    BY BoundsAssumption DEF Init
  <1> QED BY <1>3, <1>4, <1>5, <1>6 DEF IInv

\* A step that leaves the database, and what pods there are of which image.
LEMMA SameDatabase ==
  ASSUME IInv, UNCHANGED <<db, applied, inserts>>
  PROVE  Executed' /\ (inserts \in 0 .. MaxInserts)' /\ Len(applied)' = Len(applied)
         /\ Len(applied) \in 0 .. 4
  BY DEF IInv, Executed

LEMMA RolloutKeeps ==
  ASSUME IInv, NEW i \in Images, Rollout(i) PROVE IInv'
  <1>1. /\ Executed' /\ (inserts \in 0 .. MaxInserts)' /\ Len(applied)' = Len(applied)
    BY SameDatabase DEF Rollout, bounds
  <1>2. i \in 1 .. 4
    BY ImagesAssumption, FourMigrations
  <1>3. Pods'
    <2>1. /\ image' = [image EXCEPT ![rollouts + 1] = i]
          /\ phase' = [phase EXCEPT ![rollouts + 1] = "init"]
          /\ read' = read /\ rollouts' = rollouts + 1
      BY DEF Rollout
    <2>2. image' \in [Rollouts -> 0 .. 4] /\ read' \in [Rollouts -> SUBSET (1 .. 4)]
          /\ rollouts' \in Nat
      <3>1. i \in 0 .. 4
        BY <1>2
      <3>2. image' \in [Rollouts -> 0 .. 4]
        BY <2>1, <3>1 DEF IInv, Pods
      <3> QED BY <2>1, <3>2 DEF IInv, Pods
    <2>3. phase' \in [Rollouts -> Phases]
      BY <2>1 DEF IInv, Pods, Phases
    <2>4. ASSUME NEW k \in Rollouts, Live(k)' PROVE image'[k] \in 1 .. 4
      <3>1. k # rollouts + 1 => Live(k)
        BY <2>1, <2>4 DEF IInv, Pods, Live
      <3> QED BY <3>1, <2>1, <1>2 DEF IInv, Pods
    <2> QED BY <2>2, <2>3, <2>4 DEF Pods
  <1>4. PodsFit(Len(applied))'
    BY <1>1 DEF IInv, Pods, PodsFit, ReadFirst, Rollout
  <1> QED BY <1>1, <1>3, <1>4 DEF IInv

LEMMA ReadAppliedKeeps ==
  ASSUME IInv, NEW k \in Rollouts, ReadApplied(k) PROVE IInv'
  <1>1. /\ Executed' /\ (inserts \in 0 .. MaxInserts)' /\ Len(applied)' = Len(applied)
        /\ Len(applied) \in 0 .. 4
    BY SameDatabase DEF ReadApplied, bounds
  <1>2. Range(applied) = 1 .. Len(applied)
    BY DEF IInv, Executed, Range
  <1>3. read' = [read EXCEPT ![k] = 1 .. Len(applied)]
    BY <1>2 DEF ReadApplied
  <1>4. Pods'
    <2>1. 1 .. Len(applied) \subseteq 1 .. 4
      BY <1>1
    <2>2. read' \in [Rollouts -> SUBSET (1 .. 4)]
      BY <2>1, <1>3 DEF IInv, Pods
    <2> QED BY <2>2 DEF IInv, Pods, ReadApplied, Phases, Live
  <1>5. PodsFit(Len(applied))'
    <2>1. ReadFirst(k, Len(applied))'
      BY <1>1, <1>3 DEF IInv, Pods, ReadFirst
    <2> QED BY <1>1, <1>3, <2>1 DEF IInv, Pods, PodsFit, ReadFirst, ReadApplied
  <1> QED BY <1>1, <1>4, <1>5 DEF IInv

LEMMA RunMigrationsKeeps ==
  ASSUME IInv, NEW k \in Rollouts, RunMigrations(k) PROVE IInv'
  <1> DEFINE n == Len(applied)
             i == image[k]
  <1>0. n \in 0 .. 4 /\ n \in Nat
    BY ExecutedIs DEF IInv
  <1>1. /\ phase[k] = "read" /\ read' = [read EXCEPT ![k] = {}]
        /\ image' = image /\ rollouts' = rollouts /\ inserts' = inserts
    BY DEF RunMigrations, bounds
  <1>2. i \in 1 .. 4
    BY <1>1 DEF IInv, Pods, Live
  <1>3. \E p \in {"init", "migrated"} : phase' = [phase EXCEPT ![k] = p]
    BY RunDoes DEF Idle, Migrated
  <1>4. Pods'
    BY <1>1, <1>2, <1>3 DEF IInv, Pods, Phases, Live
  <1>5. CASE Idle(k)
    <2>1. /\ Executed' /\ (inserts \in 0 .. MaxInserts)' /\ Len(applied)' = Len(applied)
      BY <1>1, <1>5, SameDatabase DEF Idle
    <2>2. PodsFit(Len(applied))'
      BY <1>1, <1>5, <2>1 DEF IInv, Pods, PodsFit, ReadFirst, Idle
    <2> QED BY <1>4, <2>1, <2>2 DEF IInv
  <1>6. CASE Migrated(k)
    <2>0. i \in Nat /\ Len(Counted(i)) = i
      <3>1. i \in Nat
        BY <1>2
      <3> HIDE DEF i
      <3> QED BY <3>1, CountedLength
    <2>1. applied' = Counted(i) /\ Len(applied') = i /\ n < i /\ i \in 0 .. 4
      BY <1>2, <1>6, <2>0 DEF Migrated
    <2>2. PICK Q : Q = Grown(db.rows, n, i)
      OBVIOUS
    <2>3. db' = After(i, Q)
      BY <1>6, <2>2 DEF Migrated
    <2>4. db'.rows = Q
      <3>1. i # 0
        BY <1>2
      <3> QED BY <2>3, <3>1, AfterIs
    <2>5. RowsFit(Q, i, inserts)
      <3>1. RowsFit(db.rows, n, inserts)
        BY DEF IInv, Executed
      <3>2. n = 0 => db.rows = {}
        <4>1. db = After(n, db.rows)
          BY DEF IInv, Executed
        <4> QED BY <4>1, AfterIs
      <3>3. n <= 2 /\ i >= 3 => db.rows = {}
        BY <1>6 DEF Migrated
      <3> HIDE DEF n, i
      <3>4. n <= i
        BY <1>0, <2>1
      <3> QED BY <3>1, <3>2, <3>3, <3>4, <1>0, <2>1, <2>2, GrownFit
    <2>6. Executed'
      BY <2>1, <2>3, <2>4, <2>5, <1>1 DEF Executed, Counted
    <2>7. PodsFit(Len(applied))'
      <3>1. ASSUME NEW j \in Rollouts, phase'[j] = "read" PROVE \E m \in 0 .. 4 : read'[j] = 1 .. m /\ (m <= i \/ image'[j] <= i)
        <4>1. j # k /\ phase[j] = "read" /\ read'[j] = read[j]
          BY <3>1, <1>1, <1>3 DEF IInv, Pods
        <4>2. PICK m \in 0 .. 4 : read[j] = 1 .. m /\ (m <= n \/ image[j] <= n)
          BY <4>1 DEF IInv, PodsFit, ReadFirst
        <4>3. image[j] \in 0 .. 4
          BY DEF IInv, Pods
        <4>4. m <= i \/ image[j] <= i
          BY <4>2, <4>3, <1>0, <2>1
        <4> QED BY <4>1, <4>2, <4>4, <1>1
      <3>2. ASSUME NEW j \in Rollouts, phase'[j] \in {"migrated", "serving"} PROVE image'[j] <= i
        <4>1. CASE j = k
          BY <4>1, <1>1, <2>1
        <4>2. CASE j # k
          <5>1. phase[j] \in {"migrated", "serving"} /\ image[j] \in 0 .. 4
            BY <3>2, <4>2, <1>3 DEF IInv, Pods
          <5>2. image[j] <= n
            BY <5>1 DEF IInv, PodsFit
          <5> QED BY <5>1, <5>2, <1>0, <1>1, <2>1
        <4> QED BY <4>1, <4>2
      <3> HIDE DEF i, n
      <3> QED BY <3>1, <3>2, <2>1 DEF PodsFit, ReadFirst
    <2>8. (inserts \in 0 .. MaxInserts)'
      BY <1>1 DEF IInv
    <2> QED BY <1>4, <2>6, <2>7, <2>8 DEF IInv
  <1> QED BY <1>5, <1>6, RunDoes

LEMMA StartKeeps ==
  ASSUME IInv, NEW k \in Rollouts, Start(k) PROVE IInv'
  <1>1. /\ Executed' /\ (inserts \in 0 .. MaxInserts)' /\ Len(applied)' = Len(applied)
    BY SameDatabase DEF Start, bounds
  <1>2. Pods'
    BY DEF IInv, Pods, Start, Phases, Live
  <1>3. PodsFit(Len(applied))'
    BY <1>1 DEF IInv, Pods, PodsFit, ReadFirst, Start
  <1> QED BY <1>1, <1>2, <1>3 DEF IInv

LEMMA StopKeeps ==
  ASSUME IInv, NEW k \in Rollouts, Stop(k) PROVE IInv'
  <1>1. /\ Executed' /\ (inserts \in 0 .. MaxInserts)' /\ Len(applied)' = Len(applied)
    BY SameDatabase DEF Stop, bounds
  <1>2. Pods'
    BY DEF IInv, Pods, Stop, Phases, Live
  <1>3. PodsFit(Len(applied))'
    BY <1>1 DEF IInv, Pods, PodsFit, ReadFirst, Stop
  <1> QED BY <1>1, <1>2, <1>3 DEF IInv

LEMMA KillKeeps ==
  ASSUME IInv, NEW k \in Rollouts, Kill(k) PROVE IInv'
  <1>1. /\ Executed' /\ (inserts \in 0 .. MaxInserts)' /\ Len(applied)' = Len(applied)
    BY SameDatabase DEF Kill
  <1>2. Pods'
    BY DEF IInv, Pods, Kill, Phases, Live
  <1>3. PodsFit(Len(applied))'
    BY <1>1 DEF IInv, Pods, PodsFit, ReadFirst, Kill
  <1> QED BY <1>1, <1>2, <1>3 DEF IInv

\* What a down that is accepted leaves.
LEMMA UndoneFit ==
  ASSUME NEW n \in 1 .. 4, NEW R, NEW b, RowsFit(R, n, b), Run(After(n, R), Down[n]).ok
  PROVE  \E Q : /\ Run(After(n, R), Down[n]) = After(n - 1, Q)
                /\ RowsFit(Q, n - 1, b) /\ (n - 1 = 0 => Q = {})
  <1>1. CASE n = 1
    <2>1. Run(After(1, R), Down[1]) = After(0, {})
      BY InitialMigrationUndone
    <2> QED BY <1>1, <2>1, NoRowsFit
  <1>2. CASE n = 2
    <2>1. PICK Q : Q = {WithoutProtocol(r) : r \in R}
      OBVIOUS
    <2>2. Run(After(2, R), Down[2]) = After(1, Q)
      BY <2>1, ProtocolIdentifierUndone
    <2>3. RowsFit(Q, 1, b)
      BY <2>1, <1>2, ProtocolRowsFit
    <2> QED BY <1>2, <2>2, <2>3
  <1>3. CASE n = 3
    <2>1. R = {}
      BY <1>3, RemovePublicKept
    <2>2. Run(After(3, {}), Down[3]) = After(2, {})
      BY RemovePublicUndone
    <2> QED BY <1>3, <2>1, <2>2, NoRowsFit
  <1>4. CASE n = 4
    <2>1. Run(After(4, R), Down[4]) = After(3, R)
      BY <1>4, AdjustAccountUndone
    <2>2. RowsFit(R, 3, b)
      BY <1>4, SameColumns
    <2> QED BY <1>4, <2>1, <2>2
  <1> QED BY <1>1, <1>2, <1>3, <1>4

LEMMA FrontOfCounted ==
  ASSUME NEW n \in 1 .. 4
  PROVE  /\ Front(Counted(n)) = Counted(n - 1) /\ Last(Counted(n)) = n
         /\ Len(Counted(n - 1)) = n - 1
  <1>1. Len(Counted(n)) = n
    BY CountedLength
  <1>2. n - 1 \in Nat
    OBVIOUS
  <1>3. Len(Counted(n - 1)) = n - 1
    BY <1>2, CountedLength
  <1>4. Last(Counted(n)) = n
    BY <1>1 DEF Last, Counted
  <1>5. Front(Counted(n)) = Counted(n - 1)
    BY <1>1 DEF Front, Counted
  <1> QED BY <1>3, <1>4, <1>5

LEMMA RevertKeeps ==
  ASSUME IInv, Revert PROVE IInv'
  <1> DEFINE n == Len(applied)
             R == db.rows
             after == Run(db, Down[Last(applied)])
  <1>1. /\ n \in 0 .. 4 /\ applied = Counted(n) /\ db = After(n, R) /\ RowsFit(R, n, inserts)
    BY ExecutedIs DEF IInv, Executed
  <1>2. /\ image' = image /\ phase' = phase /\ read' = read /\ rollouts' = rollouts
        /\ inserts' = inserts
    BY DEF Revert, pods
  <1>3. Pods'
    BY <1>2 DEF IInv, Pods, Live
  <1>4. CASE ~after.ok
    <2>1. db' = db /\ applied' = applied
      BY <1>4 DEF Revert
    <2>2. /\ Executed' /\ (inserts \in 0 .. MaxInserts)' /\ Len(applied)' = Len(applied)
      BY <1>2, <2>1, SameDatabase
    <2>3. PodsFit(Len(applied))'
      BY <1>2, <2>2 DEF IInv, PodsFit, ReadFirst
    <2> QED BY <1>3, <2>2, <2>3 DEF IInv
  <1>5. CASE after.ok
    <2>1. applied # <<>> /\ n \in 1 .. 4
      BY <1>1 DEF Revert, Counted
    <2>2. /\ db' = after /\ applied' = Front(applied)
          /\ \A k \in Rollouts : Live(k) => image[k] < Last(applied)
      BY <1>5 DEF Revert
    <2>3. Last(applied) = n /\ Front(applied) = Counted(n - 1) /\ Len(Counted(n - 1)) = n - 1
      <3> HIDE DEF n
      <3> QED BY <1>1, <2>1, FrontOfCounted
    <2>4. after = Run(After(n, R), Down[n])
      BY <1>1, <2>3
    <2> HIDE DEF after, R, n
    <2>5. PICK Q : /\ after = After(n - 1, Q)
                   /\ RowsFit(Q, n - 1, inserts) /\ (n - 1 = 0 => Q = {})
      BY <1>1, <1>5, <2>1, <2>4, UndoneFit
    <2>6. db'.rows = Q
      BY <2>2, <2>5, AfterIs
    <2>7. n - 1 \in 0 .. 4
      BY <2>1
    <2>8. Executed'
      BY <1>2, <2>2, <2>3, <2>5, <2>6, <2>7 DEF Executed, Counted
    <2>9. \A k \in Rollouts : Live(k) => image[k] <= n - 1
      BY <2>1, <2>2, <2>3 DEF IInv, Pods
    <2>10. PodsFit(Len(applied))'
      <3>1. \A k \in Rollouts : phase[k] \in {"read", "migrated", "serving"} => Live(k)
        BY DEF Live
      <3>2. Len(applied') = n - 1
        BY <2>2, <2>3
      <3> QED BY <1>2, <2>9, <3>1, <3>2 DEF IInv, PodsFit, ReadFirst
    <2> QED BY <1>2, <1>3, <2>8, <2>10 DEF IInv
  <1> QED BY <1>4, <1>5

\* Later registrations get other tokens.
LEMMA RowsStillFit ==
  ASSUME NEW R, NEW n, NEW b \in Nat, RowsFit(R, n, b)
  PROVE  RowsFit(R, n, b + 1)
  <1>1. Given(b) \subseteq Given(b + 1)
    <2>1. 0 .. (b - 1) \subseteq 0 .. ((b + 1) - 1)
      OBVIOUS
    <2> QED BY <2>1 DEF Given
  <1> QED BY <1>1 DEF RowsFit, IsRow

\* The row an image inserts is one of the schema.
LEMMA CompletedIs ==
  ASSUME NEW i \in 1 .. 4, NEW n \in 1 .. 4, i <= n, NEW R, NEW key, NEW url, NEW device,
         NEW b \in Nat
  PROVE  IsRow(Completed(After(n, R), NewRow(i, key, url, device, b)), n, b + 1)
  <1> DEFINE row == NewRow(i, key, url, device, b)
             r == Completed(After(n, R), row)
  <1>1. DOMAIN row = DOMAIN ColumnsAt(i)
    BY MappedIs DEF NewRow
  <1>2. After(n, R).tables["account"].columns = ColumnsAt(n)
    <2>1. After(n, R) = At(ColumnsAt(n), UniquesAt(n), R)
      BY DEF After
    <2>2. HasAccount(At(ColumnsAt(n), UniquesAt(n), R), ColumnsAt(n), UniquesAt(n), R)
      BY AccountOf
    <2> QED BY <2>1, <2>2 DEF HasAccount
  <1>3. {"accessToken", "managementToken"} \subseteq DOMAIN ColumnsAt(i)
        /\ {"accessToken", "managementToken"} \subseteq DOMAIN ColumnsAt(n)
    BY ColumnNames DEF ColumnsAt
  <1>4. row["accessToken"] = <<"given", b>> /\ row["managementToken"] = <<"given", b>>
    BY <1>1, <1>3, MappedIs DEF NewRow
  <1>5. <<"given", b>> \in Given(b + 1)
    BY DEF Given
  <1> HIDE DEF row
  <1>6. r = [c \in DOMAIN ColumnsAt(n) |->
               IF c \in DOMAIN row THEN row[c] ELSE Backfill(row, ColumnsAt(n)[c])]
    BY <1>2 DEF Completed
  <1> HIDE DEF r
  <1>7. r["accessToken"] = <<"given", b>> /\ r["managementToken"] = <<"given", b>>
    BY <1>1, <1>3, <1>4, <1>6
  <1>8. DOMAIN r = DOMAIN ColumnsAt(n) /\ r = [c \in DOMAIN ColumnsAt(n) |-> r[c]]
    BY <1>6
  <1>9. IsRow(r, n, b + 1)
    BY <1>5, <1>7, <1>8 DEF IsRow
  <1> QED BY <1>9 DEF r, row

LEMMA InsertKeeps ==
  ASSUME IInv, NEW k \in Rollouts, NEW key \in Keys, NEW url \in Urls, NEW device \in Devices,
         Insert(k, key, url, device)
  PROVE  IInv'
  <1> DEFINE n == Len(applied)
             R == db.rows
             i == image[k]
             row == NewRow(i, key, url, device, inserts)
             Q == R \union {Completed(db, row)}
  <1>1. /\ n \in 0 .. 4 /\ applied = Counted(n) /\ db = After(n, R) /\ RowsFit(R, n, inserts)
    BY ExecutedIs DEF IInv, Executed
  <1>2. /\ phase[k] = "serving" /\ inserts < MaxInserts
        /\ image' = image /\ phase' = phase /\ read' = read /\ rollouts' = rollouts
        /\ inserts' = inserts + 1 /\ applied' = applied
        /\ db' = Holding(db, Q)
    BY DEF Insert, pods, Serving
  <1>3. i \in 1 .. 4 /\ i <= n
    BY <1>2 DEF IInv, Pods, PodsFit, Live
  <1>4. n \in 1 .. 4 /\ inserts \in Nat /\ inserts' \in 0 .. MaxInserts
    BY <1>1, <1>2, <1>3, BoundsAssumption DEF IInv
  <1> HIDE DEF n, R, i
  <1>5. IsRow(Completed(db, row), n, inserts + 1)
    BY <1>1, <1>3, <1>4, CompletedIs
  <1> HIDE DEF row
  <1>6. RowsFit(Q, n, inserts + 1)
    <2>1. RowsFit(R, n, inserts + 1)
      BY <1>1, <1>4, RowsStillFit
    <2>2. IsFiniteSet(Q)
      BY <2>1, FS_AddElement DEF RowsFit
    <2> QED BY <1>5, <2>1, <2>2 DEF RowsFit
  <1> HIDE DEF Q
  <1>7. db' = After(n, Q) /\ db'.rows = Q
    <2>1. Holding(After(n, R), Q) = After(n, Q)
      BY <1>4, Rewritten
    <2>2. n # 0
      BY <1>4
    <2>3. db' = After(n, Q)
      BY <2>1, <1>1, <1>2
    <2> QED BY <2>2, <2>3, AfterIs
  <1>8. Executed'
    BY <1>1, <1>2, <1>6, <1>7 DEF Executed, Counted, n
  <1>9. Pods' /\ PodsFit(Len(applied))'
    BY <1>2 DEF IInv, Pods, PodsFit, ReadFirst, Live
  <1> QED BY <1>4, <1>8, <1>9 DEF IInv

LEMMA DeleteKeeps ==
  ASSUME IInv, NEW k \in Rollouts, NEW row, Delete(k, row) PROVE IInv'
  <1> DEFINE n == Len(applied)
             R == db.rows
             Q == R \ {row}
  <1>1. /\ n \in 0 .. 4 /\ applied = Counted(n) /\ db = After(n, R) /\ RowsFit(R, n, inserts)
    BY ExecutedIs DEF IInv, Executed
  <1>2. /\ phase[k] = "serving"
        /\ image' = image /\ phase' = phase /\ read' = read /\ rollouts' = rollouts
        /\ inserts' = inserts /\ applied' = applied
        /\ db' = Holding(db, Q)
    BY DEF Delete, pods, bounds, Serving
  <1>3. image[k] \in 1 .. 4 /\ image[k] <= n
    BY <1>2 DEF IInv, Pods, PodsFit, Live
  <1>4. n \in 1 .. 4
    BY <1>1, <1>3
  <1> HIDE DEF n, R
  <1>6. RowsFit(Q, n, inserts)
    <2>1. IsFiniteSet(R) /\ Q \subseteq R
      BY <1>1 DEF RowsFit
    <2>2. IsFiniteSet(Q)
      BY <2>1, FS_Subset
    <2> QED BY <1>1, <2>1, <2>2 DEF RowsFit
  <1> HIDE DEF Q
  <1>7. db' = After(n, Q) /\ db'.rows = Q
    <2>1. Holding(After(n, R), Q) = After(n, Q)
      BY <1>4, Rewritten
    <2>2. n # 0
      BY <1>4
    <2>3. db' = After(n, Q)
      BY <2>1, <1>1, <1>2
    <2> QED BY <2>2, <2>3, AfterIs
  <1>8. Executed'
    BY <1>1, <1>2, <1>6, <1>7 DEF Executed, Counted, n
  <1>9. Pods' /\ PodsFit(Len(applied))'
    BY <1>2 DEF IInv, Pods, PodsFit, ReadFirst, Live
  <1> QED BY <1>2, <1>8, <1>9 DEF IInv

LEMMA ProvisionKeeps == IInv /\ Provision => IInv'
  <1> SUFFICES ASSUME IInv, Provision PROVE IInv'
    OBVIOUS
  <1>1. /\ Executed' /\ (inserts \in 0 .. MaxInserts)' /\ Len(applied)' = Len(applied)
    BY SameDatabase DEF Provision, bounds
  <1>2. Pods' /\ PodsFit(Len(applied))'
    BY DEF IInv, Pods, PodsFit, ReadFirst, Live, Provision, pods
  <1> QED BY <1>1, <1>2 DEF IInv

LEMMA StepKeeps == IInv /\ [Next]_vars => IInv'
  <1> SUFFICES ASSUME IInv, [Next]_vars PROVE IInv'
    OBVIOUS
  <1>1. CASE UNCHANGED vars
    <2>1. /\ Executed' /\ (inserts \in 0 .. MaxInserts)' /\ Len(applied)' = Len(applied)
      BY <1>1, SameDatabase DEF vars, bounds
    <2>2. Pods' /\ PodsFit(Len(applied))'
      BY <1>1 DEF IInv, Pods, PodsFit, ReadFirst, Live, vars, pods
    <2> QED BY <2>1, <2>2 DEF IInv
  <1>2. ASSUME NEW i \in Images, Rollout(i) PROVE IInv'
    BY <1>2, RolloutKeeps
  <1>3. ASSUME NEW k \in Rollouts, ReadApplied(k) PROVE IInv'
    BY <1>3, ReadAppliedKeeps
  <1>4. ASSUME NEW k \in Rollouts, RunMigrations(k) PROVE IInv'
    BY <1>4, RunMigrationsKeeps
  <1>5. ASSUME NEW k \in Rollouts, Start(k) PROVE IInv'
    BY <1>5, StartKeeps
  <1>6. ASSUME NEW k \in Rollouts, Stop(k) PROVE IInv'
    BY <1>6, StopKeeps
  <1>7. ASSUME NEW k \in Rollouts, Kill(k) PROVE IInv'
    BY <1>7, KillKeeps
  <1>8. ASSUME NEW k \in Rollouts, NEW key \in Keys, NEW url \in Urls, NEW device \in Devices,
               Insert(k, key, url, device)
        PROVE  IInv'
    BY <1>8, InsertKeeps
  <1>9. ASSUME NEW k \in Rollouts, NEW row \in db.rows, Delete(k, row) PROVE IInv'
    BY <1>9, DeleteKeeps
  <1>10. ASSUME Revert PROVE IInv'
    BY <1>10, RevertKeeps
  <1>11. ASSUME Provision PROVE IInv'
    BY <1>11, ProvisionKeeps
  <1> QED BY <1>1, <1>2, <1>3, <1>4, <1>5, <1>6, <1>7, <1>8, <1>9, <1>10, <1>11 DEF Next

\* The database is what the executed migrations make, and every pod that serves
\* has an image whose migrations are among them.
THEOREM Invariance == Spec => []IInv
  <1> QED BY InitHolds, StepKeeps, PTL DEF Spec

-----------------------------------------------------------------------------
(* What the invariant implies.                                              *)

\* The account table while there is one.
LEMMA AccountIs ==
  ASSUME NEW n \in 1 .. 4, NEW R
  PROVE  HasAccount(After(n, R), ColumnsAt(n), UniquesAt(n), R)
  <1>1. After(n, R) = At(ColumnsAt(n), UniquesAt(n), R)
    BY DEF After
  <1> QED BY <1>1, AccountOf

\* The job was run or was not.
LEMMA ProvisionedType == Spec => [](provisioned \in BOOLEAN)
  <1>1. Init => provisioned \in BOOLEAN
    BY DEF Init
  <1>2. provisioned \in BOOLEAN /\ [Next]_vars => (provisioned \in BOOLEAN)'
    BY DEF Next, vars, Provision, Rollout, ReadApplied, RunMigrations, Start,
       Stop, Kill, Insert, Delete, Revert
  <1> QED BY <1>1, <1>2, PTL DEF Spec

LEMMA TypesFollow == IInv /\ provisioned \in BOOLEAN => TypeOK
  <1> SUFFICES ASSUME IInv, provisioned \in BOOLEAN PROVE TypeOK
    OBVIOUS
  <1> DEFINE n == Len(applied)
             R == db.rows
  <1>1. /\ n \in 0 .. 4 /\ n \in Nat /\ applied = Counted(n) /\ db = After(n, R)
        /\ RowsFit(R, n, inserts)
    BY ExecutedIs DEF IInv, Executed
  <1>2. db.ok /\ (R # {} => n \in 1 .. 4)
    <2>1. PICK m, Q : m = n /\ Q = R
      OBVIOUS
    <2>2. After(m, Q).ok = TRUE /\ (m = 0 => After(m, Q).rows = {})
      BY AfterIs
    <2>3. R = After(m, Q).rows
      BY <1>1, <2>1
    <2> QED BY <1>1, <2>1, <2>2, <2>3
  <1>3. applied \in Seq(Migration)
    <2>1. Counted(n) \in Seq(1 .. 4)
      BY <1>1 DEF Counted
    <2> QED BY <2>1, <1>1, FourMigrations
  <1>4. /\ image \in [Rollouts -> 0 .. Len(Up)] /\ phase \in [Rollouts -> Phases]
        /\ read \in [Rollouts -> SUBSET Migration]
    BY FourMigrations DEF IInv, Pods
  <1> HIDE DEF n
  <1>6. ASSUME R # {} PROVE "account" \in DOMAIN db.tables
    <2>1. HasAccount(After(n, R), ColumnsAt(n), UniquesAt(n), R)
      BY <1>2, <1>6, AccountIs
    <2> QED BY <2>1, <1>1 DEF HasAccount
  <1>7. ASSUME NEW r \in R PROVE DOMAIN r = DOMAIN db.tables["account"].columns
    <2>1. HasAccount(After(n, R), ColumnsAt(n), UniquesAt(n), R)
      BY <1>2, <1>7, AccountIs
    <2>2. db.tables["account"].columns = ColumnsAt(n)
      BY <2>1, <1>1 DEF HasAccount
    <2>3. r = [c \in DOMAIN ColumnsAt(n) |-> r[c]]
      BY <1>1 DEF RowsFit, IsRow
    <2>4. DOMAIN r = DOMAIN ColumnsAt(n)
      BY <2>3
    <2> QED BY <2>2, <2>4
  <1> QED BY <1>2, <1>3, <1>4, <1>6, <1>7 DEF TypeOK

LEMMA SchemaFollows == IInv => SchemaOfApplied
  <1> SUFFICES ASSUME IInv PROVE SchemaOfApplied
    OBVIOUS
  <1> DEFINE n == Len(applied)
  <1>1. n \in 0 .. 4 /\ applied = [j \in 1 .. n |-> j] /\ db = After(n, db.rows)
    BY DEF IInv, Executed
  <1>2. db.tables = After(n, db.rows).tables
    BY <1>1
  <1> HIDE DEF n
  <1>3. After(n, db.rows).tables = After(n, {}).tables
    BY DEF After, At, Database
  <1>4. SchemaAfter[n] = After(n, {}).tables
    BY <1>1, SchemaAfterIs
  <1> QED BY <1>1, <1>2, <1>3, <1>4 DEF SchemaOfApplied, n

\* What a pod that serves can rely on.
LEMMA ServingHas ==
  ASSUME IInv, NEW k \in Rollouts, Serving(k)
  PROVE  /\ image[k] \in 1 .. 4 /\ Len(applied) \in 1 .. 4 /\ image[k] <= Len(applied)
         /\ db = After(Len(applied), db.rows)
         /\ HasAccount(db, ColumnsAt(Len(applied)), UniquesAt(Len(applied)), db.rows)
         /\ RowsFit(db.rows, Len(applied), inserts)
  <1>1. image[k] \in 1 .. 4 /\ image[k] <= Len(applied) /\ Len(applied) \in 0 .. 4
    BY DEF IInv, Pods, PodsFit, Live, Serving, Executed
  <1>2. Len(applied) \in 1 .. 4
    BY <1>1
  <1>3. db = After(Len(applied), db.rows) /\ RowsFit(db.rows, Len(applied), inserts)
    BY DEF IInv, Executed
  <1>4. PICK n, R : n = Len(applied) /\ R = db.rows
    OBVIOUS
  <1>5. HasAccount(After(n, R), ColumnsAt(n), UniquesAt(n), R)
    BY <1>2, <1>4, AccountIs
  <1> QED BY <1>1, <1>2, <1>3, <1>4, <1>5

\* The entities of this source are the tables of its migrations.
LEMMA EntitiesAre ==
  ASSUME NEW R
  PROVE  LET tables == After(4, R).tables
         IN [t \in DOMAIN tables |->
               [columns |-> tables[t].columns, uniques |-> Range(tables[t].uniques)]] = Entities
  <1> DEFINE tables == After(4, R).tables
             f == [t \in DOMAIN tables |->
                     [columns |-> tables[t].columns, uniques |-> Range(tables[t].uniques)]]
  <1>1. PICK account : account = [columns |-> LastColumns, uniques |-> InitialUniques]
    OBVIOUS
  <1>2. tables = TablesWith(account)
    BY <1>1 DEF After, At, Database, ColumnsAt, UniquesAt
  <1> HIDE DEF tables
  <1>3. DOMAIN tables = {"account", "challenge", "notification_entity", "whitelist_entity"}
    BY <1>2 DEF TablesWith
  <1>4. Range(InitialUniques) = AccountEntity.uniques
    <2>1. Range(InitialUniques) =
            {InitialUniques[AccessTokenUnique], InitialUniques[ManagementTokenUnique],
             InitialUniques[BackendUnique]}
      BY InitialUniquesAre DEF Range
    <2> QED BY <2>1, InitialUniquesAre DEF AccountEntity
  <1>5. Range(NoConstraints) = {}
    BY DEF Range, NoConstraints
  <1>6. f["account"] = AccountEntity
    BY <1>1, <1>2, <1>3, <1>4, ColumnNames DEF TablesWith, AccountEntity
  <1>7. f["challenge"] = ChallengeEntity
    BY <1>2, <1>3, <1>5 DEF TablesWith, ChallengeEntity
  <1>8. f["notification_entity"] = NotificationEntity
    BY <1>2, <1>3, <1>5 DEF TablesWith, NotificationEntity
  <1>9. f["whitelist_entity"] = WhitelistEntity
    BY <1>2, <1>3, <1>5 DEF TablesWith, WhitelistEntity
  <1>10. f = [t \in {"account", "challenge", "notification_entity", "whitelist_entity"} |-> f[t]]
    BY <1>3
  <1> HIDE DEF f
  <1>11. f = Entities
    BY <1>6, <1>7, <1>8, <1>9, <1>10 DEF Entities
  <1> QED BY <1>11 DEF f, tables

LEMMA EntitiesFollow == IInv => EntityFits
  <1> SUFFICES ASSUME IInv, NEW k \in Rollouts, Serving(k)
               PROVE  /\ MappedColumns[image[k]] \subseteq DOMAIN db.tables["account"].columns
                      /\ image[k] = Len(Up) =>
                           [t \in DOMAIN db.tables |->
                              [columns |-> db.tables[t].columns,
                               uniques |-> Range(db.tables[t].uniques)]] = Entities
    BY DEF EntityFits
  <1>1. PICK n, i, R : n = Len(applied) /\ i = image[k] /\ R = db.rows
    OBVIOUS
  <1>2. /\ i \in 1 .. 4 /\ n \in 1 .. 4 /\ i <= n /\ db = After(n, R)
        /\ HasAccount(db, ColumnsAt(n), UniquesAt(n), R)
    BY <1>1, ServingHas
  <1>3. MappedColumns[i] \subseteq DOMAIN db.tables["account"].columns
    <2>1. MappedColumns[i] = DOMAIN ColumnsAt(i)
      BY <1>2, MappedIs
    <2>2. DOMAIN ColumnsAt(i) \subseteq DOMAIN ColumnsAt(n)
      BY <1>2, ColumnsGrow
    <2>3. db.tables["account"].columns = ColumnsAt(n)
      BY <1>2 DEF HasAccount
    <2> QED BY <2>1, <2>2, <2>3
  <1>4. ASSUME i = Len(Up)
        PROVE  [t \in DOMAIN db.tables |->
                  [columns |-> db.tables[t].columns,
                   uniques |-> Range(db.tables[t].uniques)]] = Entities
    <2>1. n = 4
      BY <1>2, <1>4, FourMigrations
    <2> QED BY <2>1, <1>2, EntitiesAre
  <1> QED BY <1>1, <1>3, <1>4

LEMMA PeerFollows == IInv => RefusedOnlyForPeer
  <1> SUFFICES ASSUME IInv, NEW k \in Rollouts, NEW key \in Keys, NEW url \in Urls,
                      NEW device \in Devices, Serving(k), image[k] = Len(Up),
                      ~Accepted(db, NewRow(image[k], key, url, device, MaxInserts))
               PROVE  \E r \in db.rows : r["accountPublicKey"] = key /\ r["backendUrl"] = url
    BY DEF RefusedOnlyForPeer
  <1> DEFINE row == NewRow(4, key, url, device, MaxInserts)
  <1>1. image[k] = 4 /\ Len(applied) = 4
    <2>1. image[k] = 4
      BY FourMigrations
    <2>2. PICK n, i : n = Len(applied) /\ i = image[k]
      OBVIOUS
    <2>3. n \in 1 .. 4 /\ i <= n
      BY <2>2, ServingHas
    <2>4. n = 4
      BY <2>1, <2>2, <2>3
    <2> QED BY <2>1, <2>2, <2>4
  <1>2. HasAccount(db, LastColumns, InitialUniques, db.rows) /\ RowsFit(db.rows, 4, inserts)
    BY <1>1, ServingHas DEF ColumnsAt, UniquesAt
  <1>3. DOMAIN row = DOMAIN LastColumns /\ MappedColumns[4] = DOMAIN LastColumns
    BY MappedIs DEF NewRow, ColumnsAt
  <1>4. /\ row["accessToken"] = <<"given", MaxInserts>>
        /\ row["managementToken"] = <<"given", MaxInserts>>
        /\ row["accountPublicKey"] = key /\ row["backendUrl"] = url
    BY <1>3, ColumnNames DEF NewRow
  <1>5. <<"given", MaxInserts>> \notin Given(inserts)
    <2>1. \A n \in 0 .. (inserts - 1) : n # MaxInserts
      BY BoundsAssumption DEF IInv
    <2> QED BY <2>1 DEF Given
  <1> HIDE DEF row
  <1>6. PICK u \in DOMAIN InitialUniques, r \in db.rows :
          \A c \in InitialUniques[u] : c \in DOMAIN row /\ r[c] = row[c]
    <2>1. ~Accepted(db, row)
      BY <1>1 DEF row
    <2> QED BY <2>1, <1>2, <1>3 DEF Accepted, HasAccount
  <1>7. r["accessToken"] # row["accessToken"] /\ r["managementToken"] # row["managementToken"]
    BY <1>2, <1>4, <1>5 DEF RowsFit, IsRow
  <1>8. u = BackendUnique
    BY <1>6, <1>7, InitialUniquesAre
  <1> QED BY <1>4, <1>6, <1>8, InitialUniquesAre

-----------------------------------------------------------------------------
(* A run of migrations keeps what was given.                                *)

\* As many rows, and each with the values it had.
Kept(R, Q) ==
  /\ Cardinality(Q) = Cardinality(R)
  /\ \A r \in R : \E s \in Q : \A c \in DOMAIN r : c \in DOMAIN s /\ s[c] = r[c]

LEMMA ProtocolKeeps ==
  ASSUME NEW R, NEW b, RowsFit(R, 1, b)
  PROVE  Kept(R, {WithProtocol(r) : r \in R})
  <1> DEFINE f == [r \in R |-> WithProtocol(r)]
             Q == {WithProtocol(r) : r \in R}
  <1>1. IsFiniteSet(R) /\ \A r \in R : r = [c \in DOMAIN FirstColumns |-> r[c]]
    BY DEF RowsFit, IsRow, ColumnsAt
  <1>2. ASSUME NEW r \in R, NEW c \in DOMAIN r
        PROVE  c \in DOMAIN WithProtocol(r) /\ WithProtocol(r)[c] = r[c]
    BY DEF WithProtocol, With
  <1>3. ASSUME NEW r \in R, NEW s \in R, WithProtocol(r) = WithProtocol(s) PROVE r = s
    <2>1. DOMAIN r = DOMAIN FirstColumns /\ DOMAIN s = DOMAIN FirstColumns
      BY <1>1
    <2>2. \A c \in DOMAIN FirstColumns : r[c] = s[c]
      BY <2>1, <1>2, <1>3
    <2> QED BY <2>2, <1>1
  <1>4. f \in Surjection(R, Q)
    BY DEF Surjection
  <1>5. f \in Injection(R, Q)
    <2>1. f \in [R -> Q]
      OBVIOUS
    <2>2. \A r, s \in R : f[r] = f[s] => r = s
      BY <1>3
    <2> HIDE DEF f, Q
    <2> QED BY <2>1, <2>2 DEF Injection, IsInjective
  <1> HIDE DEF f
  <1>6. Cardinality(Q) = Cardinality(R)
    <2> HIDE DEF Q
    <2> QED BY <1>1, <1>4, <1>5, FS_Surjection
  <1>7. \A r \in R : \E s \in Q : \A c \in DOMAIN r : c \in DOMAIN s /\ s[c] = r[c]
    BY <1>2
  <1> QED BY <1>6, <1>7 DEF Kept

LEMMA SameKept == ASSUME NEW R PROVE Kept(R, R)
  BY DEF Kept

LEMMA RunKeeps ==
  ASSUME IInv, NEW k \in Rollouts, RunMigrations(k) PROVE Kept(db.rows, db'.rows)
  <1>1. CASE Idle(k)
    BY <1>1, SameKept DEF Idle
  <1>2. CASE Migrated(k)
    <2>1. PICK n, i, R : n = Len(applied) /\ i = image[k] /\ R = db.rows
      OBVIOUS
    <2>2. i \in 1 .. 4 /\ n < i /\ db' = After(i, Grown(R, n, i))
      BY <1>2, <2>1 DEF Migrated
    <2>3. n \in 0 .. 4 /\ db = After(n, R) /\ RowsFit(R, n, inserts)
      BY <2>1 DEF IInv, Executed
    <2>4. db'.rows = Grown(R, n, i)
      <3>1. i # 0
        BY <2>2
      <3> QED BY <2>2, <3>1, AfterIs
    <2>5. n = 0 => R = {}
      BY <2>1, <2>3, AfterIs
    <2>6. CASE n = 1 /\ i >= 2
      <3>1. Grown(R, n, i) = {WithProtocol(r) : r \in R}
        BY <2>6 DEF Grown
      <3>2. Kept(R, {WithProtocol(r) : r \in R})
        BY <2>3, <2>6, ProtocolKeeps
      <3> QED BY <2>1, <2>4, <3>1, <3>2
    <2>7. CASE ~(n = 1 /\ i >= 2)
      <3>1. Grown(R, n, i) = R
        BY <2>2, <2>3, <2>5, <2>7 DEF Grown
      <3> QED BY <2>1, <2>4, <3>1, SameKept
    <2> QED BY <2>6, <2>7
  <1> QED BY <1>1, <1>2, RunDoes

-----------------------------------------------------------------------------
(* For any number of rollouts of any images, restarts, reverts, registrations
   and wallets:                                                             *)

\* Types, and a value in every column of every row (src/migrations).
THEOREM TypeCorrect == Spec => []TypeOK
  <1> QED BY Invariance, ProvisionedType, TypesFollow, PTL

\* The table of the executed migrations says what the schema is, whatever init
\* containers read and operators reverted meanwhile (src/migrations,
\* deployment.yaml).
THEOREM SchemaKnown == Spec => []SchemaOfApplied
  <1> QED BY Invariance, SchemaFollows, PTL

\* A pod that serves finds the columns its entities map, and the tables of the
\* migrations are the entities (account.entity.ts and its siblings).
THEOREM EntitiesFit == Spec => []EntityFits
  <1> QED BY Invariance, EntitiesFollow, PTL

\* A registration is refused only for one of the same key at the same backend
\* (account.entity.ts:11, 1663053436041-adjustAccount.ts).
THEOREM OnlyForPeer == Spec => []RefusedOnlyForPeer
  <1> QED BY Invariance, PeerFollows, PTL

\* A run of migrations keeps every registration and what it was given
\* (1628596493439-protocolIdentifier.ts, 1662640260062-removePublic.ts).
THEOREM RegistrationsKept == Spec => UpgradeKeepsRegistrations
  <1>1. ASSUME IInv
        PROVE  [ (\E k \in Rollouts : RunMigrations(k)) =>
                   /\ Cardinality(db'.rows) = Cardinality(db.rows)
                   /\ \A r \in db.rows : \E s \in db'.rows :
                        \A c \in DOMAIN r : c \in DOMAIN s /\ s[c] = r[c] ]_vars
    BY <1>1, RunKeeps DEF Kept
  <1> QED BY <1>1, Invariance, PTL DEF UpgradeKeepsRegistrations
=============================================================================
