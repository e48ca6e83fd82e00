--------------------------- MODULE QueriesProofs ---------------------------
(* Theorems about what a question costs and what becomes of it: the budget's   *)
(* ledger and what it sums up to, for every set of addresses, accounts and     *)
(* calls and every limit; the calls to the providers, for every number of      *)
(* batches and every usage; the stream of one query; the conversations that    *)
(* queries are recorded in and the lists that show them, for every set of      *)
(* guests, accounts, queries and passages and any size of a page; and what a   *)
(* query finds, for any passages, labels, scores and limits.                   *)
EXTENDS MCQueries, SequenceTheorems, FiniteSetTheorems, TLAPS

(* Importing keeps the ledger's associations right: the rows it adds are those *)
(* of guests at the importing account's own address.                           *)
LEMMA ImportKeepsOwner ==
  ASSUME IInv, NEW ip \in Ip, NEW account \in User \cup {None}
  PROVE  /\ alloc \subseteq Import(ip, account)
         /\ Import(ip, account) \subseteq Call \X Scope
         /\ \A c \in Call, s \in Scope :
              <<c, s>> \in Import(ip, account) =>
                /\ c \in Made
                /\ s \in Ip => s = reservation[c].ip
                /\ s \in User => reservation[c].payer \in {s, None}
<1>1. GuestCalls(ip) \subseteq Made
  BY DEF GuestCalls
<1>2. Made \subseteq Call
  BY DEF Made
<1>3. Import(ip, account) \subseteq Call \X Scope
  BY <1>1, <1>2 DEF Import, IInv, TypeOK, Scope
<1>4. ASSUME NEW c \in Call, NEW s \in Scope, <<c, s>> \in Import(ip, account)
      PROVE  /\ c \in Made
             /\ s \in Ip => s = reservation[c].ip
             /\ s \in User => reservation[c].payer \in {s, None}
  <2>1. CASE <<c, s>> \in alloc
    BY <2>1 DEF IInv, ChargedToOwner, Made
  <2>2. CASE c \in GuestCalls(ip) /\ s \in {account} \cap User
    BY <2>2, ScopeAssumption DEF GuestCalls
  <2>. QED
    BY <1>4, <2>1, <2>2 DEF Import
<1>. QED
  BY <1>3, <1>4 DEF Import

(* The ledger starts empty. *)
LEMMA InitIInv == Init => IInv
<1>. SUFFICES ASSUME Init PROVE IInv
  OBVIOUS
<1>1. TypeOK
  BY AmountAssumption DEF Init, TypeOK, Day
<1>2. ChargedToOwner /\ EveryChargeCounts
  BY DEF Init, ChargedToOwner, EveryChargeCounts, Made
<1>. QED
  BY <1>1, <1>2 DEF IInv

(* An admitted call is charged to its own address and its own account. *)
LEMMA ReserveKeeps ==
  ASSUME IInv, NEW c \in Call, NEW ip \in Ip, NEW account \in User \cup {None},
         NEW amount \in 1 .. MaxAmount, Reserve(c, ip, account, amount)
  PROVE  IInv'
<1>. DEFINE entry == [day |-> today, ip |-> ip, payer |-> account,
                      reserved |-> amount, actual |-> None]
            rows == Import(ip, account)
<1>1. /\ reservation[c] = None
      /\ reservation' = [reservation EXCEPT ![c] = entry]
      /\ alloc' = rows \cup {c} \X Scopes(ip, account)
      /\ today' = today
  BY DEF Reserve
<1>2. /\ rows \subseteq Call \X Scope
      /\ alloc \subseteq rows
      /\ \A d \in Call, s \in Scope :
           <<d, s>> \in rows =>
             /\ d \in Made
             /\ s \in Ip => s = reservation[d].ip
             /\ s \in User => reservation[d].payer \in {s, None}
  BY ImportKeepsOwner
<1>3. entry \in Reservation /\ entry # None
  BY NullAssumption DEF IInv, TypeOK, Reservation
<1>4. Scopes(ip, account) \subseteq Scope
  BY DEF Scopes, Scope
<1>5. TypeOK'
  BY <1>1, <1>2, <1>3, <1>4 DEF IInv, TypeOK
<1>6. \A d \in Call : IF d = c THEN reservation'[d] = entry ELSE reservation'[d] = reservation[d]
  BY <1>1 DEF IInv, TypeOK
<1>7. ChargedToOwner'
  <2>. SUFFICES ASSUME NEW d \in Call, NEW s \in Scope, <<d, s>> \in alloc'
                PROVE  /\ reservation'[d] # None
                       /\ s \in Ip => s = reservation'[d].ip
                       /\ s \in User => reservation'[d].payer \in {s, None}
    BY DEF ChargedToOwner
  <2>1. CASE <<d, s>> \in rows
    <3>1. d # c
      BY <2>1, <1>1, <1>2 DEF Made
    <3>. QED
      BY <2>1, <3>1, <1>2, <1>6 DEF Made
  <2>2. CASE d = c /\ s \in Scopes(ip, account)
    BY <2>2, <1>3, <1>6, ScopeAssumption DEF Scopes
  <2>. QED
    BY <1>1, <2>1, <2>2
<1>8. EveryChargeCounts'
  <2>. SUFFICES ASSUME NEW d \in Call, reservation'[d] # None,
                       NEW s \in Scopes(reservation'[d].ip, reservation'[d].payer)
                PROVE  <<d, s>> \in alloc'
    BY DEF EveryChargeCounts, Made, Scopes
  <2>1. CASE d = c
    BY <2>1, <1>1, <1>6
  <2>2. CASE d # c
    BY <2>2, <1>1, <1>2, <1>6 DEF IInv, EveryChargeCounts, Made
  <2>. QED
    BY <2>1, <2>2
<1>. QED
  BY <1>5, <1>7, <1>8 DEF IInv

(* A summary only adds associations the import makes. *)
LEMMA SummaryKeeps ==
  ASSUME IInv, NEW ip \in Ip, NEW account \in User, Summary(ip, account)
  PROVE  IInv'
<1>1. /\ Import(ip, account) \subseteq Call \X Scope
      /\ alloc \subseteq Import(ip, account)
      /\ \A d \in Call, s \in Scope :
           <<d, s>> \in Import(ip, account) =>
             /\ d \in Made
             /\ s \in Ip => s = reservation[d].ip
             /\ s \in User => reservation[d].payer \in {s, None}
  BY ImportKeepsOwner
<1>2. alloc' = Import(ip, account) /\ UNCHANGED <<today, reservation>>
  BY DEF Summary
<1>3. TypeOK'
  BY <1>1, <1>2 DEF IInv, TypeOK
<1>4. ChargedToOwner'
  BY <1>1, <1>2 DEF ChargedToOwner, Made
<1>5. EveryChargeCounts'
  BY <1>1, <1>2 DEF IInv, EveryChargeCounts, Made, Scopes
<1>. QED
  BY <1>3, <1>4, <1>5 DEF IInv

(* Settling changes what a reservation cost, never whose it is. *)
LEMMA SettleKeeps ==
  ASSUME IInv, NEW c \in Made, NEW actual \in 0 .. (reservation[c].reserved + 1),
         Settle(c, actual)
  PROVE  IInv'
<1>1. c \in Call /\ reservation[c] \in Reservation
  BY DEF IInv, TypeOK, Made
<1>2. actual \in 0 .. (MaxAmount + 1)
  BY <1>1, AmountAssumption DEF Reservation
<1>3. /\ today' = today /\ alloc' = alloc
      /\ reservation' = [reservation EXCEPT ![c].actual = actual]
  BY DEF Settle
<1>4. [reservation[c] EXCEPT !.actual = actual] \in Reservation
  BY <1>1, <1>2 DEF Reservation
<1>5. TypeOK'
  BY <1>1, <1>3, <1>4 DEF IInv, TypeOK
<1>6. \A d \in Call :
        /\ reservation'[d] = None <=> reservation[d] = None
        /\ reservation[d] # None => /\ reservation'[d].ip = reservation[d].ip
                                    /\ reservation'[d].payer = reservation[d].payer
  <2>1. reservation'[c] = [reservation[c] EXCEPT !.actual = actual]
    BY <1>1, <1>3 DEF IInv, TypeOK
  <2>2. reservation'[c] # None /\ reservation[c] # None
    BY <1>1, <1>4, <2>1, NullAssumption
  <2>3. reservation'[c].ip = reservation[c].ip /\ reservation'[c].payer = reservation[c].payer
    BY <1>1, <2>1 DEF Reservation
  <2>4. \A d \in Call \ {c} : reservation'[d] = reservation[d]
    BY <1>3 DEF IInv, TypeOK
  <2>. QED
    BY <2>2, <2>3, <2>4
<1>7. ChargedToOwner'
  BY <1>3, <1>6 DEF IInv, ChargedToOwner
<1>8. EveryChargeCounts'
  BY <1>3, <1>6 DEF IInv, EveryChargeCounts, Made, Scopes
<1>. QED
  BY <1>5, <1>7, <1>8 DEF IInv

(* The ledger's types and associations hold in every reachable state. *)
THEOREM Invariance == Spec => []IInv
<1>1. Init => IInv
  BY InitIInv
<1>2. IInv /\ [Next]_vars => IInv'
  <2>. SUFFICES ASSUME IInv, [Next]_vars PROVE IInv'
    OBVIOUS
  <2>1. ASSUME NEW c \in Call, NEW ip \in Ip, NEW account \in User \cup {None},
               NEW amount \in 1 .. MaxAmount, Reserve(c, ip, account, amount)
        PROVE  IInv'
    BY <2>1, ReserveKeeps
  <2>2. ASSUME NEW ip \in Ip, NEW account \in User, Summary(ip, account)
        PROVE  IInv'
    BY <2>2, SummaryKeeps
  <2>3. ASSUME NEW c \in Made, NEW actual \in 0 .. (reservation[c].reserved + 1),
               Settle(c, actual)
        PROVE  IInv'
    BY <2>3, SettleKeeps
  <2>4. CASE Midnight
    <3>1. TypeOK'
      BY <2>4, AmountAssumption DEF Midnight, IInv, TypeOK, Day
    <3>2. ChargedToOwner' /\ EveryChargeCounts'
      BY <2>4 DEF Midnight, IInv, ChargedToOwner, EveryChargeCounts, Made, Scopes
    <3>. QED
      BY <3>1, <3>2 DEF IInv
  <2>5. CASE UNCHANGED vars
    BY <2>5 DEF vars, IInv, TypeOK, Day, ChargedToOwner, EveryChargeCounts, Made, Scopes
  <2>. QED
    BY <2>1, <2>2, <2>3, <2>4, <2>5 DEF Next
<1>. QED
  BY <1>1, <1>2, PTL DEF Spec

(* No account ever pays for a call another account made, and an address only   *)
(* for calls made from it.                                                     *)
THEOREM NobodyElsePays == Spec => []ChargedToOwner
<1>1. IInv => ChargedToOwner
  BY DEF IInv
<1>. QED
  BY <1>1, Invariance, PTL

(* No reservation ever escapes the scopes that must count it.                  *)
THEOREM NothingEscapes == Spec => []EveryChargeCounts
<1>1. IInv => EveryChargeCounts
  BY DEF IInv
<1>. QED
  BY <1>1, Invariance, PTL
-----------------------------------------------------------------------------
(* Induction, of first order: what holds of a finite set if it holds of its smaller parts *)
(* holds of every part; and so for the numbers.                                            *)
LEMMA PartByPart ==
  ASSUME NEW All, IsFiniteSet(All), NEW Good,
         \A T \in SUBSET All : (\A U \in SUBSET T : U # T => U \in Good) => T \in Good
  PROVE  \A T \in SUBSET All : T \in Good
<1> DEFINE Bad == {T \in SUBSET All : T \notin Good}
           Less == StrictSubsetOrdering(All)
<1> SUFFICES ASSUME Bad # {} PROVE FALSE
  OBVIOUS
<1>1. IsWellFoundedOn(Less, SUBSET All)
  <2>1. FiniteSubsetsOf(All) = SUBSET All
    BY FS_FiniteSubsetsOfFinite
  <2>2. IsWellFoundedOn(Less, FiniteSubsetsOf(All))
    BY FS_StrictSubsetOrderingWellFounded
  <2> QED BY <2>1, <2>2
<1>2. Bad \subseteq SUBSET All
  OBVIOUS
<1> HIDE DEF Less, Bad
<1>3. PICK T \in Bad : \A U \in Bad : <<U, T>> \notin Less
  BY <1>1, <1>2, WFMin
<1>4. T \in SUBSET All /\ T \notin Good
  BY <1>3 DEF Bad
<1>5. ASSUME NEW U \in SUBSET T, U # T PROVE U \in Good
  <2>1. <<U, T>> \in Less
    BY <1>4, <1>5 DEF Less, StrictSubsetOrdering
  <2> QED BY <1>3, <1>4, <2>1 DEF Bad
<1> QED BY <1>4, <1>5

LEMMA OneByOne ==
  ASSUME NEW Good, 0 \in Good, \A n \in Nat : n \in Good => n + 1 \in Good
  PROVE  \A n \in Nat : n \in Good
<1> DEFINE Bad == {n \in Nat : n \notin Good}
           Less == OpToRel(<, Nat)
<1> SUFFICES ASSUME Bad # {} PROVE FALSE
  OBVIOUS
<1>1. IsWellFoundedOn(Less, Nat)
  BY NatLessThanWellFounded
<1>2. Bad \subseteq Nat
  OBVIOUS
<1> HIDE DEF Less, Bad
<1>3. PICK n \in Bad : \A m \in Bad : <<m, n>> \notin Less
  BY <1>1, <1>2, WFMin
<1>4. n \in Nat /\ n \notin Good /\ n # 0
  BY <1>3 DEF Bad
<1>5. n - 1 \in Nat /\ (n - 1) + 1 = n /\ n - 1 < n
  BY <1>4
<1>6. <<n - 1, n>> \in Less
  BY <1>4, <1>5 DEF Less, OpToRel
<1>7. n - 1 \in Good
  BY <1>3, <1>5, <1>6 DEF Bad
<1> QED BY <1>4, <1>5, <1>7

(* A sum over a finite set. *)
One(s) == CHOOSE x \in s : TRUE

Sums(g, f, D) == g = [s \in D |-> IF s = {} THEN 0 ELSE f[One(s)] + g[s \ {One(s)}]]

Table(f, All) == CHOOSE g : Sums(g, f, SUBSET All)

LEMMA SumIsOne == ASSUME NEW f, NEW All PROVE SumFunctionOnSet(f, All) = Table(f, All)[All]
BY DEF Table, SumFunctionOnSet, FoldFunctionOnSet, MapThenFoldSet, Sums, One

LEMMA OneIn == ASSUME NEW s, s # {} PROVE One(s) \in s
BY DEF One

LEMMA SumsExist == ASSUME NEW All, IsFiniteSet(All), NEW f PROVE \E g : Sums(g, f, SUBSET All)
<1> DEFINE Small(n) == {s \in SUBSET All : Cardinality(s) <= n}
           Good == {n \in Nat : \E g : Sums(g, f, Small(n))}
<1>0. \A s \in SUBSET All : IsFiniteSet(s) /\ Cardinality(s) \in Nat /\ (Cardinality(s) = 0 <=> s = {})
  BY FS_Subset, FS_CardinalityType, FS_EmptySet
<1>1. 0 \in Good
  <2>1. Small(0) = {{}}
    BY <1>0
  <2>2. Sums([s \in {{}} |-> 0], f, {{}})
    BY DEF Sums
  <2> QED BY <2>1, <2>2
<1>2. ASSUME NEW n \in Nat, n \in Good PROVE n + 1 \in Good
  <2>1. PICK g : Sums(g, f, Small(n))
    BY <1>2
  <2> DEFINE h == [s \in Small(n + 1) |-> IF s = {} THEN 0 ELSE f[One(s)] + g[s \ {One(s)}]]
  <2>2. ASSUME NEW s \in Small(n) PROVE s \in Small(n + 1) /\ h[s] = g[s]
    <3>1. s \in Small(n + 1)
      BY <1>0
    <3>2. g[s] = IF s = {} THEN 0 ELSE f[One(s)] + g[s \ {One(s)}]
      BY <2>1 DEF Sums
    <3> QED BY <3>1, <3>2
  <2>3. ASSUME NEW s \in Small(n + 1), s # {} PROVE s \ {One(s)} \in Small(n)
    <3>1. One(s) \in s /\ IsFiniteSet(s)
      BY <1>0, <2>3, OneIn
    <3>2. Cardinality(s \ {One(s)}) = Cardinality(s) - 1
      BY <3>1, FS_RemoveElement
    <3> QED BY <1>0, <3>2
  <2>4. Sums(h, f, Small(n + 1))
    <3> DEFINE Of(k, s) == IF s = {} THEN 0 ELSE f[One(s)] + k[s \ {One(s)}]
    <3>1. \A s \in Small(n + 1) : Of(g, s) = Of(h, s)
      BY <2>2, <2>3
    <3>2. h = [s \in Small(n + 1) |-> Of(g, s)]
      OBVIOUS
    <3> HIDE DEF h, Of, Small
    <3>3. h = [s \in Small(n + 1) |-> Of(h, s)]
      BY <3>1, <3>2
    <3>4. Sums(h, f, Small(n + 1)) <=> h = [s \in Small(n + 1) |-> Of(h, s)]
      BY DEF Sums, Of
    <3> QED BY <3>3, <3>4
  <2>5. \E k : Sums(k, f, Small(n + 1))
    BY <2>4
  <2> HIDE DEF h, Small
  <2> QED BY <2>5
<1>3. Cardinality(All) \in Good
  <2> HIDE DEF Good
  <2>1. \A n \in Nat : n \in Good
    BY <1>1, <1>2, OneByOne
  <2> QED BY <2>1, FS_CardinalityType
<1>4. Small(Cardinality(All)) = SUBSET All
  BY FS_Subset
<1> QED BY <1>3, <1>4

LEMMA SumEquation ==
  ASSUME NEW All, IsFiniteSet(All), NEW f
  PROVE  \A s \in SUBSET All : Table(f, All)[s] = IF s = {} THEN 0 ELSE f[One(s)] + Table(f, All)[s \ {One(s)}]
<1> DEFINE g == Table(f, All)
<1>1. Sums(g, f, SUBSET All)
  BY SumsExist DEF Table
<1> HIDE DEF g
<1>2. g = [s \in SUBSET All |-> IF s = {} THEN 0 ELSE f[One(s)] + g[s \ {One(s)}]]
  BY <1>1 DEF Sums
<1>3. ASSUME NEW s \in SUBSET All PROVE g[s] = IF s = {} THEN 0 ELSE f[One(s)] + g[s \ {One(s)}]
  BY <1>2
<1> QED BY <1>3 DEF g

(* It does not matter of which larger set the parts are taken. *)
LEMMA SumOfPart ==
  ASSUME NEW All, IsFiniteSet(All), NEW f, NEW T \in SUBSET All
  PROVE  SumFunctionOnSet(f, T) = Table(f, All)[T]
<1> DEFINE g == Table(f, All)
           h == Table(f, T)
           Good == {U \in SUBSET T : g[U] = h[U]}
<1>0. IsFiniteSet(T)
  BY FS_Subset
<1>1. \A s \in SUBSET All : g[s] = IF s = {} THEN 0 ELSE f[One(s)] + g[s \ {One(s)}]
  BY SumEquation
<1>2. \A s \in SUBSET T : h[s] = IF s = {} THEN 0 ELSE f[One(s)] + h[s \ {One(s)}]
  BY <1>0, SumEquation
<1> HIDE DEF g, h
<1>3. ASSUME NEW U \in SUBSET T, \A V \in SUBSET U : V # U => V \in Good PROVE U \in Good
  <2>1. CASE U = {}
    BY <1>1, <1>2, <2>1
  <2>2. CASE U # {}
    <3>1. U \ {One(U)} \in Good
      BY <1>3, <2>2, OneIn
    <3> QED BY <1>1, <1>2, <2>2, <3>1
  <2> QED BY <2>1, <2>2
<1>4. T \in Good
  <2> HIDE DEF Good
  <2>1. \A U \in SUBSET T : U \in Good
    BY <1>0, <1>3, PartByPart
  <2> QED BY <2>1
<1> QED BY <1>4, SumIsOne DEF g, h

LEMMA SumStep ==
  ASSUME NEW All, IsFiniteSet(All), NEW f
  PROVE  /\ SumFunctionOnSet(f, {}) = 0
         /\ All # {} => SumFunctionOnSet(f, All) = f[One(All)] + SumFunctionOnSet(f, All \ {One(All)})
<1> DEFINE g == Table(f, All)
<1>1. \A s \in SUBSET All : g[s] = IF s = {} THEN 0 ELSE f[One(s)] + g[s \ {One(s)}]
  BY SumEquation
<1>2. \A T \in SUBSET All : SumFunctionOnSet(f, T) = g[T]
  BY SumOfPart
<1> HIDE DEF g
<1> QED BY <1>1, <1>2

LEMMA SumType ==
  ASSUME NEW All, IsFiniteSet(All), NEW f, \A x \in All : f[x] \in Nat
  PROVE  SumFunctionOnSet(f, All) \in Nat
<1> DEFINE Good == {T \in SUBSET All : SumFunctionOnSet(f, T) \in Nat}
<1>1. ASSUME NEW T \in SUBSET All, \A U \in SUBSET T : U # T => U \in Good PROVE T \in Good
  <2>0. IsFiniteSet(T)
    BY FS_Subset
  <2>1. CASE T = {}
    <3>1. SumFunctionOnSet(f, {}) = 0
      BY <2>0, SumStep
    <3> QED BY <2>1, <3>1
  <2>2. CASE T # {}
    <3>1. One(T) \in T /\ T \ {One(T)} \in Good
      BY <1>1, <2>2, OneIn
    <3>2. SumFunctionOnSet(f, T) = f[One(T)] + SumFunctionOnSet(f, T \ {One(T)})
      BY <2>0, <2>2, SumStep
    <3> QED BY <3>1, <3>2
  <2> QED BY <2>1, <2>2
<1> HIDE DEF Good
<1>2. \A T \in SUBSET All : T \in Good
  BY <1>1, PartByPart
<1> QED BY <1>2 DEF Good

(* Whichever element is taken out. *)
LEMMA SumWithout ==
  ASSUME NEW All, IsFiniteSet(All), NEW f, \A x \in All : f[x] \in Nat, NEW c \in All
  PROVE  SumFunctionOnSet(f, All) = f[c] + SumFunctionOnSet(f, All \ {c})
<1> DEFINE Sum(T) == SumFunctionOnSet(f, T)
           Good == {T \in SUBSET All : \A x \in T : Sum(T) = f[x] + Sum(T \ {x})}
<1>0. \A T \in SUBSET All : IsFiniteSet(T) /\ Sum(T) \in Nat
  BY FS_Subset, SumType
<1>1. \A T \in SUBSET All : T # {} => Sum(T) = f[One(T)] + Sum(T \ {One(T)}) /\ One(T) \in T
  BY <1>0, SumStep, OneIn
<1> HIDE DEF Sum
<1>2. ASSUME NEW T \in SUBSET All, \A U \in SUBSET T : U # T => U \in Good PROVE T \in Good
  <2> SUFFICES ASSUME NEW x \in T PROVE Sum(T) = f[x] + Sum(T \ {x})
    OBVIOUS
  <2> DEFINE o == One(T)
  <2>1. Sum(T) = f[o] + Sum(T \ {o}) /\ o \in T
    BY <1>1
  <2> HIDE DEF o
  <2>2. CASE x = o
    BY <2>1, <2>2
  <2>3. CASE x # o
    <3>1. T \ {o} \in Good /\ T \ {x} \in Good /\ x \in T \ {o} /\ o \in T \ {x}
      BY <1>2, <2>1, <2>3
    <3>2. Sum(T \ {o}) = f[x] + Sum((T \ {o}) \ {x}) /\ Sum(T \ {x}) = f[o] + Sum((T \ {x}) \ {o})
      BY <3>1
    <3>3. (T \ {o}) \ {x} = (T \ {x}) \ {o} /\ (T \ {x}) \ {o} \in SUBSET All
      OBVIOUS
    <3>4. f[o] \in Nat /\ f[x] \in Nat /\ Sum((T \ {x}) \ {o}) \in Nat
      BY <1>0, <2>1, <3>3
    <3> DEFINE rest == Sum((T \ {x}) \ {o})
               a == f[o]
               b == f[x]
    <3>5. Sum(T) = a + (b + rest) /\ Sum(T \ {x}) = a + rest
      BY <2>1, <3>2, <3>3
    <3>6. a \in Nat /\ b \in Nat /\ rest \in Nat
      BY <3>4
    <3> HIDE DEF rest, a, b
    <3>7. a + (b + rest) = b + (a + rest)
      BY <3>6
    <3>8. Sum(T) = b + Sum(T \ {x})
      BY <3>5, <3>7
    <3> QED BY <3>8 DEF b
  <2> QED BY <2>2, <2>3
<1> HIDE DEF Good
<1>3. All \in Good
  BY <1>2, PartByPart
<1> QED BY <1>3 DEF Good, Sum

(* Of a part, and of less, the sum is no larger. *)
LEMMA SumAtMost ==
  ASSUME NEW All, IsFiniteSet(All), NEW f, NEW g, NEW T \in SUBSET All,
         \A x \in All : g[x] \in Nat, \A x \in T : f[x] \in Nat /\ f[x] <= g[x]
  PROVE  SumFunctionOnSet(f, T) <= SumFunctionOnSet(g, All)
<1> DEFINE F(U) == SumFunctionOnSet(f, U \cap T)
           G(U) == SumFunctionOnSet(g, U)
           Good == {U \in SUBSET All : F(U) <= G(U)}
<1>0. \A U \in SUBSET All : IsFiniteSet(U) /\ IsFiniteSet(U \cap T) /\ F(U) \in Nat /\ G(U) \in Nat
  <2> SUFFICES ASSUME NEW U \in SUBSET All
               PROVE  IsFiniteSet(U) /\ IsFiniteSet(U \cap T) /\ F(U) \in Nat /\ G(U) \in Nat
    OBVIOUS
  <2>1. IsFiniteSet(U) /\ IsFiniteSet(U \cap T)
    BY FS_Subset
  <2>2. (\A x \in U \cap T : f[x] \in Nat) /\ \A x \in U : g[x] \in Nat
    OBVIOUS
  <2> QED BY <2>1, <2>2, SumType
<1>1. ASSUME NEW U \in SUBSET All, \A V \in SUBSET U : V # U => V \in Good PROVE U \in Good
  <2>1. CASE U = {}
    <3>1. F(U) = 0 /\ G(U) = 0
      <4>1. U \cap T = {} /\ IsFiniteSet({})
        BY <2>1, FS_EmptySet
      <4> QED BY <2>1, <4>1, SumStep
    <3> QED BY <3>1
  <2>2. ASSUME NEW c \in U PROVE U \in Good
    <3>1. U \ {c} \in Good /\ U \ {c} \in SUBSET All
      BY <1>1, <2>2
    <3>2. G(U) = g[c] + G(U \ {c})
      <4>1. \A x \in U : g[x] \in Nat
        OBVIOUS
      <4> QED BY <1>0, <2>2, <4>1, SumWithout
    <3>3. CASE c \in T
      <4>1. c \in U \cap T /\ (U \cap T) \ {c} = (U \ {c}) \cap T /\ \A x \in U \cap T : f[x] \in Nat
        BY <2>2, <3>3
      <4>2. F(U) = f[c] + F(U \ {c})
        <5>1. IsFiniteSet(U \cap T)
          BY <1>0
        <5>2. SumFunctionOnSet(f, U \cap T) = f[c] + SumFunctionOnSet(f, (U \cap T) \ {c})
          BY <4>1, <5>1, SumWithout
        <5> QED BY <4>1, <5>2
      <4> HIDE DEF F, G
      <4>3. f[c] <= g[c] /\ f[c] \in Nat /\ g[c] \in Nat /\ F(U \ {c}) <= G(U \ {c}) /\ F(U \ {c}) \in Nat /\ G(U \ {c}) \in Nat
        BY <1>0, <2>2, <3>1, <3>3
      <4> QED BY <3>2, <4>2, <4>3
    <3>4. CASE c \notin T
      <4>1. F(U) = F(U \ {c})
        <5>1. U \cap T = (U \ {c}) \cap T
          BY <3>4
        <5> QED BY <5>1
      <4> HIDE DEF F, G
      <4>3. g[c] \in Nat /\ F(U \ {c}) <= G(U \ {c}) /\ F(U \ {c}) \in Nat /\ G(U \ {c}) \in Nat
        BY <1>0, <2>2, <3>1
      <4> QED BY <3>2, <4>1, <4>3
    <3> QED BY <3>3, <3>4
  <2> QED BY <2>1, <2>2
<1> HIDE DEF Good
<1>2. All \in Good
  BY <1>1, PartByPart
<1>3. All \cap T = T
  OBVIOUS
<1> QED BY <1>2, <1>3 DEF Good

-----------------------------------------------------------------------------
(* What an admission goes by: the rows that were made are finitely many. *)
LEMMA ChargesType ==
  ASSUME IInv
  PROVE  /\ \A c \in Made : /\ Charges[c] \in Nat /\ Admissions[c] \in Nat /\ Admissions[c] <= Charges[c]
                            /\ Charges[c] = Charge(c) /\ Admissions[c] = Admitted(c)
                            /\ reservation[c] \in Reservation
         /\ Made \subseteq Call
<1>1. ASSUME NEW c \in Made
      PROVE  /\ reservation[c] \in Reservation
             /\ Charge(c) \in Nat /\ Admitted(c) \in Nat /\ Admitted(c) <= Charge(c)
  <2>1. reservation[c] \in Reservation
    BY <1>1 DEF IInv, TypeOK, Made
  <2>2. /\ reservation[c].reserved \in Nat
        /\ reservation[c].actual = None \/ reservation[c].actual \in Nat
    BY <2>1, AmountAssumption DEF Reservation
  <2> QED BY <2>1, <2>2 DEF Charge, Admitted
<1> QED BY <1>1 DEF Charges, Admissions, Made

Within == IInv /\ IsFiniteSet(Made) /\ WithinLimit

(* A row that is made adds to the sums that its admission saw. *)
LEMMA ReserveWithin ==
  ASSUME Within, IInv', NEW c \in Call, NEW ip \in Ip, NEW account \in User \cup {None}, NEW amount \in 1 .. MaxAmount,
         Reserve(c, ip, account, amount)
  PROVE  Within'
<1> DEFINE new == [day |-> today, ip |-> ip, payer |-> account, reserved |-> amount, actual |-> None]
<1>1. /\ reservation[c] = None /\ reservation' = [reservation EXCEPT ![c] = new] /\ today' = today
      /\ \A s \in Scopes(ip, account) : Total(Import(ip, account), s) + amount <= Limit
  BY DEF Reserve
<1>2. reservation'[c] = new /\ \A b \in Call : b # c => reservation'[b] = reservation[b]
  BY <1>1 DEF Within, IInv, TypeOK
<1>3. new # None /\ new.day = today /\ new.ip = ip /\ new.payer = account /\ new.reserved = amount /\ new.actual = None
  <2>1. new \in Reservation
    BY AmountAssumption DEF Reservation, Within, IInv, TypeOK
  <2> QED BY <2>1, NullAssumption
<1> HIDE DEF new
<1>4. Made' = Made \cup {c} /\ c \notin Made
  BY <1>1, <1>2, <1>3 DEF Made
<1>5. IsFiniteSet(Made')
  BY <1>4, FS_AddElement DEF Within
<1>6. /\ Admissions'[c] = amount /\ amount \in Nat /\ Limit \in Nat
      /\ \A b \in Made : Admissions'[b] = Admissions[b]
  <2>1. \A b \in Made' : Admissions'[b] = Admitted(b)'
    BY DEF Admissions
  <2>2. Admitted(c)' = amount
    BY <1>2, <1>3 DEF Admitted
  <2>3. ASSUME NEW b \in Made PROVE Admitted(b)' = Admissions[b]
    <3>1. b \in Call /\ b # c
      BY <1>4 DEF Made
    <3> QED BY <1>2, <3>1 DEF Admitted, Admissions
  <2> QED BY <1>4, <2>1, <2>2, <2>3, AmountAssumption
(* The sum over what was there, at the scope that was charged. *)
<1>7. ASSUME NEW s \in Scopes(ip, account), NEW old, old \subseteq Made,
             \A b \in old : <<b, s>> \in alloc /\ reservation[b].day = today
      PROVE  SumFunctionOnSet(Admissions', old \cup {c}) <= Limit
  <2> DEFINE rows == {b \in Made : <<b, s>> \in Import(ip, account) /\ reservation[b].day = today}
  <2>1. old \subseteq rows /\ rows \subseteq Made
    BY <1>7 DEF Import
  <2>2. IsFiniteSet(rows) /\ IsFiniteSet(old) /\ IsFiniteSet(old \cup {c})
    BY <2>1, FS_Subset, FS_AddElement DEF Within
  <2>3. \A b \in Made : Charges[b] \in Nat /\ Admissions[b] \in Nat /\ Admissions[b] <= Charges[b]
    BY ChargesType DEF Within
  <2>4. (\A x \in rows : Charges[x] \in Nat) /\ \A x \in old : Admissions'[x] \in Nat /\ Admissions'[x] <= Charges[x]
    BY <1>6, <1>7, <2>1, <2>3
  <2>5. SumFunctionOnSet(Admissions', old) <= SumFunctionOnSet(Charges, rows)
    <3> HIDE DEF rows
    <3> QED BY <2>1, <2>2, <2>4, SumAtMost
  <2>6. SumFunctionOnSet(Admissions', old \cup {c}) = amount + SumFunctionOnSet(Admissions', old)
    <3>1. \A x \in old \cup {c} : Admissions'[x] \in Nat
      BY <1>6, <2>4
    <3>2. SumFunctionOnSet(Admissions', old \cup {c}) = Admissions'[c] + SumFunctionOnSet(Admissions', (old \cup {c}) \ {c})
      BY <2>2, <3>1, SumWithout
    <3>3. (old \cup {c}) \ {c} = old
      BY <1>4, <1>7
    <3> QED BY <1>6, <3>2, <3>3
  <2>7. SumFunctionOnSet(Charges, rows) + amount <= Limit
    BY <1>1, <1>7 DEF Total
  <2>8. SumFunctionOnSet(Admissions', old) \in Nat /\ SumFunctionOnSet(Charges, rows) \in Nat
    <3> HIDE DEF rows
    <3> QED BY <2>2, <2>4, SumType
  <2> HIDE DEF rows
  <2> QED BY <1>6, <2>5, <2>6, <2>7, <2>8
(* Where the new row does not count. *)
<1>8. ASSUME NEW old, old \subseteq Made, SumFunctionOnSet(Admissions, old) <= Limit
      PROVE  SumFunctionOnSet(Admissions', old) <= Limit
  <2>1. IsFiniteSet(old)
    BY <1>8, FS_Subset DEF Within
  <2>2. \A x \in old : Admissions[x] \in Nat /\ Admissions'[x] \in Nat /\ Admissions'[x] <= Admissions[x]
    <3>1. \A b \in Made : Admissions[b] \in Nat
      BY ChargesType DEF Within
    <3> QED BY <1>6, <1>8, <3>1
  <2>3. SumFunctionOnSet(Admissions', old) <= SumFunctionOnSet(Admissions, old)
    BY <2>1, <2>2, SumAtMost
  <2>4. SumFunctionOnSet(Admissions', old) \in Nat /\ SumFunctionOnSet(Admissions, old) \in Nat
    BY <2>1, <2>2, SumType
  <2> QED BY <1>6, <1>8, <2>3, <2>4
<1>9. ASSUME NEW i \in Ip, NEW d \in Day
      PROVE  SumFunctionOnSet(Admissions', {b \in Made' : reservation'[b].ip = i /\ reservation'[b].day = d}) <= Limit
  <2> DEFINE old == {b \in Made : reservation[b].ip = i /\ reservation[b].day = d}
             T == {b \in Made' : reservation'[b].ip = i /\ reservation'[b].day = d}
  <2>0. \A b \in Made : b \in Call /\ b # c /\ reservation'[b] = reservation[b]
    BY <1>2, <1>4 DEF Made
  <2>1. CASE i = ip /\ d = today
    <3>1. T = old \cup {c}
      BY <1>2, <1>3, <1>4, <2>0, <2>1
    <3>2. i \in Scopes(ip, account) /\ \A b \in old : <<b, i>> \in alloc /\ reservation[b].day = today
      BY <2>1 DEF Scopes, Within, IInv, EveryChargeCounts
    <3> QED BY <1>7, <3>1, <3>2
  <2>2. CASE ~(i = ip /\ d = today)
    <3>1. T = old
      BY <1>2, <1>3, <1>4, <2>0, <2>2
    <3>2. SumFunctionOnSet(Admissions, old) <= Limit
      BY DEF Within, WithinLimit, AddressWithinLimit
    <3> QED BY <1>8, <3>1, <3>2
  <2> QED BY <2>1, <2>2
<1>10. ASSUME NEW u \in User, NEW d \in Day
       PROVE  SumFunctionOnSet(Admissions', {b \in Made' : reservation'[b].payer = u /\ reservation'[b].day = d}) <= Limit
  <2> DEFINE old == {b \in Made : reservation[b].payer = u /\ reservation[b].day = d}
             T == {b \in Made' : reservation'[b].payer = u /\ reservation'[b].day = d}
  <2>0. \A b \in Made : b \in Call /\ b # c /\ reservation'[b] = reservation[b]
    BY <1>2, <1>4 DEF Made
  <2>1. CASE u = account /\ d = today
    <3>1. T = old \cup {c}
      BY <1>2, <1>3, <1>4, <2>0, <2>1
    <3>2. u \in Scopes(ip, account) /\ \A b \in old : <<b, u>> \in alloc /\ reservation[b].day = today
      BY <2>1 DEF Scopes, Within, IInv, EveryChargeCounts, Scope
    <3> QED BY <1>7, <3>1, <3>2
  <2>2. CASE ~(u = account /\ d = today)
    <3>1. T = old
      BY <1>2, <1>3, <1>4, <2>0, <2>2
    <3>2. SumFunctionOnSet(Admissions, old) <= Limit
      BY DEF Within, WithinLimit, AccountWithinLimit
    <3> QED BY <1>8, <3>1, <3>2
  <2> QED BY <2>1, <2>2
<1> QED BY <1>5, <1>9, <1>10 DEF Within, WithinLimit, AddressWithinLimit, AccountWithinLimit

(* Known usage is at most what was admitted, or what was admitted stands. *)
LEMMA SettleWithin ==
  ASSUME Within, IInv', NEW c \in Made, NEW actual \in 0 .. (reservation[c].reserved + 1), Settle(c, actual)
  PROVE  Within'
<1> DEFINE new == [reservation[c] EXCEPT !.actual = actual]
<1>1. c \in Call /\ reservation[c] \in Reservation /\ reservation[c].actual = None
  BY DEF Within, IInv, TypeOK, Made, Settle
<1>2. reservation'[c] = new /\ \A b \in Call : b # c => reservation'[b] = reservation[b]
  BY <1>1 DEF Within, IInv, TypeOK, Settle
<1>3. /\ new.day = reservation[c].day /\ new.ip = reservation[c].ip /\ new.payer = reservation[c].payer
      /\ new.reserved = reservation[c].reserved /\ new.actual = actual /\ reservation[c].reserved \in Nat /\ actual \in Nat
  BY <1>1, AmountAssumption DEF Reservation
<1>4. new # None /\ Made' = Made
  <2>1. actual \in 0 .. (MaxAmount + 1)
    BY <1>1, AmountAssumption DEF Reservation
  <2>2. new \in Reservation
    BY <1>1, <2>1 DEF Reservation
  <2>3. new # None
    BY <2>2, NullAssumption
  <2> HIDE DEF new
  <2> QED BY <1>1, <1>2, <2>3 DEF Made
<1> HIDE DEF new
<1>5. \A b \in Made : /\ Admissions[b] \in Nat /\ Admissions'[b] \in Nat /\ Admissions'[b] <= Admissions[b]
                      /\ reservation'[b].day = reservation[b].day /\ reservation'[b].ip = reservation[b].ip
                      /\ reservation'[b].payer = reservation[b].payer
  <2>1. \A b \in Made : /\ Admissions'[b] = Admitted(b)' /\ Admissions[b] = Admitted(b) /\ Admissions[b] \in Nat /\ b \in Call
    BY <1>4, ChargesType DEF Admissions, Within
  <2>2. Admitted(c)' \in Nat /\ Admitted(c)' <= Admitted(c)
    BY <1>1, <1>2, <1>3 DEF Admitted
  <2>3. \A b \in Made : b # c => Admitted(b)' = Admitted(b)
    BY <1>2, <2>1 DEF Admitted
  <2> QED BY <1>2, <1>3, <2>1, <2>2, <2>3
<1>6. ASSUME NEW old, old \subseteq Made, SumFunctionOnSet(Admissions, old) <= Limit
      PROVE  SumFunctionOnSet(Admissions', old) <= Limit
  <2>1. IsFiniteSet(old)
    BY <1>6, FS_Subset DEF Within
  <2>2. \A x \in old : Admissions[x] \in Nat /\ Admissions'[x] \in Nat /\ Admissions'[x] <= Admissions[x]
    BY <1>5, <1>6
  <2>3. SumFunctionOnSet(Admissions', old) <= SumFunctionOnSet(Admissions, old)
    BY <2>1, <2>2, SumAtMost
  <2>4. SumFunctionOnSet(Admissions', old) \in Nat /\ SumFunctionOnSet(Admissions, old) \in Nat
    BY <2>1, <2>2, SumType
  <2> QED BY <1>6, <2>3, <2>4, AmountAssumption
<1>7. ASSUME NEW i \in Ip, NEW d \in Day
      PROVE  SumFunctionOnSet(Admissions', {b \in Made' : reservation'[b].ip = i /\ reservation'[b].day = d}) <= Limit
  <2>1. {b \in Made' : reservation'[b].ip = i /\ reservation'[b].day = d} = {b \in Made : reservation[b].ip = i /\ reservation[b].day = d}
    BY <1>4, <1>5
  <2>2. SumFunctionOnSet(Admissions, {b \in Made : reservation[b].ip = i /\ reservation[b].day = d}) <= Limit
    BY DEF Within, WithinLimit, AddressWithinLimit
  <2> QED BY <1>6, <2>1, <2>2
<1>8. ASSUME NEW u \in User, NEW d \in Day
      PROVE  SumFunctionOnSet(Admissions', {b \in Made' : reservation'[b].payer = u /\ reservation'[b].day = d}) <= Limit
  <2>1. {b \in Made' : reservation'[b].payer = u /\ reservation'[b].day = d} = {b \in Made : reservation[b].payer = u /\ reservation[b].day = d}
    BY <1>4, <1>5
  <2>2. SumFunctionOnSet(Admissions, {b \in Made : reservation[b].payer = u /\ reservation[b].day = d}) <= Limit
    BY DEF Within, WithinLimit, AccountWithinLimit
  <2> QED BY <1>6, <2>1, <2>2
<1> QED BY <1>4, <1>7, <1>8 DEF Within, WithinLimit, AddressWithinLimit, AccountWithinLimit

LEMMA WithinStays == ASSUME Within, IInv', UNCHANGED reservation PROVE Within'
BY DEF Within, WithinLimit, AddressWithinLimit, AccountWithinLimit, Made, Admissions, Admitted

LEMMA WithinHolds == Spec => []Within
<1>1. Init => Within
  <2> SUFFICES ASSUME Init PROVE Within
    OBVIOUS
  <2>1. Made = {} /\ IsFiniteSet({}) /\ Limit \in Nat
    BY FS_EmptySet, AmountAssumption DEF Init, Made
  <2>2. SumFunctionOnSet(Admissions, {}) = 0
    BY <2>1, SumStep
  <2>3. /\ \A i, d : {b \in Made : reservation[b].ip = i /\ reservation[b].day = d} = {}
        /\ \A u, d : {b \in Made : reservation[b].payer = u /\ reservation[b].day = d} = {}
    BY <2>1
  <2>4. WithinLimit
    BY <2>1, <2>2, <2>3 DEF WithinLimit, AddressWithinLimit, AccountWithinLimit
  <2> QED BY <2>1, <2>4, InitIInv DEF Within
<1>2. Within /\ IInv' /\ [Next]_vars => Within'
  BY ReserveWithin, SettleWithin, WithinStays DEF Next, Summary, Midnight, vars
<1> QED BY <1>1, <1>2, Invariance, PTL DEF Spec

(* What an account and the guests at an address have been charged that day. *)
Before(account, ip) ==
  {b \in Made : /\ reservation[b].day = today
                /\ \/ reservation[b].payer = account
                   \/ reservation[b].payer = None
                      /\ reservation[b].ip = ip}

(* What an admission for an account adds to is all that the account and the guests at its *)
(* address have been charged that day.                                                     *)
LEMMA GuestsFollow ==
  ASSUME Within, NEW c \in Call, NEW ip \in Ip, NEW account \in User, NEW amount \in 1 .. MaxAmount,
         Reserve(c, ip, account, amount)
  PROVE  amount + SumFunctionOnSet(Charges, Before(account, ip)) <= Limit
<1> DEFINE old == Before(account, ip)
           rows == {b \in Made : <<b, account>> \in Import(ip, account) /\ reservation[b].day = today}
<1>1. SumFunctionOnSet(Charges, rows) + amount <= Limit
  <2>1. account \in Scopes(ip, account)
    BY DEF Scopes
  <2> QED BY <2>1 DEF Reserve, Total
<1>2. old \subseteq rows
  <2> SUFFICES ASSUME NEW b \in old PROVE <<b, account>> \in Import(ip, account)
    BY DEF Before
  <2>0. /\ b \in Made /\ reservation[b].day = today
        /\ reservation[b].payer = account \/ (reservation[b].payer = None /\ reservation[b].ip = ip)
    BY DEF Before
  <2>1. CASE reservation[b].payer = account
    <3>1. account \in Scopes(reservation[b].ip, reservation[b].payer)
      BY <2>1 DEF Scopes
    <3> QED BY <2>0, <3>1 DEF Within, IInv, EveryChargeCounts, Import
  <2>2. CASE reservation[b].payer = None /\ reservation[b].ip = ip
    BY <2>0, <2>2 DEF Import, GuestCalls
  <2> QED BY <2>0, <2>1, <2>2
<1>3. IsFiniteSet(rows) /\ IsFiniteSet(old) /\ \A x \in rows : Charges[x] \in Nat
  BY FS_Subset, ChargesType DEF Within, Before
<1> HIDE DEF old, rows
<1>4. \A x \in old : Charges[x] \in Nat /\ Charges[x] <= Charges[x]
  BY <1>2, <1>3
<1>5. SumFunctionOnSet(Charges, old) <= SumFunctionOnSet(Charges, rows)
  BY <1>2, <1>3, <1>4, SumAtMost
<1>6. SumFunctionOnSet(Charges, old) \in Nat /\ SumFunctionOnSet(Charges, rows) \in Nat /\ Limit \in Nat /\ amount \in Nat
  BY <1>3, <1>4, SumType, AmountAssumption
<1>7. amount + SumFunctionOnSet(Charges, old) <= Limit
  BY <1>1, <1>5, <1>6
<1> QED BY <1>7 DEF old

(* What the call that is admitted for an account adds to. *)
Follows(c) ==
  reservation[c] = None /\ reservation'[c] # None /\ reservation'[c].payer \in User =>
    reservation'[c].reserved
    + SumFunctionOnSet(Charges, Before(reservation'[c].payer, reservation'[c].ip))
    <= Limit

(* No address and no account is admitted beyond the limit, in whatever order calls are  *)
(* reserved and settled and guests sign in, and an account that signs in takes over      *)
(* what guests at its address have spent (billing/service.py, docs/billing.md).          *)
THEOREM SpendingIsBounded == Spec => SpendingHolds
<1>1. Within => WithinLimit
  BY DEF Within
<1>2. ASSUME Within, Next, NEW c \in Call, reservation[c] = None, reservation'[c] # None, reservation'[c].payer \in User
      PROVE  Follows(c)
  <2>1. PICK d \in Call, ip \in Ip, account \in User \cup {None}, amount \in 1 .. MaxAmount : Reserve(d, ip, account, amount)
    <3>1. reservation' # reservation
      BY <1>2
    <3>2. ASSUME NEW d \in Made, NEW actual \in 0 .. (reservation[d].reserved + 1), Settle(d, actual) PROVE FALSE
      BY <1>2, <3>2 DEF Settle, Made, Within, IInv, TypeOK
    <3> QED BY <1>2, <3>1, <3>2 DEF Next, Summary, Midnight
  <2> DEFINE new == [day |-> today, ip |-> ip, payer |-> account, reserved |-> amount, actual |-> None]
  <2>2. reservation' = [reservation EXCEPT ![d] = new]
    BY <2>1 DEF Reserve
  <2>3. d = c /\ reservation'[c] = new
    BY <1>2, <2>2 DEF Within, IInv, TypeOK
  <2>4. reservation'[c].reserved = amount /\ reservation'[c].payer = account /\ reservation'[c].ip = ip /\ account \in User
    BY <1>2, <2>3
  <2>5. amount + SumFunctionOnSet(Charges, Before(account, ip)) <= Limit
    BY <1>2, <2>1, <2>4, GuestsFollow
  <2>6. reservation'[c].reserved + SumFunctionOnSet(Charges, Before(reservation'[c].payer, reservation'[c].ip)) <= Limit
    <3> HIDE DEF new
    <3> QED BY <2>4, <2>5
  <2> QED BY <2>6 DEF Follows
<1>3. Within /\ [Next]_vars => [\A c \in Call : Follows(c)]_vars
  <2> SUFFICES ASSUME Within, Next, NEW c \in Call PROVE Follows(c)
    OBVIOUS
  <2>1. CASE reservation[c] = None /\ reservation'[c] # None /\ reservation'[c].payer \in User
    BY <1>2, <2>1
  <2> QED BY <2>1 DEF Follows
<1>4. Spec => []WithinLimit
  BY <1>1, WithinHolds, PTL
<1>5. Spec => GuestSpendingFollows
  BY <1>3, WithinHolds, PTL DEF Spec, GuestSpendingFollows, Follows, Before
<1> QED BY <1>4, <1>5 DEF SpendingHolds

-----------------------------------------------------------------------------
(* Calls of providers, and what their attempts reserve. *)

(* What one call of a provider begins with. *)
LEMMA CallInit == ASSUME P!Settings, P!Init PROVE P!IInv
<1>1. ledger = <<>> /\ reports = <<>> /\ Len(ledger) = 0 /\ Len(reports) = 0
  BY DEF P!Init
<1>2. P!TypeOK
  BY <1>1 DEF P!Init, P!TypeOK, P!Settings
<1>3. P!EachAttemptReserved /\ P!KnownUsageKept /\ P!AttemptsBounded
  BY <1>1 DEF P!Init, P!EachAttemptReserved, P!KnownUsageKept, P!AttemptsBounded, P!Settings
<1>4. P!StepConsistent /\ P!TicketConsistent
  BY <1>1 DEF P!Init, P!StepConsistent, P!TicketConsistent, P!Kind
<1>5. P!CountConsistent
  BY <1>1 DEF P!Init, P!CountConsistent, P!Kind, P!Allowed, P!Settings, P!KindOfCall
<1> QED BY <1>2, <1>3, <1>4, <1>5 DEF P!IInv

Books == <<call, work, payer, ledger, reports>>

(* Work that ends leaves the books as they are. *)
LEMMA CallEnds ==
  ASSUME P!Settings, P!IInv, step # "ended", step' = "ended",
         result' \in {"ok", "abandoned"} \cup P!Failures,
         UNCHANGED Books, UNCHANGED <<ticket, format, repairs, batch, tries>>
  PROVE  P!IInv'
<1>1. P!Metered' = P!Metered /\ P!Unpriced' = P!Unpriced
  BY DEF P!Metered, P!Unpriced, Books
<1>2. P!TypeOK'
  BY DEF P!IInv, P!TypeOK, Books
<1>3. P!EachAttemptReserved' /\ P!AttemptsBounded'
  BY <1>1 DEF P!IInv, P!EachAttemptReserved, P!AttemptsBounded, Books
<1>4. P!KnownUsageKept'
  <2>1. result # "budget_unavailable"
    BY DEF P!IInv, P!StepConsistent, P!Settings, P!Failures
  <2> QED BY <2>1 DEF P!IInv, P!KnownUsageKept, Books
<1>5. P!StepConsistent' /\ P!TicketConsistent' /\ P!CountConsistent'
  BY <1>1 DEF P!IInv, P!StepConsistent, P!TicketConsistent, P!CountConsistent, P!Kind, Books
<1> QED BY <1>2, <1>3, <1>4, <1>5 DEF P!IInv

(* The payer is named before anything is booked. *)
LEMMA BindKeeps == ASSUME P!Settings, P!IInv, P!Bind PROVE P!IInv'
<1>1. /\ step = "bind" /\ ledger = <<>> /\ reports = <<>> /\ ledger' = <<>> /\ reports' = <<>>
      /\ UNCHANGED <<call, work, ticket, format, repairs, batch, tries>>
      /\ step' \in {"ended", "admit"} /\ (step' = "admit" => result' = Null)
      /\ result' \in {Null, "budget_unavailable"}
  BY DEF P!Bind, P!End, P!IInv, P!StepConsistent, P!Progress, P!Unmoved
<1>2. payer' \in {"operator", "visitor", Null}
  BY DEF P!Bind, P!Payer, P!RequestPayer, P!JobPayer, P!RunPayer, P!IInv, P!TypeOK, P!Work
<1>3. P!TypeOK'
  BY <1>1, <1>2 DEF P!IInv, P!TypeOK, P!Failures
<1>4. P!EachAttemptReserved' /\ P!KnownUsageKept' /\ P!AttemptsBounded'
  BY <1>1 DEF P!IInv, P!EachAttemptReserved, P!KnownUsageKept, P!AttemptsBounded, P!Settings
<1>5. P!StepConsistent' /\ P!TicketConsistent'
  BY <1>1 DEF P!StepConsistent, P!TicketConsistent, P!Kind
<1>6. P!CountConsistent'
  BY <1>1 DEF P!IInv, P!CountConsistent, P!Kind, P!Allowed
<1> QED BY <1>3, <1>4, <1>5, <1>6 DEF P!IInv

(* A metered attempt gets a reservation that no other attempt has. *)
LEMMA AdmitKeeps == ASSUME P!Settings, P!IInv, P!Admit PROVE P!IInv'
<1>1. step = "admit" /\ result = Null
  BY DEF P!Admit, P!IInv, P!StepConsistent
<1>2. UNCHANGED <<call, work, payer, reports, format, repairs, batch, tries>>
  BY DEF P!Admit, P!Progress, P!Unmoved
<1>3. P!Metered' = P!Metered /\ P!Unpriced' = P!Unpriced
  BY <1>2 DEF P!Metered, P!Unpriced
<1>4. CASE step' = "ended"
  <2>1. result' \in P!Failures /\ UNCHANGED <<ledger, ticket>>
    BY <1>1, <1>4 DEF P!Admit, P!End, P!Failures
  <2> QED BY <1>1, <1>2, <1>4, <2>1, CallEnds DEF Books
<1>5. CASE ~P!Metered /\ ledger' = ledger /\ ticket' = 0 /\ step' = "request" /\ result' = result
  <2>1. P!TypeOK'
    BY <1>2, <1>5 DEF P!IInv, P!TypeOK, P!TicketConsistent
  <2>2. P!EachAttemptReserved' /\ P!AttemptsBounded'
    BY <1>2, <1>3, <1>5 DEF P!IInv, P!EachAttemptReserved, P!AttemptsBounded
  <2>3. P!KnownUsageKept'
    BY <1>2, <1>5 DEF P!IInv, P!KnownUsageKept
  <2>4. P!StepConsistent' /\ P!TicketConsistent' /\ P!CountConsistent'
    BY <1>1, <1>2, <1>3, <1>5 DEF P!IInv, P!StepConsistent, P!TicketConsistent, P!CountConsistent, P!Kind, P!Allowed
  <2> QED BY <2>1, <2>2, <2>3, <2>4 DEF P!IInv
<1>6. CASE /\ P!Metered /\ ~P!Unpriced /\ ledger' = Append(ledger, Null) /\ ticket' = Len(ledger')
           /\ step' = "request" /\ result' = result
  <2>1. /\ ledger' \in Seq(Usages \cup {Null}) /\ Len(ledger') = Len(ledger) + 1 /\ Len(ledger) \in Nat
        /\ \A i \in 1 .. Len(ledger) : ledger'[i] = ledger[i]
        /\ ledger'[Len(ledger) + 1] = Null
    BY <1>6 DEF P!IInv, P!TicketConsistent
  <2>2. DOMAIN ledger = 1 .. Len(ledger) /\ DOMAIN ledger' = 1 .. Len(ledger')
    BY <2>1, LenProperties DEF P!IInv, P!TicketConsistent
  <2>3. \A i \in DOMAIN reports : reports[i].ticket \in 0 .. Len(ledger) /\ reports[i].usages \subseteq Usages
    BY DEF P!IInv, P!TypeOK
  <2>4. P!TypeOK'
    <3>1. \A i \in DOMAIN ledger' : ledger'[i] \in Usages \cup {Null}
      BY <2>1, <2>2, ElementOfSeq
    <3>2. \A i \in DOMAIN reports' : reports'[i] \in [ticket : 0 .. Len(ledger'), usages : SUBSET Usages]
      BY <1>2, <2>1 DEF P!IInv, P!TypeOK
    <3> QED BY <1>2, <1>6, <2>1, <3>1, <3>2 DEF P!IInv, P!TypeOK
  <2>5. P!EachAttemptReserved'
    BY <1>2, <1>3, <2>1, <2>2, <2>3 DEF P!IInv, P!EachAttemptReserved
  <2>6. P!KnownUsageKept' /\ P!AttemptsBounded'
    BY <1>2, <1>3, <1>6, <2>1, <2>2, <2>3 DEF P!IInv, P!KnownUsageKept, P!AttemptsBounded
  <2>7. P!StepConsistent' /\ P!CountConsistent'
    BY <1>1, <1>2, <1>3, <1>6 DEF P!IInv, P!StepConsistent, P!CountConsistent, P!Kind, P!Allowed
  <2>8. P!TicketConsistent'
    BY <1>2, <1>3, <1>6, <2>1, <2>3 DEF P!IInv, P!TicketConsistent, P!Kind
  <2> QED BY <2>4, <2>5, <2>6, <2>7, <2>8 DEF P!IInv
<1> QED BY <1>1, <1>4, <1>5, <1>6 DEF P!Admit, P!End

(* An attempt that is sent is booked under the reservation just made for it. *)
LEMMA SendKeeps == ASSUME P!Settings, P!IInv, P!Send PROVE P!IInv'
<1>1. /\ step = "request" /\ result = Null /\ step' = call.kind
      /\ UNCHANGED <<call, work, payer, ledger, ticket, result, format, repairs, batch, tries>>
      /\ reports' = Append(reports, [ticket |-> ticket, usages |-> {}])
  BY DEF P!Send, P!IInv, P!StepConsistent, P!Progress, P!Unmoved
<1>2. P!Metered' = P!Metered /\ P!Unpriced' = P!Unpriced
  BY <1>1 DEF P!Metered, P!Unpriced
<1>3. call.kind \in P!Kind
  BY DEF P!IInv, P!TypeOK, P!KindOfCall, P!Kind
<1>4. ticket \in 0 .. Len(ledger) /\ ledger \in Seq(Usages \cup {Null}) /\ Len(ledger) \in Nat
  BY DEF P!IInv, P!TypeOK, P!TicketConsistent
<1>5. /\ reports' \in Seq([ticket : Nat, usages : SUBSET Usages])
      /\ Len(reports') = Len(reports) + 1 /\ Len(reports) \in Nat
      /\ \A i \in 1 .. Len(reports) : reports'[i] = reports[i]
      /\ reports'[Len(reports) + 1] = [ticket |-> ticket, usages |-> {}]
  BY <1>1, <1>4 DEF P!IInv, P!TicketConsistent
<1>6. DOMAIN reports = 1 .. Len(reports) /\ DOMAIN reports' = 1 .. Len(reports')
  BY <1>5, LenProperties DEF P!IInv, P!TicketConsistent
<1>7. P!TypeOK'
  <2>1. \A i \in DOMAIN reports' : reports'[i] \in [ticket : 0 .. Len(ledger'), usages : SUBSET Usages]
    BY <1>1, <1>4, <1>5, <1>6 DEF P!IInv, P!TypeOK
  <2> QED BY <1>1, <1>3, <2>1 DEF P!IInv, P!TypeOK
<1>8. P!EachAttemptReserved'
  BY <1>1, <1>2, <1>5, <1>6 DEF P!IInv, P!EachAttemptReserved, P!TicketConsistent
<1>9. P!KnownUsageKept'
  <2>1. result # "budget_unavailable"
    BY <1>1 DEF P!Settings, P!Failures
  <2> QED BY <1>1, <1>5, <1>6, <2>1 DEF P!IInv, P!KnownUsageKept
<1>10. Len(reports) <= P!Allowed /\ batch < Batches /\ P!Allowed' = P!Allowed
  <2>1. P!Allowed \in Nat
    BY DEF P!IInv, P!TypeOK, P!Allowed
  <2>2. Len(reports) <= P!Allowed /\ batch < Batches
    BY <1>1, <1>5, <2>1 DEF P!IInv, P!CountConsistent, P!Kind
  <2> QED BY <1>1, <2>2 DEF P!Allowed
<1>11. P!AttemptsBounded'
  <2>1. batch \in 0 .. Batches /\ tries \in 0 .. 2 /\ repairs \in 0 .. 1 /\ Batches \in Nat
    BY DEF P!IInv, P!TypeOK, P!Settings
  <2>2. Len(reports') <= IF call.kind = "embed" THEN 3 * Batches ELSE IF call.kind = "json" THEN 3 ELSE 1
    BY <1>5, <1>10, <2>1 DEF P!Allowed
  <2> QED BY <1>1, <1>2, <2>2 DEF P!IInv, P!AttemptsBounded, P!StepConsistent
<1>12. P!StepConsistent' /\ P!TicketConsistent'
  <2>1. P!Metered => ledger \in Seq(Usages \cup {Null}) /\ (P!Unpriced => step # "request")
    BY <1>4 DEF P!IInv, P!StepConsistent
  <2>2. P!StepConsistent'
    BY <1>1, <1>2, <1>3, <2>1 DEF P!IInv, P!StepConsistent, P!Kind
  <2>3. reports' # <<>> /\ reports'[Len(reports')].ticket = ticket'
    BY <1>1, <1>5, <1>6
  <2>4. step' # "request" /\ ledger' = ledger /\ (~P!Metered => ledger = <<>>)
    BY <1>1, <1>3 DEF P!IInv, P!TicketConsistent, P!Kind
  <2>5. P!TicketConsistent'
    BY <1>2, <1>4, <1>5, <2>3, <2>4 DEF P!TicketConsistent
  <2> QED BY <2>2, <2>5
<1>13. P!CountConsistent'
  <2>1. P!Allowed \in Nat
    BY DEF P!IInv, P!TypeOK, P!Allowed
  <2> QED BY <1>1, <1>3, <1>5, <1>10, <2>1 DEF P!CountConsistent
<1> QED BY <1>7, <1>8, <1>9, <1>11, <1>12, <1>13 DEF P!IInv

(* What a usage that is reported does to the books: the attempt under way keeps it, its    *)
(* reservation is settled with it once, and what cannot be settled ends the work.           *)
LEMMA Settled ==
  ASSUME P!Settings, P!IInv, step \in P!Kind, UNCHANGED <<call, work, payer, ticket>>,
         NEW usage \in Usages \cup {Null}, reports' = P!Report(usage),
         NEW s \in P!Settlements(usage), ledger' = s.ledger, s.fails => result' = "budget_unavailable"
  PROVE  /\ ledger' \in Seq(Usages \cup {Null}) /\ Len(ledger') = Len(ledger)
         /\ reports' \in Seq([ticket : Nat, usages : SUBSET Usages]) /\ Len(reports') = Len(reports)
         /\ \A i \in DOMAIN reports' : reports'[i] \in [ticket : 0 .. Len(ledger'), usages : SUBSET Usages]
         /\ reports'[Len(reports')].ticket = ticket
         /\ ~P!Metered => ledger' = <<>>
         /\ P!EachAttemptReserved' /\ P!KnownUsageKept'
<1> DEFINE n == Len(reports)
           Attempt == [ticket : 0 .. Len(ledger), usages : SUBSET Usages]
<1>1. ledger \in Seq(Usages \cup {Null}) /\ Len(ledger) \in Nat /\ DOMAIN ledger = 1 .. Len(ledger)
  BY LenProperties DEF P!IInv, P!TicketConsistent
<1>2. reports \in Seq([ticket : Nat, usages : SUBSET Usages]) /\ DOMAIN reports = 1 .. n
  BY LenProperties DEF P!IInv, P!TicketConsistent
<1>3. n \in Nat /\ n \in 1 .. n /\ reports[n].ticket = ticket
  BY <1>2 DEF P!IInv, P!TicketConsistent
<1>4. ticket \in 0 .. Len(ledger) /\ \A i \in 1 .. n : reports[i] \in Attempt
  BY <1>2 DEF P!IInv, P!TypeOK
<1> HIDE DEF n
<1>5. /\ reports' \in Seq([ticket : Nat, usages : SUBSET Usages]) /\ Len(reports') = n /\ DOMAIN reports' = 1 .. n
      /\ \A i \in 1 .. n : reports'[i] \in Attempt
      /\ \A i \in 1 .. n : i # n => reports'[i] = reports[i]
      /\ reports'[n].ticket = ticket /\ reports[n].usages \subseteq reports'[n].usages
      /\ (usage # Null => reports'[n].usages = reports[n].usages \cup {usage})
      /\ (usage = Null => reports' = reports)
  <2>1. CASE usage = Null
    <3>1. reports' = reports
      BY <2>1 DEF P!Report
    <3> QED BY <1>2, <1>3, <1>4, <2>1, <3>1 DEF n
  <2>2. CASE usage # Null
    <3> DEFINE new == [reports[n] EXCEPT !.usages = @ \cup {usage}]
    <3>1. usage \in Usages /\ reports' = [reports EXCEPT ![n] = new]
      BY <2>2 DEF P!Report, n
    <3>2. reports[n] \in Attempt
      BY <1>3, <1>4
    <3>3. new \in Attempt /\ new.ticket = ticket /\ new.usages = reports[n].usages \cup {usage}
      BY <1>3, <3>1, <3>2
    <3> HIDE DEF new
    <3>4. new \in [ticket : Nat, usages : SUBSET Usages]
      BY <1>1, <3>3
    <3>5. reports' \in Seq([ticket : Nat, usages : SUBSET Usages]) /\ Len(reports') = n
      BY <1>2, <1>3, <3>1, <3>4, ExceptSeq DEF n
    <3>6. reports'[n] = new /\ \A i \in 1 .. n : i # n => reports'[i] = reports[i]
      BY <1>2, <1>3, <3>1
    <3>7. DOMAIN reports' = 1 .. n
      BY <3>5, LenProperties
    <3> QED BY <1>4, <2>2, <3>3, <3>5, <3>6, <3>7
  <2> QED BY <2>1, <2>2
<1>6. \A i \in 1 .. n : reports'[i].ticket = reports[i].ticket /\ reports[i].usages \subseteq reports'[i].usages
  BY <1>3, <1>5
<1>7. /\ ledger' \in Seq(Usages \cup {Null}) /\ Len(ledger') = Len(ledger) /\ DOMAIN ledger' = DOMAIN ledger
      /\ \A t \in DOMAIN ledger : \/ ledger'[t] = ledger[t]
                                  \/ t = ticket /\ ledger[t] = Null /\ ledger'[t] = usage /\ usage \in Usages
      /\ ticket # 0 /\ usage # Null => ledger'[ticket] = usage \/ s.fails
      /\ ticket = 0 => ledger' = ledger
  <2>1. CASE ledger' = ledger /\ (ticket = 0 \/ usage = Null \/ s.fails \/ ledger[ticket] = usage)
    BY <1>1, <2>1
  <2>2. CASE ticket # 0 /\ usage # Null /\ ledger[ticket] = Null /\ ledger' = [ledger EXCEPT ![ticket] = usage]
    <3>1. usage \in Usages /\ ticket \in 1 .. Len(ledger)
      BY <1>1, <1>4, <2>2
    <3>2. ledger' \in Seq(Usages \cup {Null}) /\ Len(ledger') = Len(ledger)
      BY <1>1, <2>2, <3>1, ExceptSeq
    <3> QED BY <1>1, <2>2, <3>1, <3>2 DEF P!Settings
  <2>3. CASE ticket = 0 \/ usage = Null
    BY <2>1, <2>3 DEF P!Settlements
  <2>4. CASE ticket # 0 /\ usage # Null
    <3>1. \/ s.ledger = ledger /\ (s.fails \/ ledger[ticket] = usage)
          \/ ledger[ticket] = Null /\ s.ledger = [ledger EXCEPT ![ticket] = usage]
      <4>1. s \in {[ledger |-> ledger, fails |-> TRUE],
                  IF ledger[ticket] # Null THEN [ledger |-> ledger, fails |-> ledger[ticket] # usage]
                  ELSE [ledger |-> [ledger EXCEPT ![ticket] = usage], fails |-> usage > P!Reserved]}
        BY <2>4, Zenon DEF P!Settlements
      <4>2. CASE s = [ledger |-> ledger, fails |-> TRUE]
        BY <4>2
      <4>3. CASE ledger[ticket] # Null /\ s = [ledger |-> ledger, fails |-> ledger[ticket] # usage]
        <5>1. s.ledger = ledger /\ s.fails = (ledger[ticket] # usage)
          BY <4>3
        <5> QED BY <5>1, Zenon
      <4>4. CASE ledger[ticket] = Null /\ s = [ledger |-> [ledger EXCEPT ![ticket] = usage], fails |-> usage > P!Reserved]
        BY <4>4
      <4> QED BY <4>1, <4>2, <4>3, <4>4, Zenon
    <3> QED BY <2>1, <2>2, <2>4, <3>1
  <2> QED BY <2>3, <2>4
<1>8. ~P!Metered => ledger' = <<>>
  <2>1. ~P!Metered => ledger = <<>>
    BY DEF P!IInv, P!TicketConsistent
  <2> QED BY <1>1, <1>4, <1>7, <2>1
<1>9. P!EachAttemptReserved'
  <2>1. P!Metered' = P!Metered
    BY DEF P!Metered
  <2>2. P!Metered => \A i, j \in 1 .. n : reports[i].ticket # 0 /\ (reports[i].ticket = reports[j].ticket => i = j)
    BY <1>2 DEF P!IInv, P!EachAttemptReserved
  <2>3. P!Metered => \A i, j \in 1 .. n : reports'[i].ticket # 0 /\ (reports'[i].ticket = reports'[j].ticket => i = j)
    BY <1>6, <2>2
  <2>4. ASSUME NEW t \in DOMAIN ledger', ledger'[t] # Null
        PROVE  \E i \in 1 .. n : reports'[i].ticket = t /\ ledger'[t] \in reports'[i].usages
    <3>1. CASE ledger'[t] = ledger[t]
      <4>1. t \in DOMAIN ledger /\ ledger[t] # Null
        BY <1>7, <2>4, <3>1
      <4>2. PICK i \in 1 .. n : reports[i].ticket = t /\ ledger[t] \in reports[i].usages
        BY <1>2, <4>1 DEF P!IInv, P!EachAttemptReserved
      <4> QED BY <1>6, <3>1, <4>2
    <3>2. CASE t = ticket /\ ledger'[t] = usage /\ usage \in Usages
      <4>1. usage # Null
        BY <3>2 DEF P!Settings
      <4>2. reports'[n].ticket = t /\ ledger'[t] \in reports'[n].usages
        BY <1>5, <3>2, <4>1
      <4> QED BY <1>3, <4>2
    <3> QED BY <1>7, <2>4, <3>1, <3>2
  <2> QED BY <1>5, <2>1, <2>3, <2>4 DEF P!EachAttemptReserved
<1>10. P!KnownUsageKept'
  <2> SUFFICES ASSUME NEW i \in 1 .. n, reports'[i].ticket # 0, reports'[i].usages # {}
               PROVE  \/ reports'[i].usages = {ledger'[reports'[i].ticket]}
                      \/ i = n /\ result' = "budget_unavailable"
    BY <1>5 DEF P!KnownUsageKept
  <2>1. result # "budget_unavailable"
    BY DEF P!IInv, P!StepConsistent, P!Settings, P!Failures, P!Kind
  <2>2. reports'[i].ticket = reports[i].ticket
    BY <1>6
  <2>3. reports[i].ticket \in DOMAIN ledger
    <3>1. reports[i].ticket \in 0 .. Len(ledger)
      BY <1>4
    <3> QED BY <1>1, <2>2, <3>1
  <2>4. reports[i].usages # {} =>
          /\ reports[i].usages = {ledger[reports[i].ticket]}
          /\ ledger'[reports[i].ticket] = ledger[reports[i].ticket]
    <3>1. SUFFICES ASSUME reports[i].usages # {}
                   PROVE  /\ reports[i].usages = {ledger[reports[i].ticket]}
                          /\ ledger'[reports[i].ticket] = ledger[reports[i].ticket]
      OBVIOUS
    <3>2. reports[i].usages = {ledger[reports[i].ticket]}
      BY <1>2, <2>1, <2>2, <3>1 DEF P!IInv, P!KnownUsageKept
    <3>3. reports[i].usages \subseteq Usages
      BY <1>4
    <3>4. ledger[reports[i].ticket] # Null
      BY <3>2, <3>3 DEF P!Settings
    <3> QED BY <1>7, <2>3, <3>2, <3>4
  <2>5. CASE i # n \/ usage = Null
    <3>1. reports'[i] = reports[i]
      BY <1>5, <2>5
    <3> QED BY <2>2, <2>4, <3>1
  <2>6. CASE i = n /\ usage # Null
    <3>1. ticket = reports[i].ticket /\ ticket # 0 /\ reports'[i].usages = reports[i].usages \cup {usage}
      BY <1>3, <1>5, <2>2, <2>6
    <3>2. CASE s.fails
      BY <2>6, <3>2
    <3>3. CASE ledger'[ticket] = usage
      BY <2>2, <2>4, <3>1, <3>3
    <3> QED BY <1>7, <2>6, <3>1, <3>2, <3>3
  <2> QED BY <2>5, <2>6
<1>11. \A i \in DOMAIN reports' : reports'[i] \in [ticket : 0 .. Len(ledger'), usages : SUBSET Usages]
  BY <1>5, <1>7
<1>12. Len(reports') = Len(reports) /\ reports'[Len(reports')].ticket = ticket
  BY <1>5 DEF n
<1> QED BY <1>5, <1>7, <1>8, <1>9, <1>10, <1>11, <1>12

LEMMA AllowedIsNumber == ASSUME batch' \in Nat, tries' \in Nat, repairs' \in Nat PROVE P!Allowed' \in Nat
<1>1. \A b, t, r \in Nat : 3 * b + t \in Nat /\ r + 1 \in Nat /\ r + 0 \in Nat
  OBVIOUS
<1>2. 3 * batch' + tries' \in Nat /\ repairs' + 1 \in Nat /\ repairs' + 0 \in Nat
  BY <1>1, Zenon
<1>3. repairs' + (IF format' = "object" THEN 1 ELSE 0) \in Nat
  BY <1>2, Zenon
<1> QED BY <1>2, <1>3, Zenon DEF P!Allowed

(* A reply that is settled leaves the books in order, if what it leads to counts the attempt. *)
LEMMA ReplyKeeps ==
  ASSUME P!Settings, P!IInv, step \in P!Kind, UNCHANGED <<call, work, payer, ticket>>,
         NEW usage \in Usages \cup {Null}, reports' = P!Report(usage),
         NEW s \in P!Settlements(usage), ledger' = s.ledger, s.fails => result' = "budget_unavailable",
         \/ step' = "ended" /\ result' \in {"ok"} \cup P!Failures
         \/ step' = step /\ result' = result /\ UNCHANGED P!Progress
         \/ step' = "admit" /\ result' = result /\ batch' < Batches /\ P!Allowed' > P!Allowed,
         format' \in {"schema", "object"}, repairs' \in 0 .. 1, batch' \in 0 .. Batches, tries' \in 0 .. 2
  PROVE  P!IInv'
<1>1. P!Metered' = P!Metered /\ P!Unpriced' = P!Unpriced /\ ~(P!Metered /\ P!Unpriced)
  BY DEF P!Metered, P!Unpriced, P!IInv, P!StepConsistent
<1>2. /\ ledger' \in Seq(Usages \cup {Null}) /\ Len(ledger') = Len(ledger)
      /\ reports' \in Seq([ticket : Nat, usages : SUBSET Usages]) /\ Len(reports') = Len(reports)
      /\ \A i \in DOMAIN reports' : reports'[i] \in [ticket : 0 .. Len(ledger'), usages : SUBSET Usages]
      /\ reports'[Len(reports')].ticket = ticket
      /\ ~P!Metered => ledger' = <<>>
      /\ P!EachAttemptReserved' /\ P!KnownUsageKept'
  BY Settled
<1>3. Len(reports) \in Nat \ {0} /\ reports' # <<>>
  BY <1>2 DEF P!IInv, P!TicketConsistent
<1>4. step # "ended" /\ step # "bind" /\ step # "admit" /\ step # "request" /\ result = Null /\ step = call.kind
  BY DEF P!IInv, P!StepConsistent, P!Kind
<1>5. P!TypeOK'
  <2>1. \A i \in DOMAIN ledger' : ledger'[i] \in Usages \cup {Null}
    BY <1>2, LenProperties, ElementOfSeq
  <2>2. step' \in {"ended", "admit"} \cup P!Kind /\ result' \in {Null, "ok"} \cup P!Failures
    BY <1>4
  <2> QED BY <1>2, <2>1, <2>2 DEF P!IInv, P!TypeOK
<1>6. P!AttemptsBounded'
  BY <1>1, <1>2 DEF P!IInv, P!AttemptsBounded
<1>7. P!StepConsistent' /\ P!TicketConsistent'
  BY <1>1, <1>2, <1>3, <1>4 DEF P!IInv, P!StepConsistent, P!TicketConsistent, P!Kind
<1>8. P!CountConsistent'
  <2>1. batch < Batches /\ Len(reports) <= P!Allowed + 1 /\ P!Allowed \in Nat
    BY <1>4 DEF P!IInv, P!CountConsistent, P!TypeOK, P!Allowed
  <2>2. CASE step' = step /\ UNCHANGED P!Progress
    <3>1. P!Allowed' = P!Allowed
      BY <2>2 DEF P!Allowed, P!Progress
    <3> QED BY <1>2, <1>4, <2>1, <2>2, <3>1 DEF P!CountConsistent, P!Progress
  <2>3. CASE step' = "admit" /\ batch' < Batches /\ P!Allowed' > P!Allowed
    <3>1. batch' \in Nat /\ tries' \in Nat /\ repairs' \in Nat
      BY DEF P!Settings
    <3>2. P!Allowed' \in Nat
      BY <3>1, AllowedIsNumber
    <3> QED BY <1>2, <2>1, <2>3, <3>2 DEF P!CountConsistent, P!Kind
  <2>4. CASE step' = "ended"
    BY <2>4 DEF P!CountConsistent
  <2> QED BY <2>2, <2>3, <2>4
<1> QED BY <1>2, <1>5, <1>6, <1>7, <1>8 DEF P!IInv

(* What the replies have in common: the attempt is settled by one of the ways Settlements names. *)
LEMMA Replied ==
  ASSUME P!IInv, P!Unmoved, UNCHANGED <<payer, ticket>>, step \in P!Kind
  PROVE  /\ UNCHANGED <<call, work, payer, ticket>> /\ result = Null
         /\ format \in {"schema", "object"} /\ repairs \in 0 .. 1 /\ batch \in 0 .. Batches /\ tries \in 0 .. 2
         /\ step = call.kind /\ batch < Batches
BY DEF P!Unmoved, P!IInv, P!StepConsistent, P!CountConsistent, P!TypeOK, P!Kind

(* A stream's usage is settled while it goes on. *)
LEMMA StreamUsageKeeps ==
  ASSUME P!Settings, P!IInv, NEW usage \in Usages \cup {Null}, P!StreamUsage(usage) PROVE P!IInv'
<1>1. step = "stream" /\ step \in P!Kind /\ reports' = P!Report(usage) /\ P!Unmoved /\ UNCHANGED <<payer, ticket>> /\ UNCHANGED P!Progress
  BY DEF P!StreamUsage, P!Kind
<1>2. PICK s \in P!Settlements(usage) :
        /\ ledger' = s.ledger
        /\ IF s.fails THEN step' = "ended" /\ result' = "budget_unavailable" ELSE UNCHANGED <<step, result>>
  BY DEF P!StreamUsage, P!End
<1>3. /\ UNCHANGED <<call, work, payer, ticket>>
      /\ format \in {"schema", "object"} /\ repairs \in 0 .. 1 /\ batch \in 0 .. Batches /\ tries \in 0 .. 2
  BY <1>1, Replied
<1>4. s.fails => result' = "budget_unavailable"
  BY <1>2
<1>5. \/ step' = "ended" /\ result' \in {"ok"} \cup P!Failures
      \/ step' = step /\ result' = result /\ UNCHANGED P!Progress
  BY <1>1, <1>2 DEF P!Failures
<1>6. format' \in {"schema", "object"} /\ repairs' \in 0 .. 1 /\ batch' \in 0 .. Batches /\ tries' \in 0 .. 2
  BY <1>1, <1>3 DEF P!Progress
<1> QED BY <1>1, <1>2, <1>3, <1>4, <1>5, <1>6, ReplyKeeps

(* A page is settled at once. *)
LEMMA TranscribeKeeps ==
  ASSUME P!Settings, P!IInv, NEW usage \in Usages \cup {Null}, P!TranscribeReply(usage) PROVE P!IInv'
<1>1. step = "ocr" /\ step \in P!Kind /\ reports' = P!Report(usage) /\ P!Unmoved /\ UNCHANGED <<payer, ticket>> /\ UNCHANGED P!Progress
  BY DEF P!TranscribeReply, P!Kind
<1>2. PICK s \in P!Settlements(usage) :
        /\ ledger' = s.ledger
        /\ step' = "ended" /\ IF s.fails THEN result' = "budget_unavailable" ELSE result' \in {"ok", "provider"}
  BY DEF P!TranscribeReply, P!End
<1>3. /\ UNCHANGED <<call, work, payer, ticket>>
      /\ format \in {"schema", "object"} /\ repairs \in 0 .. 1 /\ batch \in 0 .. Batches /\ tries \in 0 .. 2
  BY <1>1, Replied
<1>4. s.fails => result' = "budget_unavailable"
  BY <1>2
<1>5. step' = "ended" /\ result' \in {"ok"} \cup P!Failures
  BY <1>2 DEF P!Failures
<1>6. format' \in {"schema", "object"} /\ repairs' \in 0 .. 1 /\ batch' \in 0 .. Batches /\ tries' \in 0 .. 2
  BY <1>1, <1>3 DEF P!Progress
<1> QED BY <1>1, <1>2, <1>3, <1>4, <1>5, <1>6, ReplyKeeps

(* A structured completion is asked for again without its schema, and once more to repair it. *)
LEMMA JsonKeeps ==
  ASSUME P!Settings, P!IInv, NEW usage \in Usages \cup {Null}, NEW said \in P!Reply, P!JsonReply(said, usage)
  PROVE  P!IInv'
<1>1. step = "json" /\ step \in P!Kind /\ reports' = P!Report(usage) /\ P!Unmoved /\ UNCHANGED <<payer, ticket, batch, tries>>
  BY DEF P!JsonReply, P!Kind
<1>2. PICK s \in P!Settlements(usage) :
        /\ ledger' = s.ledger
        /\ IF s.fails THEN step' = "ended" /\ result' = "budget_unavailable" /\ UNCHANGED <<format, repairs>>
           ELSE \/ format = "schema" /\ format' = "object" /\ step' = "admit" /\ UNCHANGED <<repairs, result>>
                \/ repairs = 0 /\ repairs' = 1 /\ step' = "admit" /\ UNCHANGED <<format, result>>
                \/ step' = "ended" /\ result' \in {"ok", "provider"} /\ UNCHANGED <<format, repairs>>
  BY DEF P!JsonReply, P!End
<1>3. /\ UNCHANGED <<call, work, payer, ticket>>
      /\ format \in {"schema", "object"} /\ repairs \in 0 .. 1 /\ batch \in 0 .. Batches /\ tries \in 0 .. 2
      /\ call.kind = "json" /\ batch < Batches
  BY <1>1, Replied
<1>4. s.fails => result' = "budget_unavailable"
  BY <1>2
<1>5. format' \in {"schema", "object"} /\ repairs' \in 0 .. 1 /\ batch' \in 0 .. Batches /\ tries' \in 0 .. 2
  BY <1>1, <1>2, <1>3
<1>6. ASSUME step' # "ended" PROVE P!Allowed' > P!Allowed
  <2>1. \/ format = "schema" /\ format' = "object" /\ repairs' = repairs
        \/ repairs = 0 /\ repairs' = 1 /\ format' = format
    BY <1>2, <1>6
  <2> QED BY <1>3, <2>1 DEF P!Allowed
<1>7. \/ step' = "ended" /\ result' \in {"ok"} \cup P!Failures
      \/ step' = "admit" /\ result' = result /\ batch' < Batches /\ P!Allowed' > P!Allowed
  BY <1>1, <1>2, <1>3, <1>6 DEF P!Failures
<1> QED BY <1>1, <1>2, <1>3, <1>4, <1>5, <1>7, ReplyKeeps

(* A batch is embedded in at most three attempts. *)
LEMMA EmbedKeeps ==
  ASSUME P!Settings, P!IInv, NEW usage \in Usages \cup {Null}, NEW said \in {"ok", "retryable", "error"},
         P!EmbedReply(said, usage)
  PROVE  P!IInv'
<1>1. step = "embed" /\ step \in P!Kind /\ reports' = P!Report(usage) /\ P!Unmoved /\ UNCHANGED <<payer, ticket, format, repairs>>
  BY DEF P!EmbedReply, P!Kind
<1>2. PICK s \in P!Settlements(usage) :
        /\ ledger' = s.ledger
        /\ IF s.fails THEN step' = "ended" /\ result' = "budget_unavailable" /\ UNCHANGED <<batch, tries>>
           ELSE \/ /\ batch' = batch + 1 /\ tries' = 0
                   /\ IF batch' = Batches THEN step' = "ended" /\ result' = "ok" ELSE step' = "admit" /\ UNCHANGED result
                \/ tries < 2 /\ tries' = tries + 1 /\ step' = "admit" /\ UNCHANGED <<batch, result>>
                \/ step' = "ended" /\ result' = "provider" /\ UNCHANGED <<batch, tries>>
  BY DEF P!EmbedReply, P!End
<1>3. /\ UNCHANGED <<call, work, payer, ticket>> /\ Batches \in Nat
      /\ format \in {"schema", "object"} /\ repairs \in 0 .. 1 /\ batch \in 0 .. Batches /\ tries \in 0 .. 2
      /\ call.kind = "embed" /\ batch < Batches
  BY <1>1, Replied DEF P!Settings
<1>4. s.fails => result' = "budget_unavailable"
  BY <1>2
<1>5. format' \in {"schema", "object"} /\ repairs' \in 0 .. 1 /\ batch' \in 0 .. Batches /\ tries' \in 0 .. 2
  BY <1>1, <1>2, <1>3
<1>6. ASSUME step' # "ended" PROVE P!Allowed' > P!Allowed /\ batch' < Batches
  <2>1. \/ batch' = batch + 1 /\ tries' = 0 /\ batch' # Batches
        \/ tries' = tries + 1 /\ batch' = batch
    BY <1>2, <1>6
  <2> QED BY <1>3, <2>1 DEF P!Allowed
<1>7. \/ step' = "ended" /\ result' \in {"ok"} \cup P!Failures
      \/ step' = "admit" /\ result' = result /\ batch' < Batches /\ P!Allowed' > P!Allowed
  BY <1>2, <1>6 DEF P!Failures
<1> QED BY <1>1, <1>2, <1>3, <1>4, <1>5, <1>7, ReplyKeeps

(* Every step of a call keeps its books in order. *)
LEMMA CallStep == ASSUME P!Settings, P!IInv, [P!Next]_(P!vars) PROVE P!IInv'
<1>1. CASE P!Bind
  BY <1>1, BindKeeps
<1>2. CASE P!Admit
  BY <1>2, AdmitKeeps
<1>3. CASE P!Send
  BY <1>3, SendKeeps
<1>4. ASSUME NEW usage \in Usages \cup {Null}, P!StreamUsage(usage) PROVE P!IInv'
  BY <1>4, StreamUsageKeeps
<1>5. ASSUME NEW usage \in Usages \cup {Null}, P!TranscribeReply(usage) PROVE P!IInv'
  BY <1>5, TranscribeKeeps
<1>6. ASSUME NEW usage \in Usages \cup {Null}, NEW said \in P!Reply, P!JsonReply(said, usage) PROVE P!IInv'
  BY <1>6, JsonKeeps
<1>7. ASSUME NEW usage \in Usages \cup {Null}, NEW said \in {"ok", "retryable", "error"}, P!EmbedReply(said, usage)
      PROVE  P!IInv'
  BY <1>7, EmbedKeeps
<1>8. ASSUME (\E r \in {"ok", "provider"} : P!StreamEnds(r)) \/ P!RerankReply \/ P!Abandon PROVE P!IInv'
  BY <1>8, CallEnds DEF P!StreamEnds, P!RerankReply, P!Abandon, P!End, P!Failures, P!Unmoved, P!Progress, Books
<1>9. CASE UNCHANGED P!vars
  <2>1. P!Metered' = P!Metered /\ P!Unpriced' = P!Unpriced /\ P!Allowed' = P!Allowed
    BY <1>9 DEF P!vars, P!Metered, P!Unpriced, P!Allowed
  <2>2. P!TypeOK'
    BY <1>9 DEF P!vars, P!IInv, P!TypeOK
  <2>3. P!EachAttemptReserved' /\ P!KnownUsageKept' /\ P!AttemptsBounded'
    BY <1>9, <2>1 DEF P!vars, P!IInv, P!EachAttemptReserved, P!KnownUsageKept, P!AttemptsBounded
  <2>4. P!StepConsistent' /\ P!TicketConsistent' /\ P!CountConsistent'
    BY <1>9, <2>1 DEF P!vars, P!IInv, P!StepConsistent, P!TicketConsistent, P!CountConsistent
  <2> QED BY <2>2, <2>3, <2>4 DEF P!IInv
<1> QED BY <1>1, <1>2, <1>3, <1>4, <1>5, <1>6, <1>7, <1>8, <1>9 DEF P!Next

(* Whatever is called and whoever pays, however often it is repeated: each attempt of a   *)
(* visitor's work has a reservation of its own, it is settled for just what was reported    *)
(* unless it is the last one and ends the work with the budget, what has no price is not     *)
(* attempted, and the attempts are bounded.                                                   *)
THEOREM CallsArePaid == ASSUME P!Settings PROVE P!Spec => []AttemptsPaid
<1>1. P!Init => P!IInv
  BY CallInit
<1>2. P!IInv /\ [P!Next]_(P!vars) => P!IInv'
  BY CallStep
<1>3. P!IInv => AttemptsPaid
  BY DEF P!IInv, AttemptsPaid
<1> QED BY <1>1, <1>2, <1>3, PTL DEF P!Spec

-----------------------------------------------------------------------------
(* One query, what its client hears and what is recorded of it. *)

(* What a query begins with. *)
LEMMA StreamInit == ASSUME S!Settings, S!Init PROVE S!IInv
<1>1. Len(sent) = 0 /\ Len(out) = 0 /\ Len(metered) = 0 /\ sent \in Seq(S!Event) /\ out \in Seq(S!Event)
      /\ metered \in Seq(BOOLEAN)
  BY DEF S!Init
<1>2. S!TypeOK
  <2>1. \A s \in {out, sent} : \A i \in DOMAIN s : s[i] \in S!Event
    BY <1>1 DEF S!Init
  <2>2. at \in S!Running \cup S!Over
    BY DEF S!Init, S!Running, S!Over
  <2>3. record = Null /\ reply = Null /\ facets = 0 /\ attempts = 0 /\ deltas = 0 /\ parts = "none"
        /\ attempted \in BOOLEAN /\ changed \in BOOLEAN /\ convo \in S!Convo /\ transport \in {"sse", "json"}
    BY DEF S!Init
  <2> QED BY <2>1, <2>2, <2>3 DEF S!TypeOK, S!Settings
<1>3. S!ToldIsRecorded /\ S!UsageIsWhole
  BY <1>1 DEF S!Init, S!ToldIsRecorded, S!UsageIsWhole, S!Told
<1>4. S!StoryInOrder /\ S!StageConsistent
  BY <1>1 DEF S!Init, S!StoryInOrder, S!StageConsistent, S!Length, S!Over
<1>5. S!RecordConsistent
  BY <1>1 DEF S!Init, S!RecordConsistent, S!Waiting, S!Running, S!Over
<1>6. S!CountConsistent
  BY <1>1 DEF S!Init, S!CountConsistent, S!Calls, S!Waiting, S!Running, S!Convo
<1> QED BY <1>2, <1>3, <1>4, <1>5, <1>6 DEF S!IInv

(* A call is known to have told its usage or not, and counts. *)
LEMMA Metered ==
  ASSUME metered \in Seq(BOOLEAN), metered' \in S!Metering
  PROVE  metered' \in Seq(BOOLEAN) /\ Len(metered') = Len(metered) + 1
BY DEF S!Metering

(* The usages so far, when the query is at an end. *)
Enough == metered' # <<>> => Len(metered') >= attempts + (IF convo = "followup" THEN 1 ELSE 0)

LEMMA EnoughCalls ==
  ASSUME S!IInv, at \in S!Waiting, metered' = metered \/ metered' \in S!Metering
  PROVE  Enough /\ metered' \in Seq(BOOLEAN)
<1>1. attempts \in Nat /\ Len(metered) \in Nat /\ metered \in Seq(BOOLEAN) /\ Len(metered) >= S!Calls
  BY DEF S!IInv, S!TypeOK, S!CountConsistent
<1>2. at # "normalise" => S!Calls = attempts + (IF convo = "followup" THEN 1 ELSE 0)
  BY DEF S!Calls
<1>3. at = "normalise" => metered = <<>> /\ Len(metered) = 0 /\ attempts = 0
  BY DEF S!IInv, S!CountConsistent, S!Waiting
<1>4. metered' \in S!Metering => metered' \in Seq(BOOLEAN) /\ Len(metered') = Len(metered) + 1
  BY <1>1, Metered
<1> QED BY <1>1, <1>2, <1>3, <1>4 DEF Enough

(* Whoever records first leaves what it saw, or nothing. *)
LEMMA Recorded ==
  ASSUME S!Settings, S!IInv, NEW outcome \in S!Outcome, NEW text \in BOOLEAN, NEW res,
         at \in S!Running, S!RecordOnce(outcome, text, res)
  PROVE  /\ attempted' = TRUE
         /\ at = "ending" => record' = record
         /\ at \in S!Waiting =>
              /\ record = Null
              /\ record' \in {Null} \cup S!Record
              /\ res # "recorded" => record' = Null
              /\ res = "recorded" => record' # Null
              /\ record' # Null => record'.outcome = outcome /\ record'.text = text /\ record'.usage = S!Complete'
<1>1. S!Complete' \in BOOLEAN
  BY DEF S!Complete
<1>2. [outcome |-> outcome, text |-> text, usage |-> S!Complete'] \in S!Record
  BY <1>1 DEF S!Record
<1>3. CASE at = "ending"
  BY <1>3 DEF S!RecordOnce, S!IInv, S!RecordConsistent, S!Waiting
<1>4. CASE at \in S!Waiting
  BY <1>2, <1>4 DEF S!RecordOnce, S!IInv, S!RecordConsistent, S!Waiting, S!Settings
<1> QED BY <1>3, <1>4 DEF S!Waiting

(* A record that was just made agrees with what is told from now on. *)
LEMMA RecordHolds ==
  ASSUME S!Settings, S!IInv, at \in S!Waiting, UNCHANGED <<convo, attempts, parts>>, Enough,
         record' \in {Null} \cup S!Record,
         record' # Null => /\ record'.usage = S!Complete'
                           /\ record'.outcome \notin {"refused", "clarification"} /\ parts = "text" => record'.text
  PROVE  S!UsageIsWhole'
         /\ (record' # Null /\ record'.outcome \notin {"refused", "clarification"} /\ parts' = "text" => record'.text)
<1>1. S!Complete' => metered' # <<>>
  BY DEF S!Complete
<1> QED BY <1>1 DEF Enough, S!UsageIsWhole

(* Which events the client's side has is not touched. *)
LEMMA Positions ==
  ASSUME S!IInv
  PROVE  /\ sent \in Seq(S!Event) /\ out \in Seq(S!Event) /\ Len(sent) \in Nat /\ Len(out) \in Nat
         /\ DOMAIN sent = 1 .. Len(sent) /\ DOMAIN out = 1 .. Len(out)
         /\ out = <<>> => Len(out) = 0 /\ S!Length = Len(sent)
BY LenProperties DEF S!IInv, S!StoryInOrder, S!Length

(* A query that is recorded and says so, after its introduction where there was none. *)
LEMMA Concludes ==
  ASSUME S!Settings, S!IInv, at \in S!Waiting, out = <<>>, S!Kept, UNCHANGED <<attempts, deltas, parts>>,
         facets' \in 0 .. MaxPlanned, metered' \in Seq(BOOLEAN), Enough,
         attempted' = TRUE, at' = "ending",
         record' \in {Null} \cup S!Record,
         record' # Null => /\ record'.usage = S!Complete'
                           /\ record'.outcome \notin {"refused", "clarification"} /\ parts = "text" => record'.text,
         NEW t \in S!Event, S!Terminal(t),
         t.e = "done" => IF record' = Null THEN convo = "alone" ELSE record'.outcome \in {"answered", "refused", "clarification"},
         t.e = "error" => record' = Null \/ record'.outcome = "failed",
         \/ out' = <<t>> /\ (S!Length = 0 => convo = "alone" /\ t.e = "error")
         \/ out' = <<S!Name("meta"), t>> /\ S!Length = 0
  PROVE  S!IInv'
<1>1. /\ sent \in Seq(S!Event) /\ Len(sent) \in Nat /\ DOMAIN sent = 1 .. Len(sent) /\ S!Length = Len(sent)
      /\ UNCHANGED <<convo, transport, changed, sent, reply>>
  BY Positions DEF S!Kept
<1>2. S!Name("meta") \in S!Event /\ ~S!Terminal(S!Name("meta")) /\ S!Name("meta").e = "meta"
  BY DEF S!Name, S!Event, S!Terminal
<1>3. /\ out' \in Seq(S!Event) /\ DOMAIN out' = 1 .. Len(out') /\ Len(out') \in {1, 2} /\ out'[Len(out')] = t
      /\ Len(out') = 2 => Len(sent) = 0 /\ out'[1] = S!Name("meta")
      /\ Len(out') = 1 /\ Len(sent) = 0 => convo = "alone" /\ t.e = "error"
  <2>1. CASE out' = <<t>> /\ (S!Length = 0 => convo = "alone" /\ t.e = "error")
    BY <1>1, <2>1
  <2>2. CASE out' = <<S!Name("meta"), t>> /\ S!Length = 0
    BY <1>1, <1>2, <2>2
  <2> QED BY <2>1, <2>2
<1>4. \A i \in DOMAIN sent : S!InPlace(sent[i], i) /\ ~S!Terminal(sent[i])
  BY DEF S!IInv, S!StoryInOrder, S!StageConsistent
<1>5. \A s \in {out', sent'} : \A i \in DOMAIN s : s[i] \in S!Event
  BY <1>1, <1>2, <1>3
<1>6. S!TypeOK'
  <2>1. at' \in S!Running \cup S!Over
    BY DEF S!Running
  <2>2. record' = Null \/ record' \in [outcome : S!Outcome, text : BOOLEAN, usage : BOOLEAN]
    BY DEF S!Record
  <2> QED BY <1>1, <1>5, <2>1, <2>2 DEF S!IInv, S!TypeOK
<1>7. S!UsageIsWhole'
        /\ (record' # Null /\ record'.outcome \notin {"refused", "clarification"} /\ parts' = "text" => record'.text)
  BY <1>1, RecordHolds
<1>8. \A i \in DOMAIN sent : sent[i].e \notin {"done", "error"}
  BY <1>4 DEF S!Terminal
<1>9. S!Told' = S!Told /\ "done" \notin S!Told /\ "error" \notin S!Told
  BY <1>1, <1>8 DEF S!Told
<1>10. S!ToldIsRecorded'
  BY <1>1, <1>7, <1>9 DEF S!IInv, S!ToldIsRecorded
<1>11. S!Length' = Len(sent) + Len(out')
  BY <1>1 DEF S!Length
<1>12. S!StoryInOrder'
  <2>1. (\A i \in DOMAIN sent : S!InPlace(sent[i], i))'
    BY <1>1, <1>4 DEF S!InPlace, S!Terminal, S!Name
  <2>2. \A i \in DOMAIN out' : (i = 1 /\ Len(out') = 2) \/ i = Len(out')
    BY <1>3
  <2>3. (\A i \in DOMAIN out : S!InPlace(out[i], Len(sent) + i))'
    BY <1>1, <1>2, <1>3, <1>11, <2>2 DEF S!InPlace, S!Terminal, S!Name
  <2> QED BY <1>1, <1>3, <2>1, <2>3 DEF S!IInv, S!StoryInOrder, S!Over
<1>13. S!StageConsistent'
  BY DEF S!StageConsistent, S!Waiting
<1>14. S!RecordConsistent'
  BY <1>1, <1>2, <1>3, <1>8 DEF S!RecordConsistent, S!Waiting
<1>15. S!CountConsistent'
  BY DEF S!CountConsistent, S!Waiting
<1> QED BY <1>6, <1>7, <1>10, <1>12, <1>13, <1>14, <1>15 DEF S!IInv

(* Two events, one after the other. *)
LEMMA PairOf ==
  ASSUME NEW W, NEW a \in W, NEW b \in W
  PROVE  <<a>> \o <<b>> = <<a, b>>
<1>1. <<a>> \in Seq(W) /\ <<b>> \in Seq(W) /\ <<a, b>> \in Seq(W) /\ Len(<<a>>) = 1 /\ Len(<<b>>) = 1 /\ Len(<<a, b>>) = 2
  OBVIOUS
<1>2. /\ <<a>> \o <<b>> \in Seq(W) /\ Len(<<a>> \o <<b>>) = 2
      /\ (<<a>> \o <<b>>)[1] = a /\ (<<a>> \o <<b>>)[2] = b
  BY <1>1, ConcatProperties
<1>3. \A i \in 1 .. 2 : (<<a>> \o <<b>>)[i] = <<a, b>>[i]
  BY <1>2
<1> QED BY <1>1, <1>2, <1>3, SeqEqual

(* A failure is recorded with the text that was seen, and told. *)
LEMMA FailKeeps ==
  ASSUME S!Settings, S!IInv, at \in S!Waiting, out = <<>>, S!Kept, UNCHANGED <<attempts, deltas, parts>>,
         facets' \in 0 .. MaxPlanned, metered' = metered \/ metered' \in S!Metering,
         NEW code \in S!Code, S!Fail(code)
  PROVE  S!IInv'
<1>1. PICK res \in S!Results : S!RecordOnce("failed", parts = "text", res)
  BY DEF S!Fail, S!RecordIncomplete
<1>2. at \in S!Running /\ "failed" \in S!Outcome /\ (parts = "text") \in BOOLEAN
  BY DEF S!Waiting, S!Outcome
<1>3. /\ attempted' = TRUE /\ record' \in {Null} \cup S!Record
      /\ record' # Null => record'.outcome = "failed" /\ record'.text = (parts = "text") /\ record'.usage = S!Complete'
  BY <1>1, <1>2, Recorded
<1>4. Enough /\ metered' \in Seq(BOOLEAN)
  BY EnoughCalls
<1>5. S!Error(code) \in S!Event /\ S!Terminal(S!Error(code)) /\ S!Error(code).e = "error"
  BY DEF S!Error, S!Event, S!Terminal
<1>6. at' = "ending" /\ out' = (IF convo # "alone" /\ ~S!Introduced THEN <<S!Name("meta")>> ELSE <<>>) \o <<S!Error(code)>>
  BY DEF S!Fail, S!Goto
<1>7. Len(sent) \in Nat /\ DOMAIN sent = 1 .. Len(sent) /\ S!Length = Len(sent)
  BY Positions
<1>8. S!Introduced <=> S!Length # 0
  <2>1. ASSUME S!Length # 0 PROVE sent[1].e = "meta" /\ 1 \in DOMAIN sent
    <3>1. 1 \in DOMAIN sent
      BY <1>7, <2>1
    <3>2. S!InPlace(sent[1], 1) /\ ~S!Terminal(sent[1])
      BY <3>1 DEF S!IInv, S!StoryInOrder, S!StageConsistent
    <3> QED BY <3>1, <3>2 DEF S!InPlace, S!Name
  <2> QED BY <1>7, <2>1 DEF S!Introduced
<1>9. \/ out' = <<S!Error(code)>> /\ (S!Length = 0 => convo = "alone")
      \/ out' = <<S!Name("meta"), S!Error(code)>> /\ S!Length = 0
  <2>1. <<S!Error(code)>> \in Seq(S!Event) /\ <<S!Name("meta")>> \in Seq(S!Event)
    BY <1>5 DEF S!Name, S!Event
  <2>2. <<>> \o <<S!Error(code)>> = <<S!Error(code)>>
    BY <2>1
  <2>3. <<S!Name("meta")>> \o <<S!Error(code)>> = <<S!Name("meta"), S!Error(code)>>
    BY <2>1, PairOf
  <2>4. CASE convo # "alone" /\ ~S!Introduced
    BY <1>6, <1>8, <2>3, <2>4
  <2>5. CASE ~(convo # "alone" /\ ~S!Introduced)
    BY <1>6, <1>8, <2>2, <2>5
  <2> QED BY <2>4, <2>5
<1>10. record' # Null => record'.usage = S!Complete' /\ record'.outcome = "failed" /\ (parts = "text" => record'.text)
  BY <1>3
<1>11. record' \in {Null} \cup S!Record /\ attempted' = TRUE /\ facets' \in 0 .. MaxPlanned
  BY <1>3
<1> QED BY <1>4, <1>5, <1>6, <1>9, <1>10, <1>11, Concludes

(* An end of the pipeline's own is told if it could be recorded, or outside conversations. *)
LEMMA FinishKeeps ==
  ASSUME S!Settings, S!IInv, at \in S!Waiting, out = <<>>, S!Kept, UNCHANGED <<facets, attempts, deltas, parts, metered>>,
         S!Length # 0,
         NEW outcome \in {"answered", "refused", "clarification"}, NEW text \in BOOLEAN, S!Finish(outcome, text),
         outcome = "answered" => text
  PROVE  S!IInv'
<1>1. PICK res \in S!Results : S!RecordOnce(outcome, text, res) /\ out' = <<S!Answer(res)>> /\ at' = "ending"
  BY DEF S!Finish, S!Goto
<1>2. at \in S!Running /\ outcome \in S!Outcome
  BY DEF S!Waiting, S!Outcome
<1>3. /\ attempted' = TRUE /\ record' \in {Null} \cup S!Record
      /\ res # "recorded" => record' = Null
      /\ res = "recorded" => record' # Null
      /\ record' # Null => record'.outcome = outcome /\ record'.text = text /\ record'.usage = S!Complete'
  BY <1>1, <1>2, Recorded
<1>4. Enough /\ metered' \in Seq(BOOLEAN)
  BY EnoughCalls
<1>5. facets' \in 0 .. MaxPlanned
  BY DEF S!IInv, S!TypeOK
<1>6. CASE convo = "alone" \/ res = "recorded"
  <2>1. S!Answer(res) = S!Name("done")
    BY <1>6 DEF S!Answer
  <2>2. S!Name("done") \in S!Event /\ S!Terminal(S!Name("done")) /\ S!Name("done").e = "done"
    BY DEF S!Name, S!Event, S!Terminal
  <2> QED BY <1>1, <1>3, <1>4, <1>5, <1>6, <2>1, <2>2, Concludes
<1>7. CASE ~(convo = "alone" \/ res = "recorded")
  <2>1. PICK code \in S!Code : S!Answer(res) = S!Error(code)
    BY <1>7 DEF S!Answer, S!Code
  <2>2. S!Error(code) \in S!Event /\ S!Terminal(S!Error(code)) /\ S!Error(code).e = "error"
    BY DEF S!Error, S!Event, S!Terminal
  <2> QED BY <1>1, <1>3, <1>4, <1>5, <1>7, <2>1, <2>2, Concludes
<1> QED BY <1>6, <1>7

(* A step that only goes on. *)
LEMMA Continues ==
  ASSUME S!Settings, S!IInv, at \in S!Waiting, out = <<>>, S!Kept, UNCHANGED <<attempted, record>>,
         facets' \in 0 .. MaxPlanned, attempts' \in 0 .. 2, deltas' \in 0 .. MaxDeltas, parts' \in {"none", "blank", "text"},
         S!CountConsistent',
         \/ out' = <<>> /\ at' = "retrieve" /\ S!Length = 0
         \/ out' = <<S!Name("meta")>> /\ at' \in {"refuse", "plan", "build"} /\ S!Length = 0
         \/ out' = <<S!Name("meta"), S!Name("sources")>> /\ at' = "clarify" /\ S!Length = 0
         \/ out' = <<>> /\ at' \in {"facets", "build"} /\ S!Length = 1
         \/ out' = <<S!Name("sources")>> /\ at' = "attempt" /\ S!Length = 1
         \/ out' = <<>> /\ at' \in {"attempt", "stream"} /\ S!Length >= 2
         \/ out' = <<S!Name("delta")>> /\ at' = "stream" /\ S!Length >= 2
  PROVE  S!IInv'
<1>1. /\ sent \in Seq(S!Event) /\ Len(sent) \in Nat /\ DOMAIN sent = 1 .. Len(sent) /\ S!Length = Len(sent)
      /\ UNCHANGED <<convo, transport, changed, sent, reply>>
  BY Positions DEF S!Kept
<1>2. \A n \in {"meta", "sources", "delta"} : S!Name(n) \in S!Event /\ ~S!Terminal(S!Name(n))
  BY DEF S!Name, S!Event, S!Terminal
<1>3. /\ out' \in Seq(S!Event) /\ DOMAIN out' = 1 .. Len(out') /\ Len(out') \in {0, 1, 2}
      /\ \A i \in DOMAIN out' : /\ ~S!Terminal(out'[i])
                               /\ out'[i] = S!Name(CASE Len(sent) + i = 1 -> "meta" [] Len(sent) + i = 2 -> "sources" [] OTHER -> "delta")
      /\ at' = "retrieve" => Len(sent) + Len(out') = 0
      /\ at' \in {"refuse", "plan", "facets", "build"} => Len(sent) + Len(out') = 1
      /\ at' = "clarify" => Len(sent) + Len(out') = 2
      /\ at' \in {"attempt", "stream"} => Len(sent) + Len(out') >= 2
      /\ at' \in {"retrieve", "refuse", "plan", "facets", "build", "clarify", "attempt", "stream"}
  <2>1. CASE out' = <<>>
    BY <1>1, <2>1
  <2>2. CASE out' = <<S!Name("meta")>> /\ at' \in {"refuse", "plan", "build"} /\ S!Length = 0
    BY <1>1, <1>2, <2>2
  <2>3. CASE out' = <<S!Name("meta"), S!Name("sources")>> /\ at' = "clarify" /\ S!Length = 0
    BY <1>1, <1>2, <2>3
  <2>4. CASE out' = <<S!Name("sources")>> /\ at' = "attempt" /\ S!Length = 1
    BY <1>1, <1>2, <2>4
  <2>5. CASE out' = <<S!Name("delta")>> /\ at' = "stream" /\ S!Length >= 2
    BY <1>1, <1>2, <2>5
  <2> QED BY <2>1, <2>2, <2>3, <2>4, <2>5
<1>4. record' = Null /\ attempted' = FALSE /\ record = Null
  BY DEF S!IInv, S!RecordConsistent, S!TypeOK
<1>5. \A i \in DOMAIN sent : S!InPlace(sent[i], i) /\ ~S!Terminal(sent[i]) /\ sent[i].e \notin {"done", "error"}
  BY DEF S!IInv, S!StoryInOrder, S!StageConsistent, S!Terminal
<1>6. \A i \in DOMAIN out' : out'[i].e \notin {"done", "error"}
  BY <1>3 DEF S!Terminal
<1>7. \A s \in {out', sent'} : \A i \in DOMAIN s : s[i] \in S!Event
  BY <1>1, <1>3
<1>8. S!TypeOK'
  <2>1. at' \in S!Running \cup S!Over
    BY <1>3 DEF S!Running
  <2> QED BY <1>1, <1>4, <1>7, <2>1 DEF S!IInv, S!TypeOK
<1>9. S!Told' = S!Told /\ "done" \notin S!Told /\ "error" \notin S!Told
  BY <1>1, <1>5 DEF S!Told
<1>10. S!ToldIsRecorded' /\ S!UsageIsWhole'
  BY <1>1, <1>4, <1>9 DEF S!IInv, S!ToldIsRecorded, S!UsageIsWhole
<1>11. S!Length' = Len(sent) + Len(out')
  BY <1>1 DEF S!Length
<1>12. S!StoryInOrder'
  <2>1. (\A i \in DOMAIN sent : S!InPlace(sent[i], i))'
    BY <1>1, <1>5 DEF S!InPlace
  <2>2. (\A i \in DOMAIN out : S!InPlace(out[i], Len(sent) + i))'
    BY <1>1, <1>3 DEF S!InPlace
  <2> QED BY <1>1, <1>3, <2>1, <2>2 DEF S!IInv, S!StoryInOrder, S!Over
<1>13. S!StageConsistent'
  BY <1>1, <1>3, <1>5, <1>11 DEF S!StageConsistent
<1>14. S!RecordConsistent'
  BY <1>1, <1>3, <1>4, <1>5, <1>6 DEF S!RecordConsistent, S!Over
<1> QED BY <1>8, <1>10, <1>12, <1>13, <1>14 DEF S!IInv

(* What was told stays in order when nothing more is told. *)
LEMMA StopsOrderly ==
  ASSUME S!Settings, S!IInv, S!Kept, UNCHANGED <<facets, attempts, deltas, parts>>,
         out' = <<>>, at' \in S!Over, S!ToldIsRecorded', S!UsageIsWhole',
         metered' \in Seq(BOOLEAN), attempted' \in BOOLEAN, record' \in {Null} \cup S!Record, ~attempted' => record' = Null,
         at' \in {"ended", "cancelled"} => attempted', at' = "raised" => attempted' \/ parts = "text",
         \A i \in DOMAIN sent : /\ sent[i].e = "done" => IF record' = Null THEN convo = "alone"
                                                        ELSE record'.outcome \in {"answered", "refused", "clarification"}
                                /\ sent[i].e = "error" => record' = Null \/ record'.outcome = "failed"
                                /\ S!Terminal(sent[i]) => attempted'
  PROVE  S!IInv'
<1>1. /\ sent \in Seq(S!Event) /\ Len(sent) \in Nat /\ DOMAIN sent = 1 .. Len(sent) /\ Len(out) \in Nat
      /\ UNCHANGED <<convo, transport, changed, sent, reply>>
  BY Positions DEF S!Kept
<1>2. at' \notin S!Waiting /\ at' # "ending" /\ at' # "normalise" /\ at' # "attempt" /\ at' # "stream"
  BY DEF S!Over, S!Waiting, S!Running
<1>3. out' \in Seq(S!Event) /\ Len(out') = 0 /\ DOMAIN out' = {}
  OBVIOUS
<1>4. S!TypeOK'
  <2>1. \A s \in {out', sent'} : \A i \in DOMAIN s : s[i] \in S!Event
    BY <1>1, <1>3
  <2> QED BY <1>1, <2>1 DEF S!IInv, S!TypeOK, S!Record
<1>5. S!Length' = Len(sent)
  BY <1>1, <1>3 DEF S!Length
<1>6. (\A i \in DOMAIN sent : S!InPlace(sent[i], i))'
  <2>1. \A i \in DOMAIN sent : S!InPlace(sent[i], i)
    BY DEF S!IInv, S!StoryInOrder
  <2>2. \A i \in DOMAIN sent : i = S!Length => i = Len(sent)
    <3>1. S!Length = Len(sent) + Len(out)
      BY DEF S!Length
    <3>2. \A n, m \in Nat : \A i \in 1 .. n : i = n + m => i = n
      OBVIOUS
    <3> QED BY <1>1, <3>1, <3>2
  <2>3. \A i \in DOMAIN sent : S!InPlace(sent[i], i)'
    <3>1. SUFFICES ASSUME NEW i \in DOMAIN sent PROVE S!InPlace(sent[i], i)'
      OBVIOUS
    <3>2. S!InPlace(sent[i], i) /\ (i = S!Length => i = S!Length')
      BY <1>5, <2>1, <2>2
    <3> QED BY <1>1, <3>2 DEF S!InPlace, S!Terminal, S!Name
  <2> QED BY <1>1, <2>3
<1>7. S!StoryInOrder'
  BY <1>1, <1>3, <1>6 DEF S!IInv, S!StoryInOrder
<1>8. S!StageConsistent' /\ S!CountConsistent'
  BY <1>2 DEF S!StageConsistent, S!CountConsistent, S!Waiting
<1>9. S!RecordConsistent'
  <2>1. (\A i \in DOMAIN sent : S!Terminal(sent[i]) => attempted)'
    BY <1>1 DEF S!Terminal
  <2> QED BY <1>1, <1>2, <1>3, <2>1 DEF S!RecordConsistent
<1> QED BY <1>4, <1>7, <1>8, <1>9 DEF S!IInv

(* A query that is raised, cancelled or dead tells nothing more. *)
LEMMA Stops ==
  ASSUME S!Settings, S!IInv, at \in S!Running, S!Kept, UNCHANGED <<facets, attempts, deltas, parts>>,
         out' = <<>>, at' \in S!Over \ {"ended"},
         \/ at' # "dead" /\ S!Interrupted /\ \E outcome \in {"failed", "cancelled"} : S!RecordIncomplete(outcome)
         \/ at' = "raised" /\ parts = "text" /\ UNCHANGED <<metered, attempted, record>>
         \/ at' = "dead" /\ UNCHANGED <<metered, attempted, record>>
  PROVE  S!IInv'
<1>1. /\ sent \in Seq(S!Event) /\ Len(sent) \in Nat /\ DOMAIN sent = 1 .. Len(sent) /\ Len(out) \in Nat
      /\ UNCHANGED <<convo, transport, changed, sent, reply>>
  BY Positions DEF S!Kept
<1>2. at' \notin S!Waiting /\ at' # "ending"
  BY DEF S!Over, S!Waiting, S!Running
<1>3. metered \in Seq(BOOLEAN)
  BY DEF S!IInv, S!CountConsistent
<1>4. metered' \in Seq(BOOLEAN) /\ (at = "ending" => metered' = metered)
        /\ (metered' = metered \/ metered' \in S!Metering)
  BY <1>3, Metered DEF S!Interrupted
<1>5. ASSUME NEW outcome \in {"failed", "cancelled"}, S!RecordIncomplete(outcome)
      PROVE  /\ attempted' = TRUE /\ record' \in {Null} \cup S!Record
             /\ at = "ending" => record' = record
             /\ at # "ending" /\ record' # Null => record'.usage = S!Complete' /\ (parts = "text" => record'.text)
  <2>1. PICK res \in S!Results : S!RecordOnce(outcome, parts = "text", res)
    BY <1>5 DEF S!RecordIncomplete
  <2>2. outcome \in S!Outcome /\ (parts = "text") \in BOOLEAN
    BY DEF S!Outcome
  <2>3. CASE at = "ending"
    <3>1. attempted' = TRUE /\ record' = record
      BY <2>1, <2>2, <2>3, Recorded
    <3> QED BY <2>3, <3>1 DEF S!IInv, S!TypeOK, S!Record
  <2>4. CASE at \in S!Waiting
    <3>1. /\ attempted' = TRUE /\ record' \in {Null} \cup S!Record
          /\ record' # Null => record'.text = (parts = "text") /\ record'.usage = S!Complete'
      BY <2>1, <2>2, <2>4, Recorded
    <3> QED BY <2>4, <3>1 DEF S!Waiting
  <2> QED BY <2>3, <2>4 DEF S!Waiting
<1>6. /\ record' \in {Null} \cup S!Record /\ attempted' \in BOOLEAN /\ (~attempted' => record' = Null)
      /\ at' \in {"ended", "cancelled"} => attempted'
      /\ at' = "raised" => attempted' \/ parts = "text"
      /\ attempted => attempted'
  <2>1. CASE at' \in {"raised", "dead"} /\ (at' = "raised" => parts = "text") /\ UNCHANGED <<metered, attempted, record>>
    BY <2>1 DEF S!IInv, S!TypeOK, S!RecordConsistent, S!Record
  <2>2. CASE \E outcome \in {"failed", "cancelled"} : S!RecordIncomplete(outcome)
    BY <1>5, <2>2
  <2> QED BY <2>1, <2>2
<1>7. CASE at = "ending"
  <2>1. record' = record /\ S!Told' = S!Told /\ S!Complete' = S!Complete
    BY <1>1, <1>4, <1>5, <1>7 DEF S!Told, S!Complete
  <2>2. S!ToldIsRecorded' /\ S!UsageIsWhole'
    BY <1>1, <1>4, <1>7, <2>1 DEF S!IInv, S!ToldIsRecorded, S!UsageIsWhole
  <2>3. \A i \in DOMAIN sent : /\ sent[i].e = "done" => IF record' = Null THEN convo = "alone"
                                                       ELSE record'.outcome \in {"answered", "refused", "clarification"}
                               /\ sent[i].e = "error" => record' = Null \/ record'.outcome = "failed"
                               /\ S!Terminal(sent[i]) => attempted'
    BY <1>6, <1>7, <2>1 DEF S!IInv, S!RecordConsistent
  <2> QED BY <2>2, <2>3, <1>1, <1>2, <1>4, <1>6, StopsOrderly
<1>8. CASE at \in S!Waiting
  <2>1. \A i \in DOMAIN sent : ~S!Terminal(sent[i]) /\ sent[i].e \notin {"done", "error"}
    BY <1>8 DEF S!IInv, S!StageConsistent, S!Terminal
  <2>2. S!Told' = S!Told /\ "done" \notin S!Told /\ "error" \notin S!Told
    BY <1>1, <2>1 DEF S!Told
  <2>3. record' # Null => record'.usage = S!Complete' /\ (parts = "text" => record'.text)
    <3>1. record = Null /\ at # "ending"
      BY <1>8 DEF S!IInv, S!RecordConsistent, S!Waiting
    <3> QED BY <1>5, <3>1
  <2>4. Enough
    BY <1>4, <1>8, EnoughCalls
  <2>5. S!UsageIsWhole' /\ (record' # Null /\ record'.outcome \notin {"refused", "clarification"} /\ parts' = "text" => record'.text)
    BY <1>1, <1>6, <1>8, <2>3, <2>4, RecordHolds
  <2>6. S!ToldIsRecorded'
    BY <1>1, <2>2, <2>5 DEF S!IInv, S!ToldIsRecorded
  <2> QED BY <2>1, <2>5, <2>6, <1>1, <1>2, <1>4, <1>6, StopsOrderly
<1> QED BY <1>7, <1>8 DEF S!Waiting

(* Any other step of the model's: the client's side, the corpus, or the generator's return. *)
LEMMA TakeKeeps ==
  ASSUME S!Settings, S!IInv, S!SendFrame \/ S!Collect
  PROVE  S!IInv'
<1>1. /\ sent \in Seq(S!Event) /\ Len(sent) \in Nat /\ DOMAIN sent = 1 .. Len(sent)
      /\ out \in Seq(S!Event) /\ Len(out) \in Nat /\ DOMAIN out = 1 .. Len(out)
  BY Positions
<1>2. /\ out # <<>> /\ sent' = Append(sent, Head(out)) /\ out' = Tail(out)
      /\ UNCHANGED <<convo, transport, changed, at, facets, attempts, deltas, parts, metered, attempted, record>>
      /\ transport = "sse" => reply' = reply
      /\ transport = "json" => reply' = CASE Head(out).e = "error" -> S!StatusOf[Head(out).code]
                                           [] Head(out).e = "done" -> 200
                                           [] OTHER -> Null
  BY DEF S!SendFrame, S!Collect
<1>3. Head(out) = out[1] /\ Len(out) > 0 /\ out[1] \in S!Event
  BY <1>1, <1>2
<1>4. /\ sent' \in Seq(S!Event) /\ Len(sent') = Len(sent) + 1 /\ DOMAIN sent' = 1 .. Len(sent) + 1
      /\ \A i \in 1 .. Len(sent) : sent'[i] = sent[i]
      /\ sent'[Len(sent) + 1] = out[1]
  BY <1>1, <1>2, <1>3, AppendProperties, LenProperties
<1>5. /\ out' \in Seq(S!Event) /\ Len(out') = Len(out) - 1 /\ DOMAIN out' = 1 .. Len(out) - 1
      /\ \A i \in 1 .. Len(out) - 1 : out'[i] = out[i + 1]
  BY <1>1, <1>2, <1>3, HeadTailProperties, LenProperties
<1>6. S!Length' = S!Length
  BY <1>1, <1>3, <1>4, <1>5 DEF S!Length
<1>7. /\ \A i \in 1 .. Len(sent) : S!InPlace(sent[i], i)
      /\ \A i \in 1 .. Len(out) : S!InPlace(out[i], Len(sent) + i)
  BY <1>1 DEF S!IInv, S!StoryInOrder
<1>8. S!StoryInOrder'
  <2>1. (\A i \in DOMAIN sent : S!InPlace(sent[i], i))'
    BY <1>1, <1>2, <1>3, <1>4, <1>6, <1>7 DEF S!InPlace
  <2>2. (\A i \in DOMAIN out : S!InPlace(out[i], Len(sent) + i))'
    <3>1. \A i \in 1 .. Len(out) - 1 : i + 1 \in 1 .. Len(out) /\ Len(sent) + 1 + i = Len(sent) + (i + 1)
      BY <1>1
    <3> QED BY <1>1, <1>2, <1>4, <1>5, <1>6, <1>7, <3>1 DEF S!InPlace
  <2>3. at \notin S!Over /\ (transport = "sse" => reply' = Null)
    BY <1>2 DEF S!IInv, S!StoryInOrder
  <2> QED BY <1>2, <1>4, <1>5, <2>1, <2>2, <2>3 DEF S!StoryInOrder
<1>9. \A i \in 1 .. Len(sent) : ~S!Terminal(sent[i])
  BY <1>1, <1>3, <1>7 DEF S!InPlace, S!Length
<1>10. \A s \in {sent', out'} : \A i \in DOMAIN s : \E t \in {sent, out} : \E j \in DOMAIN t : s[i] = t[j]
  <2>1. \A i \in DOMAIN sent' : (i \in DOMAIN sent /\ sent'[i] = sent[i]) \/ (1 \in DOMAIN out /\ sent'[i] = out[1])
    BY <1>1, <1>3, <1>4
  <2>2. \A i \in DOMAIN out' : i + 1 \in DOMAIN out /\ out'[i] = out[i + 1]
    BY <1>1, <1>5
  <2> QED BY <2>1, <2>2
<1>11. S!RecordConsistent'
  <2>1. \A s \in {sent, out} : \A i \in DOMAIN s :
          /\ s[i].e = "done" => IF record = Null THEN convo = "alone" ELSE record.outcome \in {"answered", "refused", "clarification"}
          /\ s[i].e = "error" => record = Null \/ record.outcome = "failed"
          /\ S!Terminal(s[i]) => attempted
    BY DEF S!IInv, S!RecordConsistent
  <2>2. \A s \in {sent', out'} : \A i \in DOMAIN s :
          /\ s[i].e = "done" => IF record = Null THEN convo = "alone" ELSE record.outcome \in {"answered", "refused", "clarification"}
          /\ s[i].e = "error" => record = Null \/ record.outcome = "failed"
          /\ S!Terminal(s[i]) => attempted
    BY <1>10, <2>1 DEF S!Terminal
  <2>3. /\ at \in S!Waiting => ~attempted
        /\ at \in {"ending", "ended", "cancelled"} => attempted
        /\ at = "raised" => attempted \/ parts = "text"
        /\ ~attempted => record = Null
    BY DEF S!IInv, S!RecordConsistent
  <2> QED BY <1>2, <2>2, <2>3 DEF S!RecordConsistent, S!Terminal
<1>12. S!StageConsistent'
  <2>1. at \in S!Waiting => (\A i \in DOMAIN sent' : ~S!Terminal(sent'[i])) /\ (\A i \in DOMAIN out' : ~S!Terminal(out'[i]))
    BY <1>10 DEF S!IInv, S!StageConsistent
  <2> QED BY <1>2, <1>6, <2>1 DEF S!IInv, S!StageConsistent, S!Terminal
<1>13. S!CountConsistent' /\ S!UsageIsWhole'
  BY <1>2 DEF S!IInv, S!CountConsistent, S!UsageIsWhole, S!Calls, S!Complete
<1>14. reply' \in {Null, 200, 409, 429, 503} /\ (reply' # Null => (reply' = 200 <=> "done" \in S!Told'))
  <2>1. S!Told' = S!Told \cup {out[1].e} /\ "done" \notin S!Told
    BY <1>1, <1>4, <1>9 DEF S!Told, S!Terminal
  <2>2. CASE transport = "sse"
    BY <1>2, <2>2 DEF S!IInv, S!StoryInOrder
  <2>3. CASE transport = "json"
    <3>1. out[1].e = "error" => S!StatusOf[out[1].code] \in {409, 429, 503}
      BY <1>3 DEF S!StatusOf, S!Event
    <3>2. out[1].e \in {"error", "done"} \/ reply' = Null
      BY <1>2, <1>3, <2>3
    <3>3. out[1].e = "error" => reply' \in {409, 429, 503}
      BY <1>2, <1>3, <2>3, <3>1
    <3>4. out[1].e = "done" => reply' = 200
      BY <1>2, <1>3, <2>3
    <3> QED BY <2>1, <3>2, <3>3, <3>4
  <2> QED BY <2>2, <2>3 DEF S!IInv, S!TypeOK
<1>15. \A s \in {sent', out'} : \A i \in DOMAIN s : s[i] \in S!Event
  BY <1>4, <1>5
<1>16. S!TypeOK'
  BY <1>2, <1>14, <1>15 DEF S!IInv, S!TypeOK
<1>17. S!ToldIsRecorded'
  <2>1. /\ "done" \in S!Told' => IF record' = Null THEN convo = "alone" ELSE record'.outcome \in {"answered", "refused", "clarification"}
        /\ "error" \in S!Told' => record' = Null \/ record'.outcome = "failed"
    BY <1>2, <1>11 DEF S!RecordConsistent, S!Told
  <2> QED BY <1>2, <1>14, <2>1 DEF S!IInv, S!ToldIsRecorded
<1> QED BY <1>8, <1>11, <1>12, <1>13, <1>16, <1>17 DEF S!IInv

(* The steps before the first attempt. *)
LEMMA BeginningKeeps ==
  ASSUME S!Settings, S!IInv,
         S!Normalise \/ S!Clarify \/ S!Retrieve \/ S!RefuseAtGate \/ S!Plan \/ S!SearchFacet \/ S!BuildSources
  PROVE  S!IInv'
<1>1. /\ metered \in Seq(BOOLEAN) /\ Len(metered) \in Nat /\ facets \in 0 .. MaxPlanned /\ attempts \in 0 .. 2
      /\ deltas \in 0 .. MaxDeltas /\ parts \in {"none", "blank", "text"} /\ MaxPlanned \in Nat
  BY DEF S!IInv, S!TypeOK, S!CountConsistent, S!Settings
<1>2. S!Failure \subseteq S!Code /\ S!BudgetCode \subseteq S!Code
  BY DEF S!Failure, S!BudgetCode, S!Code
<1>3. at \in S!Waiting => Len(metered) >= S!Calls
  BY DEF S!IInv, S!CountConsistent
<1>4. at \in S!Waiting \ {"attempt", "stream"} => attempts = 0
  BY DEF S!IInv, S!CountConsistent
<1>5. CASE S!Normalise
  <2>1. /\ at = "normalise" /\ at \in S!Waiting /\ out = <<>> /\ metered' \in S!Metering /\ S!Kept
        /\ UNCHANGED <<facets, attempts, deltas, parts>>
    BY <1>5 DEF S!Normalise, S!At, S!Waiting, S!Running
  <2>2. Len(metered') = Len(metered) + 1 /\ metered' \in Seq(BOOLEAN)
    BY <1>1, <2>1, Metered
  <2>3. CASE at' \in {"retrieve", "clarify"}
    <3>1. S!CountConsistent'
      BY <1>1, <1>4, <2>1, <2>2, <2>3 DEF S!CountConsistent, S!Calls, S!Kept
    <3>2. S!Length = 0
      BY <2>1 DEF S!IInv, S!StageConsistent
    <3>3. \A code \in S!Failure : ~S!Fail(code)
      BY <2>3 DEF S!Fail, S!Goto
    <3>4. \/ at' = "retrieve" /\ out' = <<>> /\ UNCHANGED <<attempted, record>>
          \/ at' = "clarify" /\ out' = <<S!Name("meta"), S!Name("sources")>> /\ UNCHANGED <<attempted, record>>
      BY <1>5, <3>3 DEF S!Normalise, S!Goto
    <3> QED BY <1>1, <2>1, <3>1, <3>2, <3>4, Continues
  <2>4. ASSUME NEW code \in S!Failure, S!Fail(code) PROVE S!IInv'
    BY <1>1, <1>2, <2>1, <2>4, FailKeeps
  <2> QED BY <1>5, <2>3, <2>4 DEF S!Normalise, S!Goto
<1>6. CASE S!Clarify \/ S!RefuseAtGate
  <2>1. /\ at \in {"clarify", "refuse"} /\ at \in S!Waiting /\ out = <<>> /\ S!Kept
        /\ UNCHANGED <<facets, attempts, deltas, parts, metered>>
        /\ (S!Finish("clarification", TRUE) \/ S!Finish("refused", FALSE))
    BY <1>6 DEF S!Clarify, S!RefuseAtGate, S!At, S!Waiting, S!Running
  <2>2. S!Length # 0
    BY <2>1 DEF S!IInv, S!StageConsistent
  <2> QED BY <2>1, <2>2, FinishKeeps
<1>7. CASE S!Retrieve
  <2>1. /\ at = "retrieve" /\ at \in S!Waiting /\ out = <<>> /\ metered' = metered /\ S!Kept
        /\ UNCHANGED <<facets, attempts, deltas, parts>>
    BY <1>7 DEF S!Retrieve, S!At, S!Waiting, S!Running
  <2>2. ASSUME at' \in {"refuse", "plan", "build"}, out' = <<S!Name("meta")>>, UNCHANGED <<attempted, record>> PROVE S!IInv'
    <3>1. S!CountConsistent'
      BY <1>1, <1>3, <1>4, <2>1, <2>2 DEF S!CountConsistent, S!Calls, S!Kept
    <3>2. S!Length = 0
      BY <2>1 DEF S!IInv, S!StageConsistent
    <3> QED BY <1>1, <2>1, <2>2, <3>1, <3>2, Continues
  <2>3. ASSUME NEW code \in S!Failure, S!Fail(code) PROVE S!IInv'
    BY <1>1, <1>2, <2>1, <2>3, FailKeeps
  <2> QED BY <1>7, <2>2, <2>3 DEF S!Retrieve, S!Goto
<1>8. CASE S!Plan
  <2>1. /\ at = "plan" /\ at \in S!Waiting /\ out = <<>> /\ metered' \in S!Metering /\ S!Kept
        /\ UNCHANGED <<attempts, deltas, parts>>
    BY <1>8 DEF S!Plan, S!At, S!Waiting, S!Running
  <2>2. Len(metered') = Len(metered) + 1 /\ metered' \in Seq(BOOLEAN)
    BY <1>1, <2>1, Metered
  <2>3. ASSUME NEW o \in S!PlannerOutput PROVE S!Planned(o) \in 0 .. MaxPlanned
    <3>1. PICK n \in 0 .. MaxPlanned + 1 : o.queries \in [1 .. n -> S!Word]
      BY <2>3 DEF S!PlannerOutput
    <3>2. Len(o.queries) \in Nat
      BY <1>1, <3>1
    <3> QED BY <1>1, <3>2 DEF S!Planned
  <2>4. ASSUME facets' \in 0 .. MaxPlanned, at' = "facets", UNCHANGED <<attempted, record, out>> PROVE S!IInv'
    <3>1. S!CountConsistent'
      BY <1>1, <1>3, <1>4, <2>1, <2>2, <2>4 DEF S!CountConsistent, S!Calls, S!Kept
    <3>2. S!Length = 1
      BY <2>1 DEF S!IInv, S!StageConsistent
    <3> QED BY <1>1, <2>1, <2>4, <3>1, <3>2, Continues
  <2>5. ASSUME NEW code \in S!BudgetCode, UNCHANGED facets, S!Fail(code) PROVE S!IInv'
    BY <1>1, <1>2, <2>1, <2>5, FailKeeps
  <2> QED BY <1>1, <1>8, <2>3, <2>4, <2>5 DEF S!Plan, S!Goto
<1>9. CASE S!SearchFacet
  <2>1. /\ at = "facets" /\ at \in S!Waiting /\ out = <<>> /\ metered' = metered /\ S!Kept /\ facets > 0
        /\ UNCHANGED <<attempts, deltas, parts>>
    BY <1>9 DEF S!SearchFacet, S!At, S!Waiting, S!Running
  <2>2. ASSUME facets' = facets - 1, UNCHANGED <<at, attempted, record, out>> PROVE S!IInv'
    <3>1. S!CountConsistent'
      BY <1>1, <1>3, <1>4, <2>1, <2>2 DEF S!CountConsistent, S!Calls, S!Kept
    <3>2. S!Length = 1 /\ facets' \in 0 .. MaxPlanned
      BY <1>1, <2>1, <2>2 DEF S!IInv, S!StageConsistent
    <3> QED BY <1>1, <2>1, <2>2, <3>1, <3>2, Continues
  <2>3. ASSUME NEW code \in S!BudgetCode, UNCHANGED facets, S!Fail(code) PROVE S!IInv'
    BY <1>1, <1>2, <2>1, <2>3, FailKeeps
  <2> QED BY <1>9, <2>2, <2>3 DEF S!SearchFacet
<1>10. CASE S!BuildSources
  <2>1. /\ at \in {"build", "facets"} /\ at \in S!Waiting /\ out = <<>> /\ metered' = metered /\ S!Kept
        /\ UNCHANGED <<facets, attempts, deltas, parts, attempted, record>>
        /\ at' = "attempt" /\ out' = <<S!Name("sources")>>
    BY <1>10 DEF S!BuildSources, S!At, S!Goto, S!Waiting, S!Running
  <2>2. S!CountConsistent'
    BY <1>1, <1>3, <1>4, <2>1 DEF S!CountConsistent, S!Calls, S!Kept
  <2>3. S!Length = 1
    BY <2>1 DEF S!IInv, S!StageConsistent
  <2> QED BY <1>1, <2>1, <2>2, <2>3, Continues
<1> QED BY <1>5, <1>6, <1>7, <1>8, <1>9, <1>10

(* The attempts to answer. *)
LEMMA AttemptKeeps ==
  ASSUME S!Settings, S!IInv,
         \/ S!StartAttempt \/ S!Observe \/ (\E text \in BOOLEAN : S!Delta(text))
         \/ S!RefuseByModel \/ S!FinishAnswer \/ S!EmptyCompletion \/ S!BreakStream
  PROVE  S!IInv'
<1>1. /\ metered \in Seq(BOOLEAN) /\ Len(metered) \in Nat /\ facets \in 0 .. MaxPlanned /\ attempts \in 0 .. 2
      /\ deltas \in 0 .. MaxDeltas /\ parts \in {"none", "blank", "text"} /\ MaxDeltas \in Nat
  BY DEF S!IInv, S!TypeOK, S!CountConsistent, S!Settings
<1>2. S!Failure \subseteq S!Code /\ "provider_unavailable" \in S!Code
  BY DEF S!Failure, S!BudgetCode, S!Code
<1>3. /\ at \in {"attempt", "stream"} /\ at \in S!Waiting /\ out = <<>> /\ S!Kept /\ UNCHANGED facets
  BY DEF S!StartAttempt, S!Observe, S!Delta, S!RefuseByModel, S!FinishAnswer, S!EmptyCompletion, S!BreakStream, S!At, S!Waiting,
     S!Running
<1>4. S!Length >= 2 /\ S!Length # 0 /\ Len(metered) >= S!Calls /\ (at = "attempt" => attempts < 2) /\ (at = "stream" => attempts > 0)
  BY <1>3 DEF S!IInv, S!StageConsistent, S!CountConsistent, S!Length
<1>5. S!Calls = attempts + (IF convo = "followup" THEN 1 ELSE 0)
  BY <1>3 DEF S!Calls
<1>6. CASE S!StartAttempt
  <2>1. /\ attempts' = attempts + 1 /\ deltas' = 0 /\ parts' = "none" /\ metered' = Append(metered, FALSE) /\ at' = "stream"
        /\ UNCHANGED <<attempted, record, out>> /\ at = "attempt"
    BY <1>6 DEF S!StartAttempt, S!Goto, S!At
  <2>2. metered' \in Seq(BOOLEAN) /\ Len(metered') = Len(metered) + 1
    BY <1>1, <2>1
  <2>3. S!CountConsistent'
    BY <1>1, <1>3, <1>4, <1>5, <2>1, <2>2 DEF S!CountConsistent, S!Calls, S!Kept
  <2> QED BY <1>1, <1>3, <1>4, <2>1, <2>3, Continues
<1>7. CASE S!Observe
  <2>1. /\ metered' = S!Front(metered) \o <<TRUE>> /\ at = "stream" /\ UNCHANGED <<at, attempts, deltas, parts, attempted, record, out>>
    BY <1>7 DEF S!Observe, S!At
  <2>2. Len(metered) > 0
    BY <1>1, <1>4, <1>5, <2>1
  <2>3. S!Front(metered) \in Seq(BOOLEAN) /\ Len(S!Front(metered)) = Len(metered) - 1
    <3>1. Len(metered) - 1 \in Int /\ 1 \in Int /\ (1 <= Len(metered) - 1 <=> Len(metered) > 1)
      BY <1>1
    <3>2. \A i \in 1 .. Len(metered) - 1 : metered[i] \in BOOLEAN
      BY <1>1, ElementOfSeq
    <3>3. /\ SubSeq(metered, 1, Len(metered) - 1) \in Seq(BOOLEAN)
          /\ Len(SubSeq(metered, 1, Len(metered) - 1)) = IF 1 <= Len(metered) - 1 THEN Len(metered) - 1 - 1 + 1 ELSE 0
      BY <3>1, <3>2, SubSeqProperties
    <3>4. Len(SubSeq(metered, 1, Len(metered) - 1)) = Len(metered) - 1
      <4>1. \A n \in Nat : n > 0 => (IF 1 <= n - 1 THEN n - 1 - 1 + 1 ELSE 0) = n - 1
        OBVIOUS
      <4> QED BY <1>1, <2>2, <3>3, <4>1
    <3> QED BY <3>3, <3>4 DEF S!Front
  <2>4. <<TRUE>> \in Seq(BOOLEAN) /\ Len(<<TRUE>>) = 1
    OBVIOUS
  <2>5. metered' \in Seq(BOOLEAN) /\ Len(metered') = Len(metered)
    BY <1>1, <2>1, <2>3, <2>4, ConcatProperties
  <2>6. S!CountConsistent'
    BY <1>1, <1>3, <1>4, <1>5, <2>1, <2>5 DEF S!CountConsistent, S!Calls, S!Kept
  <2> QED BY <1>1, <1>3, <1>4, <2>1, <2>6, Continues
<1>8. ASSUME NEW text \in BOOLEAN, S!Delta(text) PROVE S!IInv'
  <2>1. /\ deltas < MaxDeltas /\ deltas' = deltas + 1 /\ parts' \in {"text", "blank"} /\ out' = <<S!Name("delta")>> /\ at = "stream"
        /\ UNCHANGED <<at, attempts, metered, attempted, record>>
    BY <1>8 DEF S!Delta, S!At
  <2>2. S!CountConsistent'
    BY <1>1, <1>3, <1>4, <1>5, <2>1 DEF S!CountConsistent, S!Calls, S!Kept
  <2>3. deltas' \in 0 .. MaxDeltas
    BY <1>1, <2>1
  <2> QED BY <1>1, <1>3, <1>4, <2>1, <2>2, <2>3, Continues
<1>9. CASE S!RefuseByModel \/ S!FinishAnswer
  <2>1. /\ UNCHANGED <<facets, attempts, deltas, parts, metered>>
        /\ (S!Finish("refused", FALSE) \/ S!Finish("answered", TRUE))
    BY <1>9 DEF S!RefuseByModel, S!FinishAnswer
  <2> QED BY <1>3, <1>4, <2>1, FinishKeeps
<1>10. CASE S!EmptyCompletion
  <2>1. at = "stream" /\ UNCHANGED <<attempts, deltas, parts, metered>>
    BY <1>10 DEF S!EmptyCompletion, S!At
  <2>2. CASE attempts = 1
    <3>1. at' = "attempt" /\ UNCHANGED <<attempted, record, out>>
      BY <1>10, <2>2 DEF S!EmptyCompletion, S!Goto
    <3>2. S!CountConsistent'
      BY <1>1, <1>3, <1>4, <1>5, <2>1, <2>2, <3>1 DEF S!CountConsistent, S!Calls, S!Kept
    <3> QED BY <1>1, <1>3, <1>4, <2>1, <3>1, <3>2, Continues
  <2>3. CASE attempts # 1
    BY <1>1, <1>2, <1>3, <1>10, <2>1, <2>3, FailKeeps DEF S!EmptyCompletion
  <2> QED BY <2>2, <2>3
<1>11. CASE S!BreakStream
  <2>1. UNCHANGED <<attempts, deltas, parts, metered>> /\ \E code \in S!Code : S!Fail(code)
    BY <1>2, <1>11 DEF S!BreakStream
  <2> QED BY <1>1, <1>3, <2>1, FailKeeps
<1> QED BY <1>6, <1>7, <1>8, <1>9, <1>10, <1>11

(* Every step of a query keeps its story and its record in order. *)
LEMMA StreamStep == ASSUME S!Settings, S!IInv, [S!Next]_(S!vars) PROVE S!IInv'
<1>1. CASE S!Normalise \/ S!Clarify \/ S!Retrieve \/ S!RefuseAtGate \/ S!Plan \/ S!SearchFacet \/ S!BuildSources
  BY <1>1, BeginningKeeps
<1>2. CASE \/ S!StartAttempt \/ S!Observe \/ (\E text \in BOOLEAN : S!Delta(text))
           \/ S!RefuseByModel \/ S!FinishAnswer \/ S!EmptyCompletion \/ S!BreakStream
  BY <1>2, AttemptKeeps
<1>3. CASE S!Raise \/ S!RaiseInRecord \/ S!Cancel \/ S!Die
  <2>1. S!Kept /\ UNCHANGED <<facets, attempts, deltas, parts>> /\ at \in S!Running /\ out' = <<>>
    BY <1>3 DEF S!Raise, S!RaiseInRecord, S!Cancel, S!Die
  <2>2. at' \in S!Over \ {"ended"}
    BY <1>3 DEF S!Raise, S!RaiseInRecord, S!Cancel, S!Die, S!Goto, S!Over
  <2>3. \/ at' # "dead" /\ S!Interrupted /\ \E outcome \in {"failed", "cancelled"} : S!RecordIncomplete(outcome)
        \/ at' = "raised" /\ parts = "text" /\ UNCHANGED <<metered, attempted, record>>
        \/ at' = "dead" /\ UNCHANGED <<metered, attempted, record>>
    BY <1>3 DEF S!Raise, S!RaiseInRecord, S!Cancel, S!Die, S!Goto
  <2> QED BY <2>1, <2>2, <2>3, Stops
<1>4. CASE S!End
  <2>1. /\ at = "ending" /\ out = <<>> /\ out' = <<>> /\ at' = "ended" /\ S!Kept
        /\ UNCHANGED <<facets, attempts, deltas, parts, metered, attempted, record>>
    BY <1>4 DEF S!End, S!At, S!Goto
  <2>2. at' \in S!Over
    BY <2>1 DEF S!Over
  <2>3. S!ToldIsRecorded' /\ S!UsageIsWhole'
    BY <2>1 DEF S!IInv, S!ToldIsRecorded, S!UsageIsWhole, S!Told, S!Complete, S!Kept
  <2>4. /\ metered' \in Seq(BOOLEAN) /\ attempted' = TRUE /\ record' \in {Null} \cup S!Record /\ (~attempted' => record' = Null)
        /\ \A i \in DOMAIN sent : /\ sent[i].e = "done" => IF record' = Null THEN convo = "alone"
                                                          ELSE record'.outcome \in {"answered", "refused", "clarification"}
                                  /\ sent[i].e = "error" => record' = Null \/ record'.outcome = "failed"
                                  /\ S!Terminal(sent[i]) => attempted'
    BY <2>1 DEF S!IInv, S!TypeOK, S!RecordConsistent, S!CountConsistent, S!Record
  <2> QED BY <2>1, <2>2, <2>3, <2>4, StopsOrderly
<1>5. CASE S!SendFrame \/ S!Collect
  BY <1>5, TakeKeeps
<1>6. ASSUME changed' \in BOOLEAN,
             UNCHANGED <<convo, transport, at, facets, attempts, deltas, parts, metered, attempted, record, out, sent, reply>>
      PROVE  S!IInv'
  <2>1. S!TypeOK' /\ S!ToldIsRecorded' /\ S!UsageIsWhole'
    BY <1>6 DEF S!IInv, S!TypeOK, S!ToldIsRecorded, S!UsageIsWhole, S!Told, S!Complete
  <2>2. S!StoryInOrder' /\ S!StageConsistent'
    BY <1>6 DEF S!IInv, S!StoryInOrder, S!StageConsistent, S!Length, S!InPlace, S!Terminal
  <2>3. S!RecordConsistent' /\ S!CountConsistent'
    BY <1>6 DEF S!IInv, S!RecordConsistent, S!CountConsistent, S!Calls
  <2> QED BY <2>1, <2>2, <2>3 DEF S!IInv
<1>7. CASE S!CollectionChanges
  BY <1>6, <1>7 DEF S!CollectionChanges, S!pipeline
<1>8. CASE UNCHANGED S!vars
  BY <1>6, <1>8 DEF S!vars, S!IInv, S!TypeOK
<1> QED BY <1>1, <1>2, <1>3, <1>4, <1>5, <1>7, <1>8 DEF S!Next

(* What a client took was in its place. *)
LEMMA StreamInOrder == ASSUME S!Settings, S!IInv PROVE S!EventsInOrder
<1>1. Len(sent) \in Nat /\ Len(out) \in Nat /\ DOMAIN sent = 1 .. Len(sent)
  BY Positions
<1>2. \A i \in DOMAIN sent : S!InPlace(sent[i], i)
  BY DEF S!IInv, S!StoryInOrder
<1>3. \A i \in DOMAIN sent : S!Terminal(sent[i]) => i = Len(sent) /\ (i = 1 => convo = "alone" /\ sent[i].e = "error")
  <2>1. \A n, m \in Nat : \A i \in 1 .. n : i = n + m => i = n
    OBVIOUS
  <2>2. S!Length = Len(sent) + Len(out)
    BY DEF S!Length
  <2> QED BY <1>1, <1>2, <2>1, <2>2 DEF S!InPlace
<1>4. \A i \in DOMAIN sent : ~S!Terminal(sent[i]) =>
        sent[i].e = CASE i = 1 -> "meta" [] i = 2 -> "sources" [] OTHER -> "delta"
  BY <1>2 DEF S!InPlace, S!Name
<1>5. SUFFICES ASSUME NEW i \in DOMAIN sent
               PROVE  /\ sent[i].e = "meta" <=> i = 1 /\ ~(convo = "alone" /\ sent[i].e = "error")
                      /\ sent[i].e = "sources" => i = 2
                      /\ sent[i].e = "delta" => sent[2].e = "sources"
                      /\ S!Terminal(sent[i]) => i = Len(sent)
  BY DEF S!EventsInOrder
<1>6. CASE S!Terminal(sent[i])
  BY <1>3, <1>6 DEF S!Terminal
<1>7. CASE ~S!Terminal(sent[i])
  <2>1. sent[i].e \notin {"done", "error"}
    BY <1>7 DEF S!Terminal
  <2>2. sent[i].e = "delta" => i > 2 /\ 2 \in DOMAIN sent /\ 2 # Len(sent)
    BY <1>1, <1>4, <1>7
  <2>3. sent[i].e = "delta" => sent[2].e = "sources"
    BY <1>3, <1>4, <2>2
  <2> QED BY <1>4, <1>7, <2>1, <2>3
<1> QED BY <1>6, <1>7

(* Who has recorded does not record again. *)
LEMMA RecordKeeps == ASSUME S!IInv, S!Next, record # Null PROVE record' = record
<1>1. attempted
  BY DEF S!IInv, S!RecordConsistent, S!TypeOK
<1>2. \A outcome, text, res : S!RecordOnce(outcome, text, res) => record' = record
  BY <1>1 DEF S!RecordOnce
<1>3. \A code : S!Fail(code) => record' = record
  BY <1>2 DEF S!Fail, S!RecordIncomplete
<1>4. \A outcome, text : S!Finish(outcome, text) => record' = record
  BY <1>2 DEF S!Finish
<1>5. \A outcome : S!RecordIncomplete(outcome) => record' = record
  BY <1>2 DEF S!RecordIncomplete
<1>6. S!Normalise \/ S!Clarify \/ S!Retrieve \/ S!RefuseAtGate \/ S!Plan \/ S!SearchFacet \/ S!BuildSources => record' = record
  BY <1>3, <1>4 DEF S!Normalise, S!Clarify, S!Retrieve, S!RefuseAtGate, S!Plan, S!SearchFacet, S!BuildSources
<1>7. S!StartAttempt \/ S!Observe \/ (\E text \in BOOLEAN : S!Delta(text)) => record' = record
  BY DEF S!StartAttempt, S!Observe, S!Delta
<1>8. S!RefuseByModel \/ S!FinishAnswer \/ S!EmptyCompletion \/ S!BreakStream => record' = record
  BY <1>3, <1>4 DEF S!RefuseByModel, S!FinishAnswer, S!EmptyCompletion, S!BreakStream
<1>9. S!Raise \/ S!RaiseInRecord \/ S!Cancel \/ S!Die \/ S!End => record' = record
  BY <1>5 DEF S!Raise, S!RaiseInRecord, S!Cancel, S!Die, S!End
<1>10. S!CollectionChanges \/ S!SendFrame \/ S!Collect => record' = record
  BY DEF S!CollectionChanges, S!SendFrame, S!Collect, S!pipeline
<1> QED BY <1>6, <1>7, <1>8, <1>9, <1>10 DEF S!Next

(* Whatever the model, the budget, the database and the client do, for any bounds: events  *)
(* come in their order, no end is told before the query tried to leave its record, whatever  *)
(* ends it has tried to (unless the process dies, or the query is raised from after text     *)
(* was streamed, whose quotes may raise), what is told agrees with what is recorded, and     *)
(* the record stays.                                                                          *)
THEOREM StreamIsTold == ASSUME S!Settings PROVE S!Spec => StreamHolds
<1>1. S!Spec => []S!IInv
  BY StreamInit, StreamStep, PTL DEF S!Spec
<1>2. S!IInv => S!TypeOK /\ S!EventsInOrder /\ S!AlwaysAccountedFor /\ S!ToldIsRecorded /\ S!UsageIsWhole
  <2>1. ASSUME S!IInv PROVE S!EventsInOrder
    BY <2>1, StreamInOrder
  <2>2. ASSUME S!IInv PROVE S!AlwaysAccountedFor
    <3>1. \A i \in DOMAIN sent : S!Terminal(sent[i]) => attempted
      BY <2>2 DEF S!IInv, S!RecordConsistent
    <3>2. at \in S!Over \ {"dead"} => attempted \/ (at = "raised" /\ parts = "text")
      BY <2>2 DEF S!IInv, S!RecordConsistent, S!Over
    <3> QED BY <3>1, <3>2 DEF S!AlwaysAccountedFor
  <2> QED BY <2>1, <2>2 DEF S!IInv
<1>3. S!IInv /\ [S!Next]_(S!vars) => [record # Null => record' = record]_(S!vars)
  BY RecordKeeps
<1> QED BY <1>1, <1>2, <1>3, PTL DEF S!Spec, StreamHolds, S!RecordStays
-----------------------------------------------------------------------------
(* Conversations: their owners, the context of a follow-up, and what answers cite. *)

(* Before anything is asked. *)
LEMMA ConversationsInit == ASSUME C!Settings, C!Init PROVE C!IInv
<1>1. C!TypeOK
  BY DEF C!Init, C!TypeOK, C!Place, C!Actor
<1>2. C!OwnersAgree /\ C!ContextOfOneSource
  BY DEF C!Init, C!OwnersAgree, C!ContextOfOneSource
<1>3. C!NothingLeftBehind
  BY DEF C!Init, C!NothingLeftBehind, C!Settings, C!Actor
<1>4. \A q \in Query : C!RowConsistent(q) /\ C!RequestConsistent(q)
  BY DEF C!Init, C!RowConsistent, C!RequestConsistent, C!Open
<1> QED BY <1>1, <1>2, <1>3, <1>4 DEF C!IInv

(* A request that is open is one, and nothing is recorded of it. *)
LEMMA OpenRequest ==
  ASSUME C!Settings, C!IInv, NEW q \in Query
  PROVE  /\ C!Open(q) => req[q] \in C!Request /\ row[q] = Null
         /\ row[q] # Null => row[q] \in C!Row
         /\ req[q] = Null => row[q] = Null
<1>1. req[q] \in C!Request \cup C!Ended \cup {Null} /\ row[q] \in C!Row \cup {Null}
  BY DEF C!IInv, C!TypeOK
<1>2. C!RowConsistent(q)
  BY DEF C!IInv
<1> QED BY <1>1, <1>2 DEF C!Open, C!Ended, C!RowConsistent

(* The corpus changes: passages may go with the generation, and hide with the version. *)
CorpusMoves ==
  /\ coll' \in [version : Nat, generation : Nat] /\ chunk' \in [Chunk -> C!Place]
  /\ coll'.version >= coll.version /\ coll'.generation >= coll.generation
  /\ coll'.generation = coll.generation => \A c \in Chunk : C!Exists(c) => C!Exists(c)'
  /\ coll'.generation = coll.generation => \A c \in Chunk : C!Exists(c)' => C!Exists(c)
  /\ coll'.version = coll.version => \A c \in Chunk : chunk[c] \in {"ready", "gone"} => chunk'[c] \in {"ready", "gone"}
  /\ UNCHANGED <<guest, conv, row, req>>

LEMMA CorpusStep == ASSUME C!Settings, C!IInv, C!Corpus PROVE CorpusMoves
<1>1. PICK old \in SUBSET Chunk, new \in SUBSET Chunk :
        \/ new = {} /\ (C!RemoveDocuments(old) \/ C!ResetDocuments(old))
        \/ C!StoreChunks(old, new)
        \/ C!ReplaceFacts(old, new)
  BY DEF C!Corpus
<1>2. coll \in [version : Nat, generation : Nat] /\ chunk \in [Chunk -> C!Place]
  BY DEF C!IInv, C!TypeOK
<1>3. coll.version \in Nat /\ coll.generation \in Nat /\ coll.generation + 1 # coll.generation /\ coll.version + 1 # coll.version
  BY <1>2
<1>4. CASE C!RemoveDocuments(old)
  <2>1. coll' = [version |-> coll.version + 1, generation |-> coll.generation + 1]
        /\ chunk' = [c \in Chunk |-> IF c \in old THEN "gone" ELSE chunk[c]] /\ UNCHANGED <<guest, conv, row, req>>
    BY <1>4 DEF C!RemoveDocuments, C!Put
  <2>2. chunk' \in [Chunk -> C!Place]
    BY <1>2, <2>1 DEF C!Place
  <2> QED BY <1>3, <2>1, <2>2 DEF CorpusMoves
<1>5. CASE C!ResetDocuments(old)
  <2>1. coll' = [coll EXCEPT !.version = @ + 1]
        /\ chunk' = [c \in Chunk |-> IF c \in old THEN "hidden" ELSE chunk[c]] /\ UNCHANGED <<guest, conv, row, req>>
    BY <1>5 DEF C!ResetDocuments, C!Put
  <2>2. coll' \in [version : Nat, generation : Nat] /\ coll'.version = coll.version + 1 /\ coll'.generation = coll.generation
    BY <1>2, <2>1
  <2>3. \A c \in old : chunk[c] = "ready"
    BY <1>5 DEF C!ResetDocuments, C!ReadyChunks
  <2>4. chunk' \in [Chunk -> C!Place] /\ \A c \in Chunk : C!Exists(c)' <=> C!Exists(c)
    BY <1>2, <2>1, <2>3 DEF C!Place, C!Exists
  <2> QED BY <1>3, <2>1, <2>2, <2>4 DEF CorpusMoves
<1>6. ASSUME coll' = [coll EXCEPT !.generation = @ + 1], UNCHANGED <<guest, conv, row, req>>,
             C!Fresh(new), \A c \in old : C!Exists(c),
             chunk' = [c \in Chunk |-> IF c \in new THEN "ready" ELSE IF c \in old THEN "gone" ELSE chunk[c]]
      PROVE  CorpusMoves
  <2>1. coll' \in [version : Nat, generation : Nat] /\ coll'.version = coll.version /\ coll'.generation = coll.generation + 1
    BY <1>2, <1>6
  <2>2. chunk' \in [Chunk -> C!Place]
    BY <1>2, <1>6 DEF C!Place
  <2>3. \A c \in Chunk : chunk[c] \in {"ready", "gone"} => chunk'[c] \in {"ready", "gone"}
    BY <1>2, <1>6 DEF C!Fresh
  <2> QED BY <1>3, <1>6, <2>1, <2>2, <2>3 DEF CorpusMoves
<1>7. CASE C!StoreChunks(old, new)
  BY <1>6, <1>7 DEF C!StoreChunks, C!Exists
<1>8. CASE C!ReplaceFacts(old, new)
  BY <1>6, <1>8 DEF C!ReplaceFacts
<1> QED BY <1>1, <1>4, <1>5, <1>7, <1>8

LEMMA CorpusKeeps == ASSUME C!Settings, C!IInv, CorpusMoves PROVE C!IInv'
<1>1. C!TypeOK' /\ C!OwnersAgree' /\ C!NothingLeftBehind' /\ C!ContextOfOneSource'
  BY DEF CorpusMoves, C!IInv, C!TypeOK, C!OwnersAgree, C!NothingLeftBehind, C!ContextOfOneSource, C!UserOf
<1>2. coll \in [version : Nat, generation : Nat] /\ UNCHANGED <<guest, conv, row, req>>
  BY DEF CorpusMoves, C!IInv, C!TypeOK
<1>3. ASSUME NEW q \in Query PROVE C!RowConsistent(q)'
  <2>1. SUFFICES ASSUME row[q] # Null PROVE C!RowConsistent(q)'
    BY <1>2 DEF C!RowConsistent
  <2>2. row[q] \in C!Row /\ row[q].generation \in Nat /\ row[q].cites \subseteq Chunk
    BY <2>1, OpenRequest DEF C!Row
  <2>3. C!RowConsistent(q) /\ (C!Open(q)' <=> C!Open(q))
    BY <1>2 DEF C!IInv, C!Open
  <2>4. row[q].generation <= coll'.generation
    BY <1>2, <2>1, <2>2, <2>3 DEF C!RowConsistent, CorpusMoves
  <2>5. row[q].generation = coll'.generation => \A c \in row[q].cites : C!Exists(c)'
    BY <1>2, <2>1, <2>2, <2>3 DEF C!RowConsistent, CorpusMoves
  <2> QED BY <1>2, <2>1, <2>3, <2>4, <2>5 DEF C!RowConsistent
<1>4. ASSUME NEW q \in Query PROVE C!RequestConsistent(q)'
  <2>1. SUFFICES ASSUME C!Open(q) PROVE C!RequestConsistent(q)'
    BY <1>2 DEF C!RequestConsistent, C!Open
  <2>2. req[q] \in C!Request /\ req[q].version \in Nat /\ req[q].generation \in Nat /\ req[q].cites \subseteq Chunk
    BY <2>1, OpenRequest DEF C!Request
  <2>3. C!RequestConsistent(q)
    BY DEF C!IInv
  <2>4. req[q].version <= coll'.version /\ req[q].generation <= coll'.generation
    BY <1>2, <2>1, <2>2, <2>3 DEF C!RequestConsistent, CorpusMoves
  <2>5. req[q].version = coll'.version => \A c \in req[q].cites : chunk'[c] \in {"ready", "gone"}
    BY <1>2, <2>1, <2>2, <2>3 DEF C!RequestConsistent, CorpusMoves
  <2> QED BY <1>2, <2>1, <2>3, <2>4, <2>5 DEF C!RequestConsistent
<1> QED BY <1>1, <1>3, <1>4 DEF C!IInv

(* A conversation is created for somebody who is there. *)
LEMMA CreateKeeps ==
  ASSUME C!Settings, C!IInv, NEW v \in Conv, NEW a \in C!Actor, C!CreateConversation(v, a)
  PROVE  C!IInv'
<1>1. /\ conv[v] = Null /\ C!LiveActor(a) /\ conv' = [conv EXCEPT ![v] = a]
      /\ UNCHANGED <<coll, chunk, guest, row, req>>
  BY DEF C!CreateConversation
<1>2. conv \in [Conv -> C!Actor \cup {Null}] /\ a # Null
  BY DEF C!IInv, C!TypeOK, C!Settings
<1>3. \A d \in Conv : conv'[d] = IF d = v THEN a ELSE conv[d]
  BY <1>1, <1>2
<1>4. \A d \in Conv : conv[d] # Null => conv'[d] = conv[d]
  BY <1>1, <1>3
<1>5. C!TypeOK'
  BY <1>1, <1>2 DEF C!IInv, C!TypeOK
<1>6. ASSUME NEW q \in Query, row[q] # Null PROVE row[q].conv \in Conv \cup {Null} /\ (row[q].conv # Null => conv[row[q].conv] # Null)
  BY <1>6, OpenRequest DEF C!IInv, C!RowConsistent, C!Row
<1>7. C!OwnersAgree'
  BY <1>1, <1>4, <1>6 DEF C!IInv, C!OwnersAgree, C!UserOf
<1>8. C!NothingLeftBehind'
  <2>1. a \in Guest => guest[a] = a /\ guest[a] \notin Account
    BY <1>1 DEF C!LiveActor, C!Settings
  <2> QED BY <1>1, <1>3, <2>1 DEF C!IInv, C!NothingLeftBehind
<1>9. C!ContextOfOneSource'
  BY <1>1 DEF C!IInv, C!ContextOfOneSource
<1>10. ASSUME NEW q \in Query PROVE C!RowConsistent(q)'
  BY <1>1, <1>4, <1>6 DEF C!IInv, C!RowConsistent, C!Open, C!Exists
<1>11. ASSUME NEW q \in Query PROVE C!RequestConsistent(q)'
  <2>1. C!Open(q) => req[q].conv \in Conv \cup {Null}
    BY OpenRequest DEF C!Request
  <2> QED BY <1>1, <1>4, <2>1 DEF C!IInv, C!RequestConsistent, C!Open
<1> QED BY <1>5, <1>7, <1>8, <1>9, <1>10, <1>11 DEF C!IInv

(* All that a guest has becomes the user's, whatever streams. *)
LEMMA SignInKeeps ==
  ASSUME C!Settings, C!IInv, NEW s \in Guest, NEW u \in Account, C!SignIn(s, u)
  PROVE  /\ C!IInv'
         /\ \A q \in Query : row[q] = Null => row'[q] = Null
         /\ \A q \in Query : row[q] # Null => row'[q].cites = row[q].cites
<1>1. /\ guest' = [guest EXCEPT ![s] = u]
      /\ conv' = [c \in Conv |-> IF c \in C!Owned(s) THEN u ELSE conv[c]]
      /\ row' = [q \in Query |-> IF row[q] # Null /\ row[q].conv \in C!Owned(s)
                                THEN [row[q] EXCEPT !.user = u] ELSE row[q]]
      /\ UNCHANGED <<coll, chunk, req>>
  BY DEF C!SignIn
<1>2. /\ conv \in [Conv -> C!Actor \cup {Null}] /\ guest \in [Guest -> C!Actor \cup {Null}]
      /\ u \in C!Actor /\ u # Null /\ u \notin Guest /\ s # Null
  BY DEF C!IInv, C!TypeOK, C!Settings, C!Actor
<1>3. ASSUME NEW q \in Query, row[q] # Null
      PROVE  /\ row[q] \in C!Row /\ row'[q] \in C!Row /\ row'[q] # Null
             /\ row'[q].conv = row[q].conv /\ row'[q].parent = row[q].parent /\ row'[q].role = row[q].role
             /\ row'[q].generation = row[q].generation /\ row'[q].reset = row[q].reset
             /\ row'[q].cites = row[q].cites
             /\ row[q].conv \in C!Owned(s) => row'[q].user = u
             /\ row[q].conv \notin C!Owned(s) => row'[q].user = row[q].user
  <2>1. row[q] \in C!Row
    BY <1>3, OpenRequest
  <2>2. CASE row[q].conv \in C!Owned(s)
    <3>1. row'[q] = [row[q] EXCEPT !.user = u]
      BY <1>1, <1>3, <2>2
    <3>2. row'[q] \in C!Row
      BY <2>1, <3>1 DEF C!Row
    <3> QED BY <2>1, <2>2, <3>1, <3>2 DEF C!Row, C!Settings
  <2>3. CASE row[q].conv \notin C!Owned(s)
    BY <1>1, <1>3, <2>1, <2>3
  <2> QED BY <2>2, <2>3
<1>4. \A q \in Query : row[q] = Null => row'[q] = Null
  BY <1>1
<1>5. C!TypeOK'
  <2>1. conv' \in [Conv -> C!Actor \cup {Null}] /\ guest' \in [Guest -> C!Actor \cup {Null}]
    BY <1>1, <1>2
  <2>2. row' \in [Query -> C!Row \cup {Null}]
    <3>1. DOMAIN row' = Query /\ row' = [q \in Query |-> row'[q]]
      BY <1>1
    <3>2. \A q \in Query : row'[q] \in C!Row \cup {Null}
      BY <1>3, <1>4
    <3> QED BY <3>1, <3>2
  <2> QED BY <1>1, <2>1, <2>2 DEF C!IInv, C!TypeOK
<1>6. ASSUME NEW d \in Conv
      PROVE  IF d \in C!Owned(s) THEN conv'[d] = u ELSE conv'[d] = conv[d] /\ conv[d] # s
  BY <1>1, <1>2 DEF C!Owned
<1>12. ASSUME NEW d \in Conv, conv[d] # Null PROVE conv'[d] # Null
  BY <1>2, <1>6, <1>12
<1>13. \A g \in Guest : g # s => guest'[g] = guest[g]
  BY <1>1, <1>2
<1>7. C!OwnersAgree'
  <2>1. SUFFICES ASSUME NEW q \in Query, row'[q] # Null, row'[q].conv # Null
                 PROVE  row'[q].user = C!UserOf(conv'[row'[q].conv])
    BY DEF C!OwnersAgree, C!UserOf
  <2>2. row[q] # Null /\ row[q].conv \in Conv /\ row'[q].conv = row[q].conv
    BY <1>3, <1>4, <2>1 DEF C!Row
  <2>3. row[q].user = C!UserOf(conv[row[q].conv])
    BY <2>1, <2>2 DEF C!IInv, C!OwnersAgree
  <2>4. CASE row[q].conv \in C!Owned(s)
    <3>1. row'[q].user = u /\ conv'[row[q].conv] = u
      BY <1>3, <1>6, <2>2, <2>4
    <3> QED BY <2>2, <3>1 DEF C!UserOf
  <2>5. CASE row[q].conv \notin C!Owned(s)
    <3>1. row'[q].user = row[q].user /\ conv'[row[q].conv] = conv[row[q].conv]
      BY <1>3, <1>6, <2>2, <2>5
    <3> QED BY <2>2, <2>3, <3>1 DEF C!UserOf
  <2> QED BY <2>4, <2>5
<1>8. C!NothingLeftBehind'
  BY <1>1, <1>2, <1>6, <1>13 DEF C!IInv, C!NothingLeftBehind
<1>9. C!ContextOfOneSource'
  <2>1. SUFFICES ASSUME NEW q \in Query, row'[q] # Null, row'[q].parent # Null, ~row'[q].reset
                 PROVE  LET p == row'[row'[q].parent]
                        IN  p.conv = row'[q].conv /\ p.generation = row'[q].generation /\ p.role = row'[q].role
    BY DEF C!ContextOfOneSource
  <2>2. row[q] # Null /\ row[q].parent \in Query /\ row[q].parent # Null /\ ~row[q].reset /\ row'[q].parent = row[q].parent
    BY <1>3, <1>4, <2>1 DEF C!Row
  <2>3. row[row[q].parent] # Null
    BY <2>2 DEF C!IInv, C!RowConsistent
  <2>4. LET p == row[row[q].parent]
        IN  p.conv = row[q].conv /\ p.generation = row[q].generation /\ p.role = row[q].role
    BY <2>2 DEF C!IInv, C!ContextOfOneSource
  <2> QED BY <1>3, <2>2, <2>3, <2>4
<1>10. ASSUME NEW q \in Query PROVE C!RowConsistent(q)'
  <2>1. SUFFICES ASSUME row'[q] # Null PROVE C!RowConsistent(q)'
    BY DEF C!RowConsistent
  <2>2. row[q] # Null /\ C!RowConsistent(q) /\ row[q].conv \in Conv \cup {Null} /\ row[q].parent \in Query \cup {Null}
    BY <1>3, <1>4, <2>1 DEF C!IInv, C!Row
  <2>3. row[q].parent # Null => row'[row[q].parent] # Null
    BY <1>3, <2>2 DEF C!RowConsistent
  <2>4. row[q].conv # Null => conv'[row[q].conv] # Null
    BY <1>12, <2>2 DEF C!RowConsistent
  <2> QED BY <1>1, <1>3, <2>2, <2>3, <2>4 DEF C!RowConsistent, C!Open, C!Exists
<1>11. ASSUME NEW q \in Query PROVE C!RequestConsistent(q)'
  <2>1. SUFFICES ASSUME C!Open(q) PROVE C!RequestConsistent(q)'
    BY <1>1 DEF C!RequestConsistent, C!Open
  <2>2. req[q] \in C!Request /\ req[q].conv \in Conv \cup {Null} /\ req[q].parent \in Query \cup {Null} /\ C!RequestConsistent(q)
    BY <2>1, OpenRequest DEF C!IInv, C!Request
  <2>3. req[q].conv # Null => conv'[req[q].conv] # Null
    BY <1>12, <2>1, <2>2 DEF C!RequestConsistent
  <2>4. req[q].parent # Null => row[req[q].parent] # Null /\ row'[req[q].parent] # Null
    BY <1>3, <2>1, <2>2 DEF C!RequestConsistent
  <2>5. req[q].at = "loaded" /\ req[q].parent # Null /\ ~req[q].reset =>
          LET p == row'[req[q].parent]
          IN  p.conv = req[q].conv /\ p.generation = req[q].generation /\ p.role = req[q].role
    BY <1>3, <2>1, <2>2, <2>4 DEF C!RequestConsistent
  <2> QED BY <1>1, <2>1, <2>2, <2>3, <2>4, <2>5 DEF C!RequestConsistent
<1> QED BY <1>3, <1>4, <1>5, <1>7, <1>8, <1>9, <1>10, <1>11 DEF C!IInv

LEMMA LogoutKeeps == ASSUME C!Settings, C!IInv, NEW s \in Guest, C!Logout(s) PROVE C!IInv'
<1>1. guest' = [guest EXCEPT ![s] = Null] /\ UNCHANGED <<coll, chunk, conv, row, req>>
  BY DEF C!Logout
<1>2. guest \in [Guest -> C!Actor \cup {Null}] /\ Null \notin Account
  BY DEF C!IInv, C!TypeOK, C!Settings, C!Actor
<1>3. C!TypeOK' /\ C!NothingLeftBehind'
  BY <1>1, <1>2 DEF C!IInv, C!TypeOK, C!NothingLeftBehind
<1>4. C!OwnersAgree' /\ C!ContextOfOneSource'
  BY <1>1 DEF C!IInv, C!OwnersAgree, C!ContextOfOneSource, C!UserOf
<1>5. ASSUME NEW q \in Query PROVE C!RowConsistent(q)' /\ C!RequestConsistent(q)'
  BY <1>1 DEF C!IInv, C!RowConsistent, C!RequestConsistent, C!Open, C!Exists
<1> QED BY <1>3, <1>4, <1>5 DEF C!IInv

(* A step of one request, which is not recorded yet. *)
LEMMA RequestKeeps ==
  ASSUME C!Settings, C!IInv, UNCHANGED <<coll, chunk, guest, conv, row>>,
         NEW q \in Query, row[q] = Null, NEW x \in C!Request \cup C!Ended, req' = [req EXCEPT ![q] = x],
         C!RequestConsistent(q)'
  PROVE  C!IInv'
<1>1. req \in [Query -> C!Request \cup C!Ended \cup {Null}] /\ x # Null
  BY DEF C!IInv, C!TypeOK, C!Settings
<1>2. C!TypeOK' /\ C!NothingLeftBehind'
  BY <1>1 DEF C!IInv, C!TypeOK, C!NothingLeftBehind
<1>3. C!OwnersAgree' /\ C!ContextOfOneSource'
  BY DEF C!IInv, C!OwnersAgree, C!ContextOfOneSource, C!UserOf
<1>4. ASSUME NEW s \in Query, s # q PROVE C!RowConsistent(s)' /\ C!RequestConsistent(s)'
  <2>1. req'[s] = req[s]
    BY <1>1, <1>4
  <2> QED BY <2>1 DEF C!IInv, C!RowConsistent, C!RequestConsistent, C!Open, C!Exists
<1>5. C!RowConsistent(q)'
  BY DEF C!RowConsistent
<1> QED BY <1>2, <1>3, <1>4, <1>5 DEF C!IInv

LEMMA FetchKeeps ==
  ASSUME C!Settings, C!IInv, NEW q \in Query, NEW a \in C!Actor, NEW v \in Conv \cup {Null},
         NEW p \in Query \cup {Null}, NEW r \in Role, C!FetchCollection(q, a, v, p, r)
  PROVE  C!IInv'
<1> DEFINE new == [at |-> "fetched", actor |-> a, conv |-> v, parent |-> p, role |-> r,
                   version |-> coll.version, generation |-> 0, reset |-> FALSE, turns |-> {}, cites |-> {}]
<1>1. /\ req[q] = Null /\ (v # Null => conv[v] = a) /\ (p # Null => v # Null /\ row[p] # Null)
      /\ req' = [req EXCEPT ![q] = new] /\ UNCHANGED <<coll, chunk, guest, conv, row>>
  BY DEF C!FetchCollection
<1>2. coll \in [version : Nat, generation : Nat] /\ a # Null /\ req \in [Query -> C!Request \cup C!Ended \cup {Null}]
  BY DEF C!IInv, C!TypeOK, C!Settings
<1>3. new \in C!Request
  BY <1>2 DEF C!Request
<1>4. req'[q] = new
  BY <1>1, <1>2
<1>5. C!RequestConsistent(q)'
  BY <1>1, <1>2, <1>4 DEF C!RequestConsistent
<1>6. row[q] = Null
  BY <1>1, OpenRequest
<1> HIDE DEF new
<1> QED BY <1>1, <1>3, <1>5, <1>6, RequestKeeps

(* What a follow-up keeps was asked of these sources, and in this role. *)
LEMMA ContextLoaded ==
  ASSUME C!Settings, C!IInv, NEW q \in Query, NEW fits \in BOOLEAN, C!LoadContext(q, fits)
  PROVE  /\ C!IInv'
         /\ \A t \in req'[q].turns : t \in Query /\ row[t] # Null /\ C!SameContext(t, req[q].role)
<1> DEFINE r == req[q]
           chain == IF r.parent = Null THEN {} ELSE C!Chain(r.parent, r.conv)
           reset == r.parent # Null /\ (~fits \/ \E t \in chain : ~C!SameContext(t, r.role))
           new == [r EXCEPT !.at = "loaded", !.generation = coll.generation,
                            !.reset = reset, !.turns = IF reset THEN {} ELSE chain]
<1>1. /\ r # Null /\ r.at = "fetched" /\ r.conv # Null /\ conv[r.conv] = r.actor
      /\ r.parent # Null => C!Continues(r.parent, r.conv)
      /\ req' = [req EXCEPT ![q].at = "loaded", ![q].generation = coll.generation,
                            ![q].reset = reset, ![q].turns = IF reset THEN {} ELSE chain]
      /\ UNCHANGED <<coll, chunk, guest, conv, row>>
  BY DEF C!LoadContext
<1>2. C!Open(q) /\ r \in C!Request /\ row[q] = Null /\ C!RequestConsistent(q)
  BY <1>1, OpenRequest DEF C!Open, C!IInv
<1>3. coll \in [version : Nat, generation : Nat] /\ req \in [Query -> C!Request \cup C!Ended \cup {Null}]
      /\ coll.generation \in Nat
  BY DEF C!IInv, C!TypeOK
<1>4. chain \subseteq Query
  BY DEF C!Chain
<1>5. reset \in BOOLEAN
  OBVIOUS
<1>6. req' = [req EXCEPT ![q] = new] /\ req'[q] = new
  BY <1>1, <1>3
<1>7. r.parent # Null => r.parent \in chain /\ r.parent \in Query
  <2>1. SUFFICES ASSUME r.parent # Null PROVE r.parent \in chain /\ r.parent \in Query
    OBVIOUS
  <2>2. r.parent \in Query
    BY <1>2, <2>1 DEF C!Request
  <2> DEFINE turn == [i \in 1 .. 1 |-> r.parent]
  <2>3. turn \in [1 .. 1 -> Query] /\ turn[1] = r.parent /\ 1 \in 1 .. MaxTurns /\ (\A i \in 1 .. 1 - 1 : FALSE)
    BY <2>2 DEF C!Settings
  <2>4. r.parent \in C!Chain(r.parent, r.conv)
    BY <2>2, <2>3 DEF C!Chain
  <2> QED BY <2>1, <2>2, <2>4
<1>8. ASSUME NEW t \in chain PROVE t \in Query /\ row[t] # Null
  <2>1. r.parent # Null
    BY <1>8
  <2>2. PICK n \in 1 .. MaxTurns : \E turn \in [1 .. n -> Query] :
          /\ turn[1] = r.parent /\ turn[n] = t
          /\ \A i \in 1 .. n - 1 :
               ~row[turn[i]].reset /\ row[turn[i]].parent = turn[i + 1] /\ C!Continues(turn[i + 1], r.conv)
    BY <1>8, <2>1 DEF C!Chain
  <2>3. CASE n = 1
    BY <1>1, <1>4, <1>8, <2>1, <2>2, <2>3 DEF C!Continues
  <2>4. CASE n # 1
    <3>1. n - 1 \in 1 .. n - 1 /\ (n - 1) + 1 = n
      BY <2>4 DEF C!Settings
    <3>2. C!Continues(t, r.conv)
      BY <2>2, <3>1
    <3> QED BY <1>4, <1>8, <3>2 DEF C!Continues
  <2> QED BY <2>3, <2>4
<1>9. new \in C!Request
  BY <1>2, <1>3, <1>4, <1>5 DEF C!Request
<1>10. /\ new.at = "loaded" /\ new.generation = coll.generation /\ new.reset = reset
       /\ new.turns = (IF reset THEN {} ELSE chain)
       /\ new.conv = r.conv /\ new.parent = r.parent /\ new.version = r.version /\ new.cites = r.cites /\ new.role = r.role
  BY <1>2 DEF C!Request
<1>11. ~reset => \A t \in chain : C!SameContext(t, r.role)
  <2>1. r.parent = Null => chain = {}
    OBVIOUS
  <2> QED BY <2>1
<1> HIDE DEF new, reset, chain
<1>12. C!RequestConsistent(q)'
  <2>1. r.parent # Null /\ ~reset =>
          LET p == row[r.parent]
          IN  p.conv = r.conv /\ p.generation = coll.generation /\ p.role = r.role
    BY <1>1, <1>7, <1>11 DEF C!SameContext, C!Continues
  <2> QED BY <1>1, <1>2, <1>3, <1>6, <1>10, <2>1 DEF C!RequestConsistent
<1>13. C!IInv'
  BY <1>1, <1>2, <1>6, <1>9, <1>12, RequestKeeps
<1> QED BY <1>6, <1>8, <1>10, <1>11, <1>13

LEMMA StartKeeps ==
  ASSUME C!Settings, C!IInv, NEW q \in Query, C!StartAlone(q)
  PROVE  C!IInv' /\ req'[q].turns = {}
<1> DEFINE new == [req[q] EXCEPT !.at = "loaded"]
<1>1. /\ req[q] # Null /\ req[q].at = "fetched" /\ req[q].conv = Null /\ req' = [req EXCEPT ![q].at = "loaded"]
      /\ UNCHANGED <<coll, chunk, guest, conv, row>>
  BY DEF C!StartAlone
<1>2. C!Open(q) /\ req[q] \in C!Request /\ row[q] = Null /\ C!RequestConsistent(q)
  BY <1>1, OpenRequest DEF C!Open, C!IInv
<1>3. req \in [Query -> C!Request \cup C!Ended \cup {Null}]
  BY DEF C!IInv, C!TypeOK
<1>4. req' = [req EXCEPT ![q] = new] /\ req'[q] = new
  BY <1>1, <1>3
<1>5. new \in C!Request /\ new.at = "loaded" /\ new.turns = req[q].turns /\ new.conv = Null /\ new.parent = req[q].parent /\ new.version = req[q].version
      /\ new.generation = req[q].generation /\ new.cites = req[q].cites /\ new.role = req[q].role
  BY <1>1, <1>2 DEF C!Request
<1> HIDE DEF new
<1>6. C!RequestConsistent(q)'
  BY <1>1, <1>2, <1>4, <1>5 DEF C!RequestConsistent
<1>7. req[q].turns = {}
  BY <1>1, <1>2 DEF C!RequestConsistent
<1> QED BY <1>1, <1>2, <1>4, <1>5, <1>6, <1>7, RequestKeeps

LEMMA RetrieveKeeps ==
  ASSUME C!Settings, C!IInv, NEW q \in Query, NEW c \in Chunk, C!Retrieve(q, c)
  PROVE  C!IInv'
<1> DEFINE new == [req[q] EXCEPT !.cites = @ \cup {c}]
<1>1. /\ req[q] # Null /\ req[q].at = "loaded" /\ chunk[c] = "ready" /\ req[q].role \in Readers[c]
      /\ req' = [req EXCEPT ![q].cites = @ \cup {c}] /\ UNCHANGED <<coll, chunk, guest, conv, row>>
  BY DEF C!Retrieve, C!ReadyChunks
<1>2. C!Open(q) /\ req[q] \in C!Request /\ row[q] = Null /\ C!RequestConsistent(q)
  BY <1>1, OpenRequest DEF C!Open, C!IInv
<1>3. req \in [Query -> C!Request \cup C!Ended \cup {Null}]
  BY DEF C!IInv, C!TypeOK
<1>4. req' = [req EXCEPT ![q] = new] /\ req'[q] = new
  BY <1>1, <1>3
<1>5. new \in C!Request /\ new.cites = req[q].cites \cup {c}
  BY <1>2 DEF C!Request
<1>6. /\ new.at = req[q].at /\ new.conv = req[q].conv /\ new.parent = req[q].parent /\ new.version = req[q].version
      /\ new.generation = req[q].generation /\ new.reset = req[q].reset /\ new.role = req[q].role
  BY <1>2 DEF C!Request
<1> HIDE DEF new
<1>7. C!RequestConsistent(q)'
  BY <1>1, <1>2, <1>4, <1>5, <1>6 DEF C!RequestConsistent
<1> QED BY <1>1, <1>2, <1>4, <1>5, <1>7, RequestKeeps

(* A query that ends without a record. *)
LEMMA EndKeeps ==
  ASSUME C!Settings, C!IInv, NEW q \in Query, C!Open(q), NEW x \in C!Ended, req' = [req EXCEPT ![q] = x],
         UNCHANGED <<coll, chunk, guest, conv, row>>
  PROVE  C!IInv'
<1>1. req \in [Query -> C!Request \cup C!Ended \cup {Null}] /\ row[q] = Null
  BY OpenRequest DEF C!IInv, C!TypeOK
<1>2. C!RequestConsistent(q)'
  BY <1>1 DEF C!RequestConsistent, C!Open, C!Ended
<1> QED BY <1>1, <1>2, RequestKeeps

(* What is recorded belongs to whoever owns the conversation by now, and cites what is there. *)
LEMMA RecordKeepsAll ==
  ASSUME C!Settings, C!IInv, NEW q \in Query, NEW outcome \in C!Outcome, C!Record(q, outcome)
  PROVE  /\ C!IInv'
         /\ \A s \in Query : s # q => row'[s] = row[s]
         /\ row[q] = Null /\ UNCHANGED <<coll, chunk>>
         /\ row'[q] # Null => row'[q].cites \subseteq C!ReadyChunks
         /\ req'[q].at = "done" /\ req[q].conv # Null => row'[q] # Null
<1> DEFINE saved == C!Unchanged(q) /\ \A c \in req[q].cites : C!Exists(c)
           new == C!RowOf(q, outcome)
           ended == [at |-> C!Reply(q, saved, outcome)]
<1>1. /\ req[q] # Null /\ req[q].at = "loaded" /\ row' = IF saved THEN [row EXCEPT ![q] = new] ELSE row
      /\ req' = [req EXCEPT ![q] = ended] /\ UNCHANGED <<coll, chunk, guest, conv>>
  BY DEF C!Record
<1>2. C!Open(q) /\ req[q] \in C!Request /\ row[q] = Null /\ C!RequestConsistent(q)
  BY <1>1, OpenRequest DEF C!Open, C!IInv
<1>3. req \in [Query -> C!Request \cup C!Ended \cup {Null}] /\ row \in [Query -> C!Row \cup {Null}]
      /\ chunk \in [Chunk -> C!Place] /\ conv \in [Conv -> C!Actor \cup {Null}] /\ coll \in [version : Nat, generation : Nat]
  BY DEF C!IInv, C!TypeOK
<1>4. ended \in C!Ended /\ req'[q] = ended
  BY <1>1, <1>3 DEF C!Reply, C!Ended
<1>5. CASE ~saved
  <2>1. row' = row
    BY <1>1, <1>5
  <2>2. C!IInv'
    BY <1>1, <1>2, <1>4, <2>1, EndKeeps
  <2>3. req'[q].at = "done" => req[q].conv = Null
    BY <1>4, <1>5 DEF C!Reply
  <2> QED BY <1>1, <1>2, <2>1, <2>2, <2>3
<1>6. CASE saved
  <2>1. req[q].conv \in Conv \cup {Null} /\ req[q].actor \in C!Actor /\ req[q].parent \in Query \cup {Null} /\ req[q].cites \subseteq Chunk
        /\ req[q].generation \in Nat /\ req[q].role \in Role /\ req[q].reset \in BOOLEAN
    BY <1>2 DEF C!Request
  <2>2. C!OwnerOf(q) \in Account \cup {Null}
    BY DEF C!OwnerOf, C!UserOf
  <2>3. new \in C!Row /\ new # Null
    BY <2>1, <2>2 DEF C!RowOf, C!Row, C!Settings
  <2>4. /\ new.conv = req[q].conv /\ new.parent = req[q].parent /\ new.user = C!OwnerOf(q) /\ new.role = req[q].role
        /\ new.generation = req[q].generation /\ new.reset = req[q].reset /\ new.cites = req[q].cites
    BY DEF C!RowOf
  <2> HIDE DEF new
  <2>5. row'[q] = new /\ \A s \in Query : s # q => row'[s] = row[s]
    BY <1>1, <1>3, <1>6
  <2>6. \A s \in Query : row[s] # Null => s # q /\ row'[s] = row[s]
    BY <1>2, <2>5
  <2>7. \A c \in req[q].cites : C!Exists(c) /\ chunk[c] \in {"ready", "gone"}
    BY <1>2, <1>6 DEF C!Unchanged, C!RequestConsistent
  <2>8. req[q].cites \subseteq C!ReadyChunks
    BY <2>1, <2>7 DEF C!Exists, C!ReadyChunks
  <2>9. C!TypeOK' /\ C!NothingLeftBehind'
    BY <1>1, <1>3, <1>4, <1>6, <2>3 DEF C!IInv, C!TypeOK, C!NothingLeftBehind
  <2>10. C!OwnersAgree'
    <3>1. new.conv # Null => new.user = C!UserOf(conv[new.conv])
      BY <2>4 DEF C!OwnerOf
    <3> QED BY <1>1, <2>5, <3>1 DEF C!IInv, C!OwnersAgree, C!UserOf
  <2>11. C!ContextOfOneSource'
    <3>1. ASSUME new.parent # Null, ~new.reset
          PROVE  LET p == row'[new.parent] IN p.conv = new.conv /\ p.generation = new.generation /\ p.role = new.role
      <4>1. row[new.parent] # Null /\ new.parent \in Query
        BY <1>2, <2>1, <2>4, <3>1 DEF C!RequestConsistent
      <4> QED BY <1>1, <1>2, <2>4, <2>6, <3>1, <4>1 DEF C!RequestConsistent
    <3>2. ASSUME NEW s \in Query, s # q, row[s] # Null, row[s].parent # Null, ~row[s].reset
          PROVE  LET p == row'[row[s].parent] IN p.conv = row[s].conv /\ p.generation = row[s].generation /\ p.role = row[s].role
      <4>1. row[row[s].parent] # Null /\ row[s].parent \in Query
        BY <3>2, OpenRequest DEF C!IInv, C!RowConsistent, C!Row
      <4> QED BY <2>6, <3>2, <4>1 DEF C!IInv, C!ContextOfOneSource
    <3> QED BY <2>5, <3>1, <3>2 DEF C!ContextOfOneSource
  <2>12. ASSUME NEW s \in Query, s # q PROVE C!RowConsistent(s)' /\ C!RequestConsistent(s)'
    <3>1. row'[s] = row[s] /\ req'[s] = req[s] /\ C!RowConsistent(s) /\ C!RequestConsistent(s)
      BY <1>1, <1>3, <2>5, <2>12 DEF C!IInv
    <3>2. row[s] # Null => row[s].parent \in Query \cup {Null}
      BY OpenRequest DEF C!Row
    <3>3. C!Open(s) => req[s].parent \in Query \cup {Null}
      BY OpenRequest DEF C!Request
    <3>4. C!RowConsistent(s)'
      BY <1>1, <2>6, <3>1, <3>2 DEF C!RowConsistent, C!Open, C!Exists
    <3>5. C!RequestConsistent(s)'
      BY <1>1, <2>6, <3>1, <3>3 DEF C!RequestConsistent, C!Open
    <3> QED BY <3>4, <3>5
  <2>13. C!RequestConsistent(q)' /\ ~C!Open(q)' /\ req'[q] # Null
    BY <1>4 DEF C!RequestConsistent, C!Open, C!Ended, C!Settings
  <2>14. C!RowConsistent(q)'
    <3>1. new.parent # Null => row'[new.parent] # Null
      BY <1>2, <2>1, <2>4, <2>6 DEF C!RequestConsistent
    <3>2. /\ new.conv # Null => conv[new.conv] # Null
          /\ new.generation <= coll.generation
          /\ \A c \in new.cites : new.role \in Readers[c]
      BY <1>2, <2>4 DEF C!RequestConsistent
    <3>3. \A c \in new.cites : C!Exists(c)
      BY <2>4, <2>7
    <3>4. conv' = conv /\ coll' = coll /\ \A c \in Chunk : C!Exists(c)' <=> C!Exists(c)
      BY <1>1 DEF C!Exists
    <3>5. new.cites \subseteq Chunk
      BY <2>1, <2>4
    <3>6. \A c \in new.cites : C!Exists(c)'
      BY <3>3, <3>4, <3>5
    <3> QED BY <2>5, <2>13, <3>1, <3>2, <3>4, <3>6 DEF C!RowConsistent
  <2>15. C!IInv'
    BY <2>9, <2>10, <2>11, <2>12, <2>13, <2>14 DEF C!IInv
  <2> QED BY <1>1, <1>2, <2>3, <2>4, <2>5, <2>8, <2>15
<1> QED BY <1>5, <1>6

(* What a step does to answers: one is recorded of the corpus as it is, and before whoever asked *)
(* is told that it is; what is kept as a context stands; a transcript changes with the sources.  *)
AnswersMove ==
  /\ \A q \in Query :
       req[q] # Null /\ req[q].at = "fetched" /\ req'[q].at = "loaded" =>
         \A t \in req'[q].turns :
           row[t].cites \subseteq {c \in Chunk : C!Exists(c) /\ req[q].role \in Readers[c]}
  /\ \A q \in Query :
       row[q] = Null /\ row'[q] # Null => row'[q].cites \subseteq C!ReadyChunks
  /\ \A q \in Query :
       C!Open(q) /\ req'[q].at = "done" /\ req[q].conv # Null => row'[q] # Null
  /\ \A q \in Query :
       row[q] # Null /\ C!Shown(q)' # C!Shown(q) => coll'.generation > coll.generation

LEMMA QuietAnswers ==
  ASSUME C!Settings, C!IInv, req' = req, coll' \in [version : Nat, generation : Nat],
         coll'.generation >= coll.generation,
         coll'.generation = coll.generation => \A c \in Chunk : C!Exists(c)' <=> C!Exists(c),
         \A q \in Query : row[q] = Null => row'[q] = Null,
         \A q \in Query : row[q] # Null => row'[q].cites = row[q].cites
  PROVE  AnswersMove
<1>1. coll.generation \in Nat /\ coll'.generation \in Nat
  BY DEF C!IInv, C!TypeOK
<1>2. ASSUME NEW q \in Query, row[q] # Null, C!Shown(q)' # C!Shown(q) PROVE coll'.generation > coll.generation
  <2>1. row[q].cites \subseteq Chunk
    BY <1>2, OpenRequest DEF C!Row
  <2>2. coll'.generation # coll.generation
    BY <1>2, <2>1 DEF C!Shown
  <2> QED BY <1>1, <2>2
<1> QED BY <1>2 DEF AnswersMove, C!Open

(* A step of one request: it is loaded, it draws on passages, it ends, and only then is it recorded. *)
LEMMA AskAnswers ==
  ASSUME C!Settings, C!IInv, NEW q \in Query, C!Ask(q)
  PROVE  C!IInv' /\ AnswersMove
<1>1. req \in [Query -> C!Request \cup C!Ended \cup {Null}]
  BY DEF C!IInv, C!TypeOK
<1>2. ASSUME NEW a \in C!Actor, NEW v \in Conv \cup {Null}, NEW p \in Query \cup {Null}, NEW r \in Role,
             C!FetchCollection(q, a, v, p, r)
      PROVE  C!IInv' /\ AnswersMove
  <2>1. C!IInv'
    BY <1>2, FetchKeeps
  <2>2. req[q] = Null /\ UNCHANGED <<coll, chunk, row>> /\ \A s \in Query : s # q => req'[s] = req[s]
    BY <1>1, <1>2 DEF C!FetchCollection
  <2>3. AnswersMove
    BY <2>2 DEF AnswersMove, C!Open, C!Shown, C!Exists
  <2> QED BY <2>1, <2>3
<1>3. ASSUME NEW fits \in BOOLEAN, C!LoadContext(q, fits) PROVE C!IInv' /\ AnswersMove
  <2>1. C!IInv' /\ \A t \in req'[q].turns : t \in Query /\ row[t] # Null /\ C!SameContext(t, req[q].role)
    BY <1>3, ContextLoaded
  <2>2. ASSUME NEW t \in req'[q].turns
        PROVE  row[t].cites \subseteq {c \in Chunk : C!Exists(c) /\ req[q].role \in Readers[c]}
    <3>1. t \in Query /\ row[t] # Null /\ row[t].generation = coll.generation /\ row[t].role = req[q].role
      BY <2>1 DEF C!SameContext
    <3>2. C!RowConsistent(t) /\ row[t].cites \subseteq Chunk
      BY <3>1, OpenRequest DEF C!IInv, C!Row
    <3> QED BY <3>1, <3>2 DEF C!RowConsistent
  <2>3. /\ UNCHANGED <<coll, chunk, row>> /\ req'[q].at = "loaded"
        /\ \A s \in Query : s # q => req'[s] = req[s]
    <3>1. C!Open(q)
      BY <1>3 DEF C!LoadContext, C!Open
    <3>2. req[q] \in C!Request
      BY <3>1, OpenRequest
    <3> QED BY <1>1, <1>3, <3>2 DEF C!LoadContext, C!Request
  <2>4. AnswersMove
    BY <2>2, <2>3 DEF AnswersMove, C!Open, C!Shown, C!Exists
  <2> QED BY <2>1, <2>4
<1>4. ASSUME C!StartAlone(q) PROVE C!IInv' /\ AnswersMove
  <2>1. C!IInv' /\ req'[q].turns = {}
    BY <1>4, StartKeeps
  <2>2. UNCHANGED <<coll, chunk, row>> /\ req[q].conv = Null /\ \A s \in Query : s # q => req'[s] = req[s]
    BY <1>1, <1>4 DEF C!StartAlone
  <2>3. AnswersMove
    BY <2>1, <2>2 DEF AnswersMove, C!Open, C!Shown, C!Exists
  <2> QED BY <2>1, <2>3
<1>5. ASSUME NEW c \in Chunk, C!Retrieve(q, c) PROVE C!IInv' /\ AnswersMove
  <2>1. C!IInv'
    BY <1>5, RetrieveKeeps
  <2>2. /\ UNCHANGED <<coll, chunk, row>> /\ req[q].at = "loaded" /\ req'[q].at = "loaded"
        /\ \A s \in Query : s # q => req'[s] = req[s]
    <3>1. C!Open(q)
      BY <1>5 DEF C!Retrieve, C!Open
    <3>2. req[q] \in C!Request
      BY <3>1, OpenRequest
    <3> QED BY <1>1, <1>5, <3>2 DEF C!Retrieve, C!Request
  <2>3. AnswersMove
    BY <2>2 DEF AnswersMove, C!Open, C!Shown, C!Exists
  <2> QED BY <2>1, <2>3
<1>6. ASSUME NEW outcome \in C!Outcome, C!Record(q, outcome) PROVE C!IInv' /\ AnswersMove
  <2>1. /\ C!IInv' /\ row[q] = Null /\ UNCHANGED <<coll, chunk>>
        /\ \A s \in Query : s # q => row'[s] = row[s]
        /\ row'[q] # Null => row'[q].cites \subseteq C!ReadyChunks
        /\ req'[q].at = "done" /\ req[q].conv # Null => row'[q] # Null
    BY <1>6, RecordKeepsAll
  <2>2. req[q].at = "loaded" /\ \A s \in Query : s # q => req'[s] = req[s]
    BY <1>1, <1>6 DEF C!Record
  <2>3. AnswersMove
    BY <2>1, <2>2 DEF AnswersMove, C!Open, C!Shown, C!Exists
  <2> QED BY <2>1, <2>3
<1>7. ASSUME C!Crash(q) PROVE C!IInv' /\ AnswersMove
  <2> DEFINE x == [at |-> "error"]
  <2>1. C!Open(q) /\ x \in C!Ended /\ req' = [req EXCEPT ![q] = x] /\ UNCHANGED <<coll, chunk, guest, conv, row>>
    BY <1>7 DEF C!Crash, C!Ended
  <2>2. C!IInv'
    BY <2>1, EndKeeps
  <2>3. req'[q] = x /\ \A s \in Query : s # q => req'[s] = req[s]
    BY <1>1, <2>1
  <2>4. AnswersMove
    BY <2>1, <2>3 DEF AnswersMove, C!Open, C!Shown, C!Exists
  <2> QED BY <2>2, <2>4
<1> QED BY <1>2, <1>3, <1>4, <1>5, <1>6, <1>7 DEF C!Ask

LEMMA ConversationsStep ==
  ASSUME C!Settings, C!IInv, [C!Next]_(C!vars)
  PROVE  C!IInv' /\ AnswersMove
<1>1. coll \in [version : Nat, generation : Nat] /\ coll.generation \in Nat
  BY DEF C!IInv, C!TypeOK
<1>2. CASE C!Corpus
  <2>1. CorpusMoves /\ C!IInv'
    BY <1>2, CorpusStep, CorpusKeeps
  <2> QED BY <2>1, QuietAnswers DEF CorpusMoves
<1>3. ASSUME C!IInv', UNCHANGED <<coll, chunk, row, req>> PROVE C!IInv' /\ AnswersMove
  BY <1>1, <1>3, QuietAnswers DEF C!Exists
<1>4. ASSUME NEW v \in Conv, NEW a \in C!Actor, C!CreateConversation(v, a) PROVE C!IInv' /\ AnswersMove
  BY <1>3, <1>4, CreateKeeps DEF C!CreateConversation
<1>5. ASSUME NEW s \in Guest, C!Logout(s) PROVE C!IInv' /\ AnswersMove
  BY <1>3, <1>5, LogoutKeeps DEF C!Logout
<1>6. ASSUME NEW s \in Guest, NEW u \in Account, C!SignIn(s, u) PROVE C!IInv' /\ AnswersMove
  <2>1. UNCHANGED <<coll, chunk, req>>
    BY <1>6 DEF C!SignIn
  <2>2. \A c \in Chunk : C!Exists(c)' <=> C!Exists(c)
    BY <2>1 DEF C!Exists
  <2> QED BY <1>1, <1>6, <2>1, <2>2, SignInKeeps, QuietAnswers
<1>7. CASE \E q \in Query : C!Ask(q)
  BY <1>7, AskAnswers
<1>8. CASE UNCHANGED C!vars
  <2>1. C!IInv'
    BY <1>8 DEF C!vars, C!IInv, C!TypeOK, C!OwnersAgree, C!NothingLeftBehind, C!ContextOfOneSource, C!RowConsistent,
                C!RequestConsistent, C!Open, C!Exists, C!UserOf
  <2> QED BY <1>3, <1>8, <2>1 DEF C!vars
<1> QED BY <1>2, <1>4, <1>5, <1>6, <1>7, <1>8 DEF C!Next, C!Owners

(* Whatever the corpus, the guests and the queries do, and for any number of them: conversations *)
(* and the queries recorded in them agree on their owners, nothing stays with a session that was *)
(* signed in, and a kept context is of one source and one role.                                  *)
THEOREM ConversationsAreTheirs == ASSUME C!Settings PROVE C!Spec => []ConversationsHold
<1>1. C!Init => C!IInv
  BY ConversationsInit
<1>2. C!IInv /\ [C!Next]_(C!vars) => C!IInv'
  BY ConversationsStep
<1>3. C!IInv => ConversationsHold
  BY DEF C!IInv, ConversationsHold
<1> QED BY <1>1, <1>2, <1>3, PTL DEF C!Spec

(* What is recorded was drawn from the corpus as it is, whoever is told that a query of a         *)
(* conversation is done finds it recorded, what the answers of a kept context cite is still there  *)
(* for the one who asks, and a transcript changes only with the generation of the sources.        *)
THEOREM AnswersStand == ASSUME C!Settings PROVE C!Spec => AnswersRecorded
<1>1. C!Init => C!IInv
  BY ConversationsInit
<1>2. C!IInv /\ [C!Next]_(C!vars) => C!IInv'
  BY ConversationsStep
<1>3. C!IInv /\ [C!Next]_(C!vars) =>
        [\A q \in Query :
           req[q] # Null /\ req[q].at = "fetched" /\ req'[q].at = "loaded" =>
             \A t \in req'[q].turns :
               row[t].cites \subseteq {c \in Chunk : C!Exists(c) /\ req[q].role \in Readers[c]}]_(C!vars)
  BY ConversationsStep DEF AnswersMove
<1>4. C!IInv /\ [C!Next]_(C!vars) =>
        [\A q \in Query :
           row[q] = Null /\ row'[q] # Null => row'[q].cites \subseteq C!ReadyChunks]_(C!vars)
  BY ConversationsStep DEF AnswersMove
<1>5. C!IInv /\ [C!Next]_(C!vars) =>
        [\A q \in Query :
           C!Open(q) /\ req'[q].at = "done" /\ req[q].conv # Null => row'[q] # Null]_(C!vars)
  BY ConversationsStep DEF AnswersMove
<1>6. C!IInv /\ [C!Next]_(C!vars) =>
        [\A q \in Query :
           row[q] # Null /\ C!Shown(q)' # C!Shown(q) => coll'.generation > coll.generation]_(C!vars)
  BY ConversationsStep DEF AnswersMove
<1> QED BY <1>1, <1>2, <1>3, <1>4, <1>5, <1>6, PTL
        DEF C!Spec, AnswersRecorded, C!EvidenceStands, C!RecordedOfTheCorpus, C!DoneIsRecorded, C!TranscriptsStay

-----------------------------------------------------------------------------
(* Lists.  A finite set has a least element, and a list in its order. *)
Ordered(All, Under) ==
  /\ \A x, y \in All : x # y => <<x, y>> \in Under \/ <<y, x>> \in Under
  /\ \A x, y \in All : <<x, y>> \in Under => <<y, x>> \notin Under
  /\ \A x, y, z \in All : <<x, y>> \in Under /\ <<y, z>> \in Under => <<x, z>> \in Under

LEMMA LeastIn ==
  ASSUME NEW All, IsFiniteSet(All), NEW Under, Ordered(All, Under)
  PROVE  \A T \in SUBSET All : T # {} => \E m \in T : \A y \in T : y = m \/ <<m, y>> \in Under
<1> DEFINE Good == {T \in SUBSET All : T # {} => \E m \in T : \A y \in T : y = m \/ <<m, y>> \in Under}
<1>1. ASSUME NEW T \in SUBSET All, \A U \in SUBSET T : U # T => U \in Good PROVE T \in Good
  <2> SUFFICES ASSUME NEW u \in T PROVE \E m \in T : \A y \in T : y = m \/ <<m, y>> \in Under
    OBVIOUS
  <2>1. T \ {u} \in Good
    BY <1>1
  <2>2. CASE T \ {u} = {}
    BY <2>2
  <2>3. CASE T \ {u} # {}
    <3>1. PICK m \in T \ {u} : \A y \in T \ {u} : y = m \/ <<m, y>> \in Under
      BY <2>1, <2>3
    <3>2. CASE <<m, u>> \in Under
      BY <3>1, <3>2
    <3>3. CASE <<u, m>> \in Under
      BY <3>1, <3>3 DEF Ordered
    <3> QED BY <3>1, <3>2, <3>3 DEF Ordered
  <2> QED BY <2>2, <2>3
<1> HIDE DEF Good
<1>2. \A T \in SUBSET All : T \in Good
  BY <1>1, PartByPart
<1> QED BY <1>2 DEF Good

InTurn(list, Under) == \A i, j \in DOMAIN list : i < j => <<list[j], list[i]>> \in Under

LEMMA ListOf ==
  ASSUME NEW All, IsFiniteSet(All), NEW Under, Ordered(All, Under)
  PROVE  \E list \in [1 .. Cardinality(All) -> All] : InTurn(list, Under)
<1> DEFINE Good == {T \in SUBSET All : \E list \in [1 .. Cardinality(T) -> T] : InTurn(list, Under)}
<1>1. ASSUME NEW T \in SUBSET All, \A U \in SUBSET T : U # T => U \in Good PROVE T \in Good
  <2>0. IsFiniteSet(T) /\ Cardinality(T) \in Nat
    BY FS_Subset, FS_CardinalityType
  <2>1. CASE T = {}
    <3>1. Cardinality(T) = 0
      BY <2>0, <2>1, FS_EmptySet
    <3>2. [i \in 1 .. 0 |-> 0] \in [1 .. Cardinality(T) -> T] /\ InTurn([i \in 1 .. 0 |-> 0], Under)
      BY <3>1 DEF InTurn
    <3> QED BY <3>2
  <2>2. CASE T # {}
    <3>1. PICK m \in T : \A y \in T : y = m \/ <<m, y>> \in Under
      BY <2>2, LeastIn
    <3>2. Cardinality(T \ {m}) = Cardinality(T) - 1 /\ T \ {m} \in Good
      BY <1>1, <2>0, <3>1, FS_RemoveElement
    <3>3. PICK list \in [1 .. Cardinality(T) - 1 -> T \ {m}] : InTurn(list, Under)
      BY <3>2
    <3> DEFINE n == Cardinality(T)
               longer == [i \in 1 .. n |-> IF i < n THEN list[i] ELSE m]
    <3>4. n \in Nat
      BY <2>0
    <3>5. longer \in [1 .. n -> T]
      BY <3>3, <3>4
    <3>6. ASSUME NEW i \in 1 .. n, NEW j \in 1 .. n, i < j PROVE <<longer[j], longer[i]>> \in Under
      <4>1. i \in 1 .. n - 1 /\ longer[i] = list[i] /\ list[i] \in T \ {m}
        BY <3>3, <3>4, <3>6
      <4>2. CASE j < n
        BY <3>3, <3>4, <3>6, <4>1, <4>2 DEF InTurn
      <4>3. CASE j = n
        BY <3>1, <4>1, <4>3
      <4> QED BY <3>4, <3>6, <4>2, <4>3
    <3>7. InTurn(longer, Under)
      BY <3>5, <3>6 DEF InTurn
    <3> QED BY <3>5, <3>7
  <2> QED BY <2>1, <2>2
<1> HIDE DEF Good
<1>2. All \in Good
  BY <1>1, PartByPart
<1> QED BY <1>2 DEF Good

(* Keys are in one order. *)
LEMMA KeysOrdered ==
  ASSUME H!Settings, NEW k \in H!Instant \X H!Rows, NEW l \in H!Instant \X H!Rows, NEW m \in H!Instant \X H!Rows
  PROVE  /\ k = l \/ H!Before(k, l) \/ H!Before(l, k)
         /\ H!Before(k, l) => ~H!Before(l, k) /\ k # l
         /\ H!Before(k, l) /\ H!Before(l, m) => H!Before(k, m)
<1>1. /\ k = <<k[1], k[2]>> /\ l = <<l[1], l[2]>> /\ m = <<m[1], m[2]>>
      /\ k[1] \in Int /\ k[2] \in Int /\ l[1] \in Int /\ l[2] \in Int /\ m[1] \in Int /\ m[2] \in Int
  <2>1. H!Instant \subseteq Int /\ H!Rows \subseteq Int
    BY DEF H!Settings, H!Instant, H!Rows
  <2>2. ASSUME NEW p \in H!Instant \X H!Rows PROVE p = <<p[1], p[2]>> /\ p[1] \in Int /\ p[2] \in Int
    <3>1. PICK a \in H!Instant, b \in H!Rows : p = <<a, b>>
      OBVIOUS
    <3> QED BY <2>1, <3>1
  <2> QED BY <2>2
<1>2. k[1] = l[1] /\ k[2] = l[2] => k = l
  BY <1>1
<1> QED BY <1>1, <1>2 DEF H!Before

(* What is listed has a key of its own. *)
LEMMA KeyOf ==
  ASSUME H!Settings, H!TypeOK, NEW x \in H!Rows, H!Listed(x)
  PROVE  H!Key(x) \in H!Instant \X H!Rows /\ H!Key(x)[1] = H!Stamp(x) /\ H!Key(x)[2] = x /\ H!Stamp(x) \in H!Instant
<1>1. H!Stamp(x) \in H!Instant
  BY DEF H!TypeOK, H!Listed, H!Exists, H!Recorded, H!Stamp, H!Rows, H!ConvRow, H!QueryRow, H!Settings
<1> QED BY <1>1 DEF H!Key

LEMMA ListSizes == \A rows : H!Cardinality(rows) = Cardinality(rows) /\ (H!IsFiniteSet(rows) <=> IsFiniteSet(rows))
BY DEF H!Cardinality, Cardinality, H!IsFiniteSet, IsFiniteSet

LEMMA Newest ==
  ASSUME H!Settings, H!TypeOK, NEW rows \in SUBSET H!Rows, \A x \in rows : H!Listed(x)
  PROVE  /\ IsFiniteSet(rows) /\ Cardinality(rows) \in Nat
         /\ H!NewestFirst(rows) \in [1 .. Cardinality(rows) -> rows]
         /\ \A i, j \in 1 .. Cardinality(rows) : i < j =>
              H!Before(H!Key(H!NewestFirst(rows)[j]), H!Key(H!NewestFirst(rows)[i]))
         /\ \A x \in rows : \E i \in 1 .. Cardinality(rows) : H!NewestFirst(rows)[i] = x
<1> DEFINE Under == {p \in rows \X rows : H!Before(H!Key(p[1]), H!Key(p[2]))}
           n == Cardinality(rows)
           list == H!NewestFirst(rows)
<1>1. IsFiniteSet(rows) /\ n \in Nat
  <2>1. IsFiniteSet(Chat) /\ IsFiniteSet(Asked)
    BY ListSizes DEF H!Settings
  <2>2. IsFiniteSet(Chat \cup Asked)
    BY <2>1, FS_Union
  <2> QED BY <2>2, FS_Subset, FS_CardinalityType DEF H!Rows
<1>2. \A x, y \in rows : <<x, y>> \in Under <=> H!Before(H!Key(x), H!Key(y))
  OBVIOUS
<1>3. \A x \in rows : H!Key(x) \in H!Instant \X H!Rows /\ H!Key(x)[2] = x
  BY KeyOf
<1>4. Ordered(rows, Under)
  <2> HIDE DEF Under
  <2>1. \A x, y \in rows : x # y => H!Key(x) # H!Key(y)
    BY <1>3
  <2> QED BY <1>2, <1>3, <2>1, KeysOrdered DEF Ordered
<1>5. \E s \in [1 .. Cardinality(rows) -> rows] : H!Descends(s)
  <2>1. PICK s \in [1 .. Cardinality(rows) -> rows] : InTurn(s, Under)
    <3> HIDE DEF Under
    <3> QED BY <1>1, <1>4, ListOf
  <2> HIDE DEF Under
  <2>2. H!Descends(s)
    BY <1>2, <2>1 DEF InTurn, H!Descends
  <2> QED BY <2>2
<1>6. list \in [1 .. n -> rows] /\ \A i, j \in 1 .. n : i < j => H!Before(H!Key(list[j]), H!Key(list[i]))
  <2>1. list \in [1 .. Cardinality(rows) -> rows] /\ H!Descends(list)
    BY <1>5, ListSizes DEF H!NewestFirst
  <2> QED BY <2>1 DEF H!Descends
<1>9. n = Cardinality(rows)
  OBVIOUS
<1> HIDE DEF list, Under, n
<1>7. \A i, j \in 1 .. n : list[i] = list[j] => i = j
  <2> SUFFICES ASSUME NEW i \in 1 .. n, NEW j \in 1 .. n, i < j, list[i] = list[j] PROVE FALSE
    BY <1>1
  <2> QED BY <1>3, <1>6, KeysOrdered
<1>8. \A x \in rows : \E i \in 1 .. n : list[i] = x
  <2>1. list \in Injection(1 .. n, rows)
    BY <1>6, <1>7 DEF Injection, IsInjective
  <2>2. IsFiniteSet(1 .. n) /\ Cardinality(1 .. n) = n
    BY <1>1, FS_Interval
  <2>3. list \in Surjection(1 .. n, rows)
    BY <1>1, <1>9, <2>1, <2>2, FS_Injection
  <2> QED BY <2>3 DEF Surjection
<1> QED BY <1>1, <1>6, <1>8 DEF n, list

(* A page shows the newest of what is left, each once, down to its cursor, or all of it. *)
LEMMA Pages ==
  ASSUME H!Settings, H!TypeOK, NEW rows \in SUBSET H!Rows, \A x \in rows : H!Listed(x)
  PROVE  /\ H!PageOf(rows) \in Seq(H!Rows)
         /\ H!Range(H!PageOf(rows)) \subseteq rows
         /\ H!IsInjective(H!PageOf(rows))
         /\ ~H!HasMore(rows) => H!CursorOf(rows) = Null /\ rows \subseteq H!Range(H!PageOf(rows))
         /\ H!HasMore(rows) =>
              /\ H!CursorOf(rows) \in {H!Key(x) : x \in rows}
              /\ \A x \in H!Range(H!PageOf(rows)) : ~H!Before(H!Key(x), H!CursorOf(rows))
              /\ \A x \in rows : x \in H!Range(H!PageOf(rows)) \/ H!Before(H!Key(x), H!CursorOf(rows))
<1> DEFINE list == H!NewestFirst(rows)
           n == Cardinality(rows)
           page == H!PageOf(rows)
           m == IF H!HasMore(rows) THEN PageSize ELSE n
<1>1. /\ n \in Nat /\ list \in [1 .. n -> rows]
      /\ \A i, j \in 1 .. n : i < j => H!Before(H!Key(list[j]), H!Key(list[i]))
      /\ \A x \in rows : \E i \in 1 .. n : list[i] = x
  BY Newest
<1>2. /\ PageSize \in Nat \ {0} /\ (H!HasMore(rows) <=> n > PageSize) /\ m \in 0 .. n
      /\ H!HasMore(rows) => m = PageSize /\ m \in 1 .. n - 1
      /\ ~H!HasMore(rows) => m = n
  BY <1>1, ListSizes DEF H!HasMore, H!Settings
<1>3. page = IF H!HasMore(rows) THEN SubSeq(list, 1, PageSize) ELSE list
  BY DEF H!PageOf
<1>4. H!CursorOf(rows) = IF H!HasMore(rows) THEN H!Key(page[Len(page)]) ELSE Null
  BY DEF H!CursorOf, H!Last
<1>5. \A x \in rows : H!Key(x) \in H!Instant \X H!Rows
  BY KeyOf
<1> HIDE DEF list, n, page, m
<1>6. list \in Seq(rows) /\ Len(list) = n
  BY <1>1
<1>7. /\ page \in Seq(rows) /\ Len(page) = m /\ DOMAIN page = 1 .. m
      /\ \A i \in 1 .. m : page[i] = list[i]
  <2>1. CASE H!HasMore(rows)
    <3>1. page = SubSeq(list, 1, m) /\ m \in 1 .. n - 1
      BY <1>2, <1>3, <2>1
    <3> QED BY <1>1, <1>6, <3>1, SubSeqProperties
  <2>2. CASE ~H!HasMore(rows)
    BY <1>1, <1>2, <1>3, <1>6, <2>2
  <2> QED BY <2>1, <2>2
<1>8. H!Range(page) \subseteq rows /\ \A x \in rows : x \in H!Range(page) <=> \E i \in 1 .. m : list[i] = x
  <2>1. H!Range(page) = {page[i] : i \in 1 .. m}
    BY <1>7 DEF H!Range
  <2>2. \A i \in 1 .. m : page[i] = list[i] /\ i \in 1 .. n
    BY <1>1, <1>2, <1>7
  <2>3. \A i \in 1 .. m : list[i] \in rows
    BY <1>1, <2>2
  <2> QED BY <2>1, <2>2, <2>3
<1>9. H!IsInjective(page)
  <2> SUFFICES ASSUME NEW i \in 1 .. m, NEW j \in 1 .. m, i # j, page[i] = page[j] PROVE FALSE
    BY <1>7 DEF H!IsInjective
  <2>1. i \in 1 .. n /\ j \in 1 .. n /\ list[i] = list[j] /\ list[i] \in rows /\ (i < j \/ j < i)
    BY <1>1, <1>2, <1>7
  <2>2. H!Before(H!Key(list[i]), H!Key(list[i]))
    BY <1>1, <2>1
  <2> QED BY <1>5, <2>1, <2>2, KeysOrdered
<1>10. ASSUME ~H!HasMore(rows) PROVE H!CursorOf(rows) = Null /\ rows \subseteq H!Range(page)
  BY <1>1, <1>2, <1>4, <1>8, <1>10
<1>11. ASSUME H!HasMore(rows)
       PROVE  /\ H!CursorOf(rows) \in {H!Key(x) : x \in rows}
              /\ \A x \in H!Range(page) : ~H!Before(H!Key(x), H!CursorOf(rows))
              /\ \A x \in rows : x \in H!Range(page) \/ H!Before(H!Key(x), H!CursorOf(rows))
  <2>1. m \in 1 .. n - 1 /\ H!CursorOf(rows) = H!Key(list[m]) /\ list[m] \in rows
    BY <1>1, <1>2, <1>4, <1>7, <1>11
  <2>2. ASSUME NEW x \in rows, NEW i \in 1 .. m, list[i] = x PROVE ~H!Before(H!Key(x), H!Key(list[m]))
    <3>1. CASE i = m
      BY <1>5, <2>1, <2>2, <3>1, KeysOrdered
    <3>2. CASE i < m
      BY <1>1, <1>5, <2>1, <2>2, <3>2, KeysOrdered
    <3> QED BY <2>1, <3>1, <3>2
  <2>3. ASSUME NEW x \in rows, x \notin H!Range(page) PROVE H!Before(H!Key(x), H!Key(list[m]))
    <3>1. PICK i \in 1 .. n : list[i] = x
      BY <1>1
    <3>2. m < i
      BY <1>1, <1>8, <2>1, <2>3, <3>1
    <3> QED BY <1>1, <2>1, <3>1, <3>2
  <2> QED BY <1>8, <2>1, <2>2, <2>3
<1>12. page \in Seq(H!Rows)
  BY <1>7
<1> QED BY <1>8, <1>9, <1>10, <1>11, <1>12 DEF page

(* The rows alone: their types, their times, whom they follow and whose they are. *)
RowsRight ==
  /\ time \in H!Instant
  /\ chat \in [Chat -> H!ConvRow \cup {Null}]
  /\ asked \in [Asked -> H!QueryRow \cup {Null}]
  /\ H!RowsInTime /\ H!FollowUpsLater /\ H!OwnersAgree

(* No row that is listed goes or turns back in time. *)
RowsMove ==
  \A x \in H!Rows : H!Listed(x) => H!Listed(x)' /\ H!Stamp(x) <= H!Stamp(x)'

(* What has not moved stays in its list. *)
StaysIn(a, list) ==
  \A x \in H!Rows : x \in H!InList(a, list) /\ H!Stamp(x)' = H!Stamp(x) => x \in H!InList(a, list)'

LEMMA RowTypes ==
  ASSUME H!Settings, RowsRight
  PROVE  /\ \A c \in Chat : chat[c] # Null =>
              /\ chat[c] \in H!ConvRow /\ chat[c].updated \in Int /\ chat[c].owner \in H!Actor /\ chat[c].archived \in BOOLEAN
         /\ \A q \in Asked : asked[q] # Null =>
              /\ asked[q] \in H!QueryRow /\ asked[q].created \in Int /\ asked[q].owner \in H!Actor
              /\ asked[q].conv \in Chat \cup {Null} /\ asked[q].parent \in Asked \cup {Null}
         /\ time \in Int /\ 0 <= time /\ time <= Instants /\ Instants \in Nat
         /\ Null \notin Chat \cup Asked
         /\ \A r \in H!ConvRow \cup H!QueryRow : r # Null
         /\ Chat \cap Asked = {}
BY DEF H!Settings, RowsRight, H!ConvRow, H!QueryRow, H!Instant

(* Who is in a list. *)
HasIn(a, list, x) ==
  \/ /\ list.of = "conversations" /\ x \in Chat /\ chat[x] # Null
     /\ chat[x].owner = a /\ (list.filter = "all" \/ (chat[x].archived = (list.filter = "archived")))
  \/ /\ list.of = "transcript" /\ x \in Asked /\ asked[x] # Null
     /\ asked[x].at = "recorded" /\ asked[x].conv = list.conv
  \/ /\ list.of = "collection" /\ x \in Asked /\ asked[x] # Null
     /\ asked[x].at = "recorded" /\ asked[x].owner = a /\ a = "user"

LEMMA ListHas ==
  ASSUME NEW a, NEW list \in H!List, NEW x
  PROVE  /\ x \in H!InList(a, list) <=> HasIn(a, list, x)
         /\ x \in H!InList(a, list)' <=> HasIn(a, list, x)'
<1>1. list.of \in {"conversations", "transcript", "collection"}
  BY DEF H!List
<1>2. x \in H!InList(a, list) <=> HasIn(a, list, x)
  BY <1>1 DEF HasIn, H!InList, H!Owns, H!Kept, H!Recorded, H!Exists
<1>3. x \in H!InList(a, list)' <=> HasIn(a, list, x)'
  BY <1>1 DEF HasIn, H!InList, H!Owns, H!Kept, H!Recorded, H!Exists
<1> QED BY <1>2, <1>3

LEMMA TickRows ==
  ASSUME H!Settings, RowsRight, H!Tick
  PROVE  RowsRight' /\ RowsMove /\ \A a : \A list \in H!List : StaysIn(a, list)
<1>1. RowsRight'
  BY RowTypes DEF H!Tick, RowsRight, H!RowsInTime, H!FollowUpsLater, H!OwnersAgree, H!Exists, H!Recorded, H!Instant, H!Settings
<1>2. \A x : H!Listed(x)' = H!Listed(x) /\ H!Stamp(x)' = H!Stamp(x)
  BY DEF H!Tick, H!Listed, H!Exists, H!Recorded, H!Stamp
<1>3. \A a, list : H!InList(a, list)' = H!InList(a, list)
  BY DEF H!Tick, H!InList, H!Owns, H!Kept, H!Recorded, H!Exists
<1>4. ASSUME NEW x \in H!Rows, H!Listed(x) PROVE H!Stamp(x) \in Int
  BY <1>4, RowTypes DEF H!Listed, H!Exists, H!Recorded, H!Stamp, H!Rows
<1> QED BY <1>1, <1>2, <1>3, <1>4 DEF RowsMove, StaysIn

LEMMA CreateRows ==
  ASSUME H!Settings, RowsRight, NEW c \in Chat, NEW a \in H!Actor, H!Create(c, a)
  PROVE  RowsRight' /\ RowsMove /\ \A b : \A list \in H!List : StaysIn(b, list)
<1>1. /\ chat[c] = Null /\ chat'[c] = [owner |-> a, updated |-> time, archived |-> FALSE] /\ chat'[c] \in H!ConvRow
      /\ \A d \in Chat : d # c => chat'[d] = chat[d]
      /\ asked' = asked /\ time' = time /\ chat' \in [Chat -> H!ConvRow \cup {Null}]
  BY DEF H!Create, H!Exists, RowsRight, H!ConvRow, H!Instant
<1>2. RowsRight'
  BY <1>1, RowTypes DEF RowsRight, H!RowsInTime, H!FollowUpsLater, H!OwnersAgree, H!Exists, H!Recorded
<1>3. RowsMove
  BY <1>1, RowTypes DEF RowsMove, H!Listed, H!Exists, H!Recorded, H!Stamp, H!Rows
<1>4. ASSUME NEW b, NEW list \in H!List PROVE StaysIn(b, list)
  BY <1>1, ListHas DEF StaysIn, HasIn
<1> QED BY <1>2, <1>3, <1>4

LEMMA UpdateRows ==
  ASSUME H!Settings, RowsRight, NEW c \in Chat, NEW a \in H!Actor, NEW renamed \in BOOLEAN, NEW archived \in BOOLEAN,
         H!Update(c, a, renamed, archived)
  PROVE  RowsRight' /\ RowsMove /\ \A b : \A list \in H!List : StaysIn(b, list)
<1>1. PICK t \in chat[c].updated + 1 .. time :
        chat' = [chat EXCEPT ![c].updated = t, ![c].archived = archived]
  BY DEF H!Update
<1>2. /\ chat[c] # Null /\ chat[c] \in H!ConvRow /\ t > chat[c].updated /\ t <= time /\ t \in H!Instant
      /\ asked' = asked /\ time' = time
  BY <1>1, RowTypes DEF H!Update, H!Owns, H!Exists, H!Instant, RowsRight, H!ConvRow
<1>3. /\ chat'[c] \in H!ConvRow /\ chat'[c].updated = t /\ chat'[c].owner = chat[c].owner
      /\ \A d \in Chat : d # c => chat'[d] = chat[d]
      /\ chat' \in [Chat -> H!ConvRow \cup {Null}]
  BY <1>1, <1>2 DEF RowsRight, H!ConvRow
<1>4. RowsRight'
  BY <1>2, <1>3, RowTypes DEF RowsRight, H!RowsInTime, H!FollowUpsLater, H!OwnersAgree, H!Exists, H!Recorded
<1>5. RowsMove
  BY <1>2, <1>3, RowTypes DEF RowsMove, H!Listed, H!Exists, H!Recorded, H!Stamp, H!Rows
<1>6. ASSUME NEW b, NEW list \in H!List PROVE StaysIn(b, list)
  <2>1. \A d \in Chat : H!Stamp(d)' = H!Stamp(d) => d # c
    BY <1>2, <1>3, RowTypes DEF H!Stamp
  <2> QED BY <1>2, <1>3, <2>1, ListHas DEF StaysIn, HasIn
<1> QED BY <1>4, <1>5, <1>6

LEMMA AcceptRows ==
  ASSUME H!Settings, RowsRight, NEW q \in Asked, NEW a \in H!Actor, NEW c \in Chat \cup {Null}, NEW p \in Asked \cup {Null},
         H!Accept(q, a, c, p)
  PROVE  RowsRight' /\ RowsMove /\ \A b : \A list \in H!List : StaysIn(b, list)
<1> DEFINE new == [at |-> "accepted", conv |-> c, parent |-> p, owner |-> a, created |-> time]
<1>1. /\ asked[q] = Null /\ asked'[q] = new /\ new \in H!QueryRow
      /\ \A r \in Asked : r # q => asked'[r] = asked[r]
      /\ chat' = chat /\ time' = time /\ asked' \in [Asked -> H!QueryRow \cup {Null}]
  BY DEF H!Accept, RowsRight, H!QueryRow
<1>2. new.at = "accepted" /\ new.conv = c /\ new.parent = p /\ new.owner = a /\ new.created = time
  OBVIOUS
<1> HIDE DEF new
<1>3. /\ c # Null => chat[c] # Null
      /\ p # Null => c # Null /\ asked[p] # Null /\ asked[p].at = "recorded" /\ asked[p].conv = c /\ p # q
  BY <1>1 DEF H!Accept, H!Owns, H!Exists, H!Recorded
<1>4. RowsRight'
  BY <1>1, <1>2, <1>3, RowTypes DEF RowsRight, H!RowsInTime, H!FollowUpsLater, H!OwnersAgree, H!Exists, H!Recorded
<1>5. RowsMove
  BY <1>1, RowTypes DEF RowsMove, H!Listed, H!Exists, H!Recorded, H!Stamp, H!Rows
<1>6. ASSUME NEW b, NEW list \in H!List PROVE StaysIn(b, list)
  BY <1>1, <1>2, ListHas DEF StaysIn, HasIn
<1> QED BY <1>4, <1>5, <1>6

LEMMA RecordRows ==
  ASSUME H!Settings, RowsRight, NEW q \in Asked, H!Record(q)
  PROVE  RowsRight' /\ RowsMove /\ \A b : \A list \in H!List : StaysIn(b, list)
<1>1. /\ asked[q] # Null /\ asked[q].at = "accepted" /\ asked[q] \in H!QueryRow
      /\ time < Instants /\ time' = time + 1 /\ time' \in H!Instant
  BY RowTypes DEF H!Record, H!Instant
<1>2. asked[q].conv # Null =>
        /\ asked[q].conv \in Chat /\ chat[asked[q].conv] # Null /\ chat[asked[q].conv] \in H!ConvRow
        /\ chat[asked[q].conv].owner \in H!Actor
  BY <1>1, RowTypes DEF RowsRight, H!RowsInTime, H!Exists
<1>3. /\ asked' \in [Asked -> H!QueryRow \cup {Null}]
      /\ \A r \in Asked : r # q => asked'[r] = asked[r]
      /\ asked'[q] \in H!QueryRow /\ asked'[q].at = "recorded"
      /\ asked'[q].conv = asked[q].conv /\ asked'[q].parent = asked[q].parent
      /\ asked'[q].created <= time /\ asked'[q].created \in Int
      /\ asked[q].conv # Null => asked'[q].created = asked[q].created /\ asked'[q].owner = chat[asked[q].conv].owner
  <2>1. CASE asked[q].conv = Null
    <3>1. PICK t \in asked[q].created .. time : asked' = [asked EXCEPT ![q].at = "recorded", ![q].created = t]
      BY <2>1 DEF H!Record
    <3>2. t \in H!Instant /\ t <= time /\ t \in Int
      BY <1>1, RowTypes DEF H!Instant, H!QueryRow
    <3>3. /\ asked'[q] = [asked[q] EXCEPT !.at = "recorded", !.created = t]
          /\ \A r \in Asked : r # q => asked'[r] = asked[r]
      BY <3>1 DEF RowsRight
    <3>4. asked'[q] \in H!QueryRow
      BY <1>1, <3>2, <3>3 DEF H!QueryRow
    <3>5. asked' \in [Asked -> H!QueryRow \cup {Null}]
      BY <3>1, <3>4 DEF RowsRight
    <3> QED BY <1>1, <2>1, <3>2, <3>3, <3>4, <3>5 DEF H!QueryRow
  <2>2. CASE asked[q].conv # Null
    <3>1. asked' = [asked EXCEPT ![q].at = "recorded", ![q].owner = chat[asked[q].conv].owner]
      BY <2>2 DEF H!Record
    <3>3. /\ asked'[q] = [asked[q] EXCEPT !.at = "recorded", !.owner = chat[asked[q].conv].owner]
          /\ \A r \in Asked : r # q => asked'[r] = asked[r]
      BY <3>1 DEF RowsRight
    <3>4. asked'[q] \in H!QueryRow
      BY <1>1, <1>2, <2>2, <3>3 DEF H!QueryRow
    <3>5. asked' \in [Asked -> H!QueryRow \cup {Null}]
      BY <3>1, <3>4 DEF RowsRight
    <3>6. asked[q].created <= time /\ asked[q].created \in Int
      BY <1>1, RowTypes DEF RowsRight, H!RowsInTime
    <3> QED BY <1>1, <2>2, <3>3, <3>4, <3>5, <3>6 DEF H!QueryRow
  <2> QED BY <2>1, <2>2
<1>4. /\ chat' \in [Chat -> H!ConvRow \cup {Null}]
      /\ \A c \in Chat : chat[c] = Null => chat'[c] = Null
      /\ \A c \in Chat : chat[c] # Null =>
           /\ chat'[c] # Null /\ chat'[c].owner = chat[c].owner /\ chat'[c].archived = chat[c].archived
           /\ chat[c].updated <= chat'[c].updated /\ chat'[c].updated <= time
  <2>1. CASE asked[q].conv = Null
    BY <2>1, RowTypes DEF H!Record, RowsRight, H!RowsInTime, H!Exists
  <2>2. CASE asked[q].conv # Null
    <3> DEFINE c == asked[q].conv
    <3>1. PICK t \in chat[c].updated + 1 .. time : chat' = [chat EXCEPT ![c].updated = t]
      BY <2>2 DEF H!Record
    <3> HIDE DEF c
    <3>2. c \in Chat /\ chat[c] # Null /\ chat[c] \in H!ConvRow
      BY <1>2, <2>2 DEF c
    <3>3. t \in H!Instant /\ t <= time /\ chat[c].updated < t
      BY <1>1, <3>2, RowTypes DEF H!Instant, H!ConvRow
    <3>4. /\ chat'[c] = [chat[c] EXCEPT !.updated = t]
          /\ \A d \in Chat : d # c => chat'[d] = chat[d]
      BY <3>1, <3>2 DEF RowsRight
    <3>5. /\ chat'[c] \in H!ConvRow /\ chat'[c].updated = t /\ chat'[c].owner = chat[c].owner
          /\ chat'[c].archived = chat[c].archived
      BY <3>2, <3>3, <3>4 DEF H!ConvRow
    <3>6. chat' \in [Chat -> H!ConvRow \cup {Null}]
      BY <3>1, <3>5 DEF RowsRight
    <3>7. chat'[c] # Null
      BY <3>5, RowTypes
    <3>8. \A d \in Chat : chat[d] # Null => chat[d].updated \in Int /\ chat[d].updated <= time
      BY RowTypes DEF RowsRight, H!RowsInTime, H!Exists
    <3>9. ASSUME NEW d \in Chat, chat[d] # Null
          PROVE  /\ chat'[d] # Null /\ chat'[d].owner = chat[d].owner /\ chat'[d].archived = chat[d].archived
                 /\ chat[d].updated <= chat'[d].updated /\ chat'[d].updated <= time
      <4>1. CASE d = c
        <5>1. t \in Int /\ chat[c].updated \in Int
          BY <3>2, <3>3, RowTypes DEF H!Instant
        <5> QED BY <3>3, <3>5, <3>7, <4>1, <5>1
      <4>2. CASE d # c
        BY <3>4, <3>8, <3>9, <4>2
      <4> QED BY <4>1, <4>2
    <3>10. \A d \in Chat : chat[d] = Null => chat'[d] = Null
      BY <3>2, <3>4
    <3> QED BY <3>6, <3>9, <3>10
  <2> QED BY <2>1, <2>2
<1>5. asked'[q] # Null /\ \A r \in Asked : asked'[r] = Null <=> asked[r] = Null
  BY <1>1, <1>3, RowTypes
<1>6. H!RowsInTime'
  <2>1. \A c \in Chat : chat'[c] # Null => chat'[c].updated <= time'
    <3>1. \A c \in Chat : chat'[c] # Null => chat'[c].updated \in Int
      BY <1>4 DEF H!ConvRow, H!Instant
    <3> QED BY <1>1, <1>4, <3>1, RowTypes
  <2>2. ASSUME NEW r \in Asked, asked'[r] # Null
        PROVE  /\ asked'[r].created <= time' /\ asked'[r].created < time'
               /\ asked'[r].conv # Null => chat'[asked'[r].conv] # Null
    <3>1. CASE r = q
      BY <1>1, <1>2, <1>3, <1>4, <3>1, RowTypes
    <3>2. CASE r # q
      <4>1. /\ asked[r] # Null /\ asked[r].created \in Int /\ asked[r].created <= time
            /\ asked[r].conv \in Chat \cup {Null} /\ (asked[r].conv # Null => chat[asked[r].conv] # Null)
        BY <1>3, <1>5, <2>2, <3>2, RowTypes DEF RowsRight, H!RowsInTime, H!Exists
      <4> QED BY <1>1, <1>3, <1>4, <3>2, <4>1, RowTypes
    <3> QED BY <3>1, <3>2
  <2> QED BY <2>1, <2>2 DEF H!RowsInTime, H!Exists, H!Recorded
<1>7. H!FollowUpsLater'
  <2> SUFFICES ASSUME NEW r \in Asked, asked'[r] # Null, asked'[r].parent # Null
               PROVE  LET p == asked'[r].parent
                      IN  /\ asked'[r].conv # Null /\ asked'[p] # Null /\ asked'[p].at = "recorded"
                          /\ asked'[p].conv = asked'[r].conv /\ asked'[p].created < asked'[r].created
    BY DEF H!FollowUpsLater, H!Recorded
  <2> DEFINE p == asked[r].parent
  <2>1. asked[r] # Null /\ asked'[r].parent = p /\ asked'[r].conv = asked[r].conv
    BY <1>3, <1>5
  <2>2. /\ asked[r].conv # Null /\ asked[p] # Null /\ asked[p].at = "recorded"
        /\ asked[p].conv = asked[r].conv /\ asked[p].created < asked[r].created /\ p \in Asked
    BY <2>1, RowTypes DEF RowsRight, H!FollowUpsLater, H!Recorded
  <2>3. p # q /\ asked'[p] = asked[p]
    BY <1>1, <1>3, <2>2
  <2>4. asked'[r].created = asked[r].created
    BY <1>3, <2>1, <2>2
  <2> QED BY <2>1, <2>2, <2>3, <2>4
<1>8. H!OwnersAgree'
  <2> SUFFICES ASSUME NEW r \in Asked, asked'[r] # Null, asked'[r].at = "recorded", asked'[r].conv # Null
               PROVE  asked'[r].owner = chat'[asked'[r].conv].owner
    BY DEF H!OwnersAgree, H!Recorded
  <2>1. CASE r = q
    BY <1>2, <1>3, <1>4, <2>1
  <2>2. CASE r # q
    BY <1>3, <1>4, <1>5, <2>2, RowTypes DEF RowsRight, H!OwnersAgree, H!Recorded, H!RowsInTime, H!Exists
  <2> QED BY <2>1, <2>2
<1>9. RowsMove
  <2> SUFFICES ASSUME NEW x \in H!Rows, H!Listed(x) PROVE H!Listed(x)' /\ H!Stamp(x) <= H!Stamp(x)'
    BY DEF RowsMove
  <2>1. CASE x \in Chat
    BY <1>4, <2>1, RowTypes DEF H!Listed, H!Exists, H!Stamp
  <2>2. CASE x \in Asked /\ x \notin Chat
    <3>1. asked[x] # Null /\ asked[x].at = "recorded" /\ asked[x].created \in Int
      BY <2>2, RowTypes DEF H!Listed, H!Recorded
    <3>2. asked'[x] = asked[x]
      BY <1>1, <1>3, <2>2, <3>1
    <3> QED BY <2>2, <3>1, <3>2 DEF H!Listed, H!Recorded, H!Stamp
  <2> QED BY <2>1, <2>2 DEF H!Rows
<1>10. ASSUME NEW b, NEW list \in H!List PROVE StaysIn(b, list)
  <2>1. \A r \in Asked : asked[r] # Null /\ asked[r].at = "recorded" => asked'[r] = asked[r]
    BY <1>1, <1>3
  <2> QED BY <1>4, <2>1, ListHas DEF StaysIn, HasIn
<1> QED BY <1>1, <1>3, <1>4, <1>6, <1>7, <1>8, <1>9, <1>10 DEF RowsRight

(* Only what a guest's list has may leave it when the guest signs in. *)
LEMMA ClaimRows ==
  ASSUME H!Settings, RowsRight, H!Claim
  PROVE  RowsRight' /\ RowsMove /\ \A list \in H!List : StaysIn("user", list)
<1>1. /\ time' = time
      /\ chat' \in [Chat -> H!ConvRow \cup {Null}]
      /\ \A c \in Chat : chat[c] = Null => chat'[c] = Null
      /\ \A c \in Chat : chat[c] # Null =>
           /\ chat'[c] # Null /\ chat'[c].owner = "user" /\ chat'[c].archived = chat[c].archived
           /\ chat'[c].updated = chat[c].updated
  <2>1. \A c \in Chat : chat'[c] = IF chat[c] # Null THEN [chat[c] EXCEPT !.owner = "user"] ELSE Null
    BY DEF H!Claim, H!Exists
  <2>2. ASSUME NEW c \in Chat, chat[c] # Null
        PROVE  /\ chat'[c] \in H!ConvRow /\ chat'[c].owner = "user" /\ chat'[c].archived = chat[c].archived
               /\ chat'[c].updated = chat[c].updated
    <3>1. chat[c] \in H!ConvRow
      BY <2>2, RowTypes
    <3>2. chat'[c] = [chat[c] EXCEPT !.owner = "user"]
      BY <2>1, <2>2
    <3> QED BY <3>1, <3>2 DEF H!ConvRow, H!Actor
  <2>3. chat' = [c \in Chat |-> chat'[c]]
    BY DEF H!Claim
  <2> QED BY <2>1, <2>2, <2>3, RowTypes DEF H!Claim
<1>2. /\ asked' \in [Asked -> H!QueryRow \cup {Null}]
      /\ \A q \in Asked : asked[q] = Null => asked'[q] = Null
      /\ \A q \in Asked : asked[q] # Null =>
           /\ asked'[q] # Null /\ asked'[q].at = asked[q].at /\ asked'[q].conv = asked[q].conv
           /\ asked'[q].parent = asked[q].parent /\ asked'[q].created = asked[q].created
           /\ asked'[q].owner \in {asked[q].owner, "user"}
           /\ asked[q].at = "recorded" /\ asked[q].conv # Null => asked'[q].owner = "user"
  <2>1. \A q \in Asked : asked'[q] = IF asked[q] # Null /\ asked[q].at = "recorded" /\ asked[q].conv # Null
                                     THEN [asked[q] EXCEPT !.owner = "user"] ELSE asked[q]
    BY DEF H!Claim, H!Recorded
  <2>2. ASSUME NEW q \in Asked, asked[q] # Null
        PROVE  /\ asked'[q] \in H!QueryRow /\ asked'[q].at = asked[q].at /\ asked'[q].conv = asked[q].conv
               /\ asked'[q].parent = asked[q].parent /\ asked'[q].created = asked[q].created
               /\ asked'[q].owner \in {asked[q].owner, "user"}
               /\ asked[q].at = "recorded" /\ asked[q].conv # Null => asked'[q].owner = "user"
    <3>1. asked[q] \in H!QueryRow
      BY <2>2, RowTypes
    <3>2. CASE asked[q].at = "recorded" /\ asked[q].conv # Null
      <4>1. asked'[q] = [asked[q] EXCEPT !.owner = "user"]
        BY <2>1, <2>2, <3>2
      <4> QED BY <3>1, <4>1 DEF H!QueryRow, H!Actor
    <3>3. CASE ~(asked[q].at = "recorded" /\ asked[q].conv # Null)
      <4>1. asked'[q] = asked[q]
        BY <2>1, <3>3
      <4> QED BY <3>1, <3>3, <4>1
    <3> QED BY <3>2, <3>3
  <2>3. asked' = [q \in Asked |-> asked'[q]]
    BY DEF H!Claim
  <2> QED BY <2>1, <2>2, <2>3, RowTypes
<1>3. RowsRight'
  <2>1. H!RowsInTime'
    BY <1>1, <1>2, RowTypes DEF RowsRight, H!RowsInTime, H!Exists, H!Recorded
  <2>2. H!FollowUpsLater'
    <3> SUFFICES ASSUME NEW r \in Asked, asked'[r] # Null, asked'[r].parent # Null
                 PROVE  LET p == asked'[r].parent
                        IN  /\ asked'[r].conv # Null /\ asked'[p] # Null /\ asked'[p].at = "recorded"
                            /\ asked'[p].conv = asked'[r].conv /\ asked'[p].created < asked'[r].created
      BY DEF H!FollowUpsLater, H!Recorded
    <3> DEFINE p == asked[r].parent
    <3>1. asked[r] # Null /\ asked'[r].parent = p /\ asked'[r].conv = asked[r].conv /\ asked'[r].created = asked[r].created
      BY <1>2
    <3>2. /\ asked[r].conv # Null /\ asked[p] # Null /\ asked[p].at = "recorded"
          /\ asked[p].conv = asked[r].conv /\ asked[p].created < asked[r].created /\ p \in Asked
      BY <3>1, RowTypes DEF RowsRight, H!FollowUpsLater, H!Recorded
    <3> QED BY <1>2, <3>1, <3>2
  <2>3. H!OwnersAgree'
    <3> SUFFICES ASSUME NEW r \in Asked, asked'[r] # Null, asked'[r].at = "recorded", asked'[r].conv # Null
                 PROVE  asked'[r].owner = chat'[asked'[r].conv].owner
      BY DEF H!OwnersAgree, H!Recorded
    <3>1. asked[r] # Null /\ asked[r].at = "recorded" /\ asked[r].conv = asked'[r].conv /\ asked'[r].owner = "user"
      BY <1>2
    <3>2. asked[r].conv \in Chat /\ chat[asked[r].conv] # Null
      BY <3>1, RowTypes DEF RowsRight, H!RowsInTime, H!Exists
    <3> QED BY <1>1, <3>1, <3>2
  <2> QED BY <1>1, <1>2, <2>1, <2>2, <2>3 DEF RowsRight
<1>4. RowsMove
  BY <1>1, <1>2, RowTypes DEF RowsMove, H!Listed, H!Exists, H!Recorded, H!Stamp, H!Rows
<1>5. ASSUME NEW list \in H!List PROVE StaysIn("user", list)
  BY <1>1, <1>2, ListHas DEF StaysIn, HasIn
<1> QED BY <1>3, <1>4, <1>5

LEMMA ReaderTypes ==
  ASSUME H!TypeOK, reader # Null
  PROVE  /\ reader \in H!Reader /\ reader.actor \in H!Actor /\ reader.list \in H!List
         /\ reader.at \in {"open", "ended", "lost"} /\ reader.shown \in Seq(H!Rows)
         /\ reader.cursor \in (H!Instant \X H!Rows) \cup {Null}
         /\ DOMAIN reader.start \subseteq H!Rows
         /\ \A x \in DOMAIN reader.start : reader.start[x] \in H!Instant
         /\ H!Range(reader.shown) \subseteq H!Rows
<1>1. reader \in H!Reader
  BY DEF H!TypeOK
<1>2. /\ reader.actor \in H!Actor /\ reader.list \in H!List
      /\ reader.at \in {"open", "ended", "lost"} /\ reader.shown \in Seq(H!Rows)
      /\ reader.cursor \in (H!Instant \X H!Rows) \cup {Null}
      /\ reader.start \in UNION {[rows -> H!Instant] : rows \in SUBSET H!Rows}
  BY <1>1 DEF H!Reader, H!Rows
<1>3. PICK rows \in SUBSET H!Rows : reader.start \in [rows -> H!Instant]
  BY <1>2
<1>4. H!Range(reader.shown) \subseteq H!Rows
  BY <1>2 DEF H!Range
<1> QED BY <1>1, <1>2, <1>3, <1>4

LEMMA RowsAndReader ==
  /\ H!IInv <=> H!TypeOK /\ RowsRight /\ H!NothingTwice /\ H!ReaderOnItsWay
  /\ RowsRight /\ reader \in H!Reader \cup {Null} => H!TypeOK
BY DEF H!IInv, H!TypeOK, RowsRight

(* A stamp grows, or the key is as it was. *)
LEMMA KeysGrow ==
  ASSUME H!Settings, H!TypeOK, H!TypeOK', RowsMove, NEW x \in H!Rows, H!Listed(x)
  PROVE  /\ H!Listed(x)' /\ H!Stamp(x) \in Int /\ H!Stamp(x)' \in Int /\ H!Stamp(x) <= H!Stamp(x)'
         /\ H!Stamp(x)' = H!Stamp(x) => H!Key(x)' = H!Key(x)
         /\ \A k \in H!Instant \X H!Rows : ~H!Before(H!Key(x), k) => ~H!Before(H!Key(x)', k)
<1>1. H!Listed(x)' /\ H!Stamp(x) <= H!Stamp(x)'
  BY DEF RowsMove
<1>2. H!Key(x) = <<H!Stamp(x), x>> /\ H!Key(x)' = <<H!Stamp(x)', x>>
  BY DEF H!Key
<1>3. H!Stamp(x) \in H!Instant
  BY KeyOf
<1>4. H!Stamp(x)' \in H!Instant
  BY <1>1 DEF H!TypeOK, H!Listed, H!Exists, H!Recorded, H!Stamp, H!Rows, H!ConvRow, H!QueryRow, H!Settings
<1>5. H!Stamp(x) \in Int /\ H!Stamp(x)' \in Int
  BY <1>3, <1>4 DEF H!Instant, H!Settings
<1>6. ASSUME NEW k \in H!Instant \X H!Rows, ~H!Before(H!Key(x), k) PROVE ~H!Before(H!Key(x)', k)
  <2>1. PICK i \in H!Instant, y \in H!Rows : k = <<i, y>>
    OBVIOUS
  <2>2. i \in Int /\ y \in Int /\ x \in Int
    BY <2>1 DEF H!Instant, H!Rows, H!Settings
  <2>3. ~(H!Stamp(x) < i \/ (H!Stamp(x) = i /\ x < y))
    BY <1>2, <1>6, <2>1 DEF H!Before
  <2>4. ~(H!Stamp(x)' < i \/ (H!Stamp(x)' = i /\ x < y))
    BY <1>1, <1>5, <2>2, <2>3
  <2> QED BY <1>2, <2>1, <2>4 DEF H!Before
<1> QED BY <1>1, <1>2, <1>5, <1>6

(* While rows move, what is shown stays behind the cursor and what is still to come ahead. *)
LEMMA ReaderFollows ==
  ASSUME H!Settings, H!IInv, RowsRight', RowsMove,
         \/ reader' = reader /\ (reader # Null /\ reader.at = "open" => StaysIn(reader.actor, reader.list))
         \/ reader # Null /\ reader.at = "open" /\ reader' = [reader EXCEPT !.at = "lost"]
  PROVE  H!IInv'
<1>1. H!TypeOK /\ H!NothingTwice /\ H!ReaderOnItsWay
  BY DEF H!IInv
<1>2. reader' \in H!Reader \cup {Null}
  <2>1. CASE reader' = reader
    BY <1>1, <2>1 DEF H!TypeOK
  <2>2. CASE reader # Null /\ reader' = [reader EXCEPT !.at = "lost"]
    <3>1. reader \in H!Reader
      BY <1>1, <2>2, ReaderTypes
    <3> QED BY <2>2, <3>1 DEF H!Reader
  <2> QED BY <2>1, <2>2
<1>3. H!TypeOK'
  BY <1>2 DEF H!TypeOK, RowsRight
<1>4. CASE reader' = reader /\ reader # Null /\ (reader.at = "open" => StaysIn(reader.actor, reader.list))
  <2>1. H!NothingTwice'
    BY <1>1, <1>4 DEF H!NothingTwice
  <2>2. ASSUME NEW x \in DOMAIN reader.start, reader.at # "lost" PROVE H!Toward(x)'
    <3>1. x \in H!Rows /\ H!Toward(x) /\ reader.start[x] \in Int /\ reader.list \in H!List
      BY <1>1, <1>4, <2>2, ReaderTypes DEF H!ReaderOnItsWay, H!Instant, H!Settings
    <3>2. H!Listed(x) /\ reader.start[x] <= H!Stamp(x)
      BY <3>1 DEF H!Toward
    <3>3. /\ H!Listed(x)' /\ H!Stamp(x) \in Int /\ H!Stamp(x)' \in Int /\ H!Stamp(x) <= H!Stamp(x)'
          /\ H!Stamp(x)' = H!Stamp(x) => H!Key(x)' = H!Key(x)
      BY <1>1, <1>3, <3>1, <3>2, KeysGrow
    <3>4. ASSUME H!Stamp(x)' = reader.start[x]
          PROVE  \/ x \in H!Range(reader.shown)
                 \/ /\ reader.at = "open" /\ x \in H!InList(reader.actor, reader.list)'
                    /\ H!Before(H!Key(x)', reader.cursor)
      <4>1. H!Stamp(x) = reader.start[x] /\ H!Stamp(x)' = H!Stamp(x)
        BY <3>1, <3>2, <3>3, <3>4
      <4>2. \/ x \in H!Range(reader.shown)
            \/ reader.at = "open" /\ x \in H!InList(reader.actor, reader.list) /\ H!Before(H!Key(x), reader.cursor)
        BY <3>1, <4>1 DEF H!Toward
      <4> QED BY <1>4, <3>1, <3>3, <4>1, <4>2 DEF StaysIn
    <3>5. reader.start[x] <= H!Stamp(x)'
      BY <3>1, <3>2, <3>3
    <3> QED BY <1>4, <3>3, <3>4, <3>5 DEF H!Toward
  <2>3. ASSUME reader.at = "open"
        PROVE  reader.cursor # Null /\ \A x \in H!Range(reader.shown) : H!Listed(x)' /\ ~H!Before(H!Key(x)', reader.cursor)
    BY <1>1, <1>3, <1>4, <2>3, ReaderTypes, KeysGrow DEF H!ReaderOnItsWay
  <2>4. H!ReaderOnItsWay'
    BY <1>4, <2>2, <2>3 DEF H!ReaderOnItsWay
  <2> QED BY <1>3, <2>1, <2>4, RowsAndReader DEF H!IInv, RowsRight
<1>5. CASE reader # Null /\ reader.at = "open" /\ reader' = [reader EXCEPT !.at = "lost"]
  <2>1. reader \in H!Reader
    BY <1>1, <1>5, ReaderTypes
  <2>2. reader'.at = "lost" /\ reader'.shown = reader.shown
    BY <1>5, <2>1 DEF H!Reader
  <2>3. H!NothingTwice'
    BY <1>1, <1>5, <2>2 DEF H!NothingTwice
  <2>4. H!ReaderOnItsWay'
    BY <2>2 DEF H!ReaderOnItsWay
  <2> QED BY <1>3, <2>3, <2>4 DEF H!IInv, RowsRight
<1>6. CASE reader' = reader /\ reader = Null
  BY <1>3, <1>6 DEF H!IInv, RowsRight, H!NothingTwice, H!ReaderOnItsWay
<1> QED BY <1>4, <1>5, <1>6

(* A page turned. *)
LEMMA TurnKeeps ==
  ASSUME H!Settings, H!TypeOK, RowsRight, UNCHANGED <<time, chat, asked>>,
         NEW r \in H!Reader, r.at = "open",
         NEW rows \in SUBSET H!InList(r.actor, r.list), H!Turn(r, rows),
         H!IsInjective(r.shown),
         \A x \in H!Range(r.shown) : H!Listed(x) /\ x \notin rows,
         \A x \in H!Range(r.shown) : \A y \in rows : ~H!Before(H!Key(x), H!Key(y)),
         \A x \in DOMAIN r.start :
           /\ H!Listed(x) /\ r.start[x] <= H!Stamp(x)
           /\ H!Stamp(x) = r.start[x] => x \in H!Range(r.shown) \/ (x \in rows /\ x \in H!InList(r.actor, r.list))
  PROVE  H!IInv'
<1> DEFINE page == H!PageOf(rows)
           more == H!HasMore(rows)
           cursor == H!CursorOf(rows)
<1>1. rows \subseteq H!Rows /\ \A x \in rows : H!Listed(x)
  <2>1. r.list \in H!List
    BY DEF H!Reader
  <2> QED BY <2>1, ListHas, RowTypes DEF HasIn, H!Rows, H!Listed, H!Exists, H!Recorded
<1>2. /\ page \in Seq(H!Rows) /\ H!Range(page) \subseteq rows /\ H!IsInjective(page)
      /\ ~more => cursor = Null /\ rows \subseteq H!Range(page)
      /\ more => /\ cursor \in {H!Key(x) : x \in rows}
                 /\ \A x \in H!Range(page) : ~H!Before(H!Key(x), cursor)
                 /\ \A x \in rows : x \in H!Range(page) \/ H!Before(H!Key(x), cursor)
  BY <1>1, Pages
<1>3. reader' = [r EXCEPT !.shown = r.shown \o page, !.cursor = cursor,
                           !.at = IF more THEN "open" ELSE "ended"]
  BY DEF H!Turn
<1> HIDE DEF page, more, cursor
<1>4. \A x \in rows : H!Key(x) \in H!Instant \X H!Rows
  BY <1>1, KeyOf
<1>5. r.shown \in Seq(H!Rows) /\ r.shown \o page \in Seq(H!Rows)
  BY <1>2 DEF H!Reader, H!Rows
<1>6. cursor \in (H!Instant \X H!Rows) \cup {Null} /\ (more => cursor \in H!Instant \X H!Rows)
  BY <1>2, <1>4
<1>7. /\ reader' \in H!Reader /\ reader'.actor = r.actor /\ reader'.list = r.list /\ reader'.start = r.start
      /\ reader'.shown = r.shown \o page /\ reader'.cursor = cursor
      /\ reader'.at = IF more THEN "open" ELSE "ended"
  BY <1>3, <1>5, <1>6 DEF H!Reader, H!Rows
<1>8. H!TypeOK' /\ RowsRight'
  BY <1>7 DEF H!TypeOK, RowsRight, H!RowsInTime, H!FollowUpsLater, H!OwnersAgree, H!Exists, H!Recorded
<1>9. \A x : /\ H!Listed(x)' = H!Listed(x) /\ H!Stamp(x)' = H!Stamp(x) /\ H!Key(x)' = H!Key(x)
  BY DEF H!Listed, H!Exists, H!Recorded, H!Stamp, H!Key
<1>10. H!Range(r.shown \o page) = H!Range(r.shown) \cup H!Range(page)
  <2>1. /\ Len(r.shown) \in Nat /\ Len(page) \in Nat /\ DOMAIN r.shown = 1 .. Len(r.shown) /\ DOMAIN page = 1 .. Len(page)
        /\ DOMAIN (r.shown \o page) = 1 .. Len(r.shown) + Len(page)
        /\ \A k \in 1 .. Len(r.shown) : (r.shown \o page)[k] = r.shown[k]
        /\ \A k \in 1 .. Len(page) : (r.shown \o page)[Len(r.shown) + k] = page[k]
    BY <1>2, <1>5
  <2>2. ASSUME NEW x \in H!Range(r.shown \o page) PROVE x \in H!Range(r.shown) \cup H!Range(page)
    <3>1. PICK k \in 1 .. Len(r.shown) + Len(page) : x = (r.shown \o page)[k]
      BY <2>1 DEF H!Range
    <3>2. CASE k <= Len(r.shown)
      BY <2>1, <3>1, <3>2 DEF H!Range
    <3>3. CASE k > Len(r.shown)
      <4>1. k - Len(r.shown) \in 1 .. Len(page) /\ x = page[k - Len(r.shown)]
        BY <1>2, <1>5, <2>1, <3>1, <3>3
      <4> QED BY <2>1, <4>1 DEF H!Range
    <3> QED BY <2>1, <3>2, <3>3
  <2>3. H!Range(r.shown) \subseteq H!Range(r.shown \o page)
    BY <2>1 DEF H!Range
  <2>4. H!Range(page) \subseteq H!Range(r.shown \o page)
    <3> SUFFICES ASSUME NEW k \in 1 .. Len(page) PROVE page[k] \in H!Range(r.shown \o page)
      BY <2>1 DEF H!Range
    <3>1. Len(r.shown) + k \in 1 .. Len(r.shown) + Len(page)
      BY <2>1
    <3> QED BY <2>1, <3>1 DEF H!Range
  <2> QED BY <2>2, <2>3, <2>4
<1>11. H!IsInjective(r.shown \o page)
  <2> SUFFICES ASSUME NEW i \in 1 .. Len(r.shown) + Len(page), NEW j \in 1 .. Len(r.shown) + Len(page),
                      (r.shown \o page)[i] = (r.shown \o page)[j]
               PROVE  i = j
    BY <1>2, <1>5 DEF H!IsInjective
  <2> DEFINE n == Len(r.shown)
  <2>1. n \in Nat /\ Len(page) \in Nat
    BY <1>2, <1>5
  <2>2. \A k \in 1 .. n + Len(page) : (r.shown \o page)[k] = IF k <= n THEN r.shown[k] ELSE page[k - n]
    BY <1>2, <1>5
  <2>3. /\ \A k \in 1 .. n : r.shown[k] \notin rows
        /\ \A k \in 1 .. Len(page) : page[k] \in rows
    BY <1>2, <1>5 DEF H!Range
  <2>4. /\ \A k, l \in 1 .. n : r.shown[k] = r.shown[l] => k = l
        /\ \A k, l \in 1 .. Len(page) : page[k] = page[l] => k = l
    BY <1>2, <1>5 DEF H!IsInjective
  <2> HIDE DEF n
  <2>5. CASE i <= n /\ j <= n
    <3>1. i \in 1 .. n /\ j \in 1 .. n /\ r.shown[i] = r.shown[j]
      BY <2>1, <2>2, <2>5
    <3> QED BY <2>4, <3>1
  <2>6. CASE i > n /\ j > n
    <3>1. i - n \in 1 .. Len(page) /\ j - n \in 1 .. Len(page) /\ page[i - n] = page[j - n]
      BY <2>1, <2>2, <2>6 DEF n
    <3> QED BY <2>1, <2>4, <3>1
  <2>7. CASE (i <= n /\ j > n) \/ (i > n /\ j <= n)
    <3>1. PICK k \in 1 .. n, l \in 1 .. Len(page) : r.shown[k] = page[l]
      BY <2>1, <2>2, <2>7 DEF n
    <3> QED BY <2>3, <3>1
  <2> QED BY <2>1, <2>5, <2>6, <2>7 DEF n
<1>12. H!NothingTwice'
  BY <1>7, <1>11 DEF H!NothingTwice
<1>13. \A x \in H!InList(r.actor, r.list) : x \in H!InList(reader.actor, reader.list)'
  <2>1. r.list \in H!List
    BY DEF H!Reader
  <2>2. \A x \in H!InList(r.actor, r.list) : HasIn(r.actor, r.list, x)
    BY <2>1, ListHas
  <2>3. \A x : HasIn(r.actor, r.list, x) => HasIn(reader.actor, reader.list, x)'
    BY <1>7 DEF HasIn
  <2>4. reader'.list \in H!List
    BY <1>7, <2>1
  <2>5. \A x : x \in H!InList(reader.actor, reader.list)' <=> HasIn(reader.actor, reader.list, x)'
    BY <1>7, <2>4, ListHas DEF HasIn
  <2> QED BY <2>2, <2>3, <2>5
<1>14. ASSUME NEW x \in DOMAIN r.start PROVE H!Toward(x)'
  <2>1. /\ H!Listed(x)' /\ reader'.start[x] <= H!Stamp(x)' /\ x \in DOMAIN reader'.start
        /\ H!Stamp(x) = r.start[x] => x \in H!Range(r.shown) \/ (x \in rows /\ x \in H!InList(r.actor, r.list))
    BY <1>7, <1>9
  <2>2. ASSUME H!Stamp(x)' = reader'.start[x]
        PROVE  \/ x \in H!Range(reader'.shown)
               \/ /\ reader'.at = "open" /\ x \in H!InList(reader.actor, reader.list)'
                  /\ H!Before(H!Key(x)', reader'.cursor)
    BY <1>2, <1>7, <1>9, <1>10, <1>13, <2>1, <2>2
  <2> QED BY <2>1, <2>2 DEF H!Toward
<1>15. ASSUME more, NEW x \in H!Range(r.shown \o page) PROVE H!Listed(x) /\ ~H!Before(H!Key(x), cursor)
  BY <1>1, <1>2, <1>4, <1>10, <1>15
<1>16. H!ReaderOnItsWay'
  <2>1. more => cursor # Null
    BY <1>6 DEF H!Settings, H!Rows
  <2>2. \A x \in DOMAIN reader'.start : H!Toward(x)'
    BY <1>7, <1>14
  <2>3. reader'.at = "open" => more
    BY <1>7
  <2>4. ASSUME more, NEW x \in H!Range(reader'.shown) PROVE H!Listed(x)' /\ ~H!Before(H!Key(x)', reader'.cursor)
    BY <1>7, <1>9, <1>15, <2>4
  <2> QED BY <1>7, <2>1, <2>2, <2>3, <2>4 DEF H!ReaderOnItsWay
<1> QED BY <1>8, <1>12, <1>16 DEF H!IInv, RowsRight

LEMMA ListedIn ==
  ASSUME H!Settings, RowsRight, NEW a, NEW list \in H!List, NEW x \in H!InList(a, list)
  PROVE  x \in H!Rows /\ H!Listed(x)
BY ListHas, RowTypes DEF HasIn, H!Rows, H!Listed, H!Exists, H!Recorded

LEMMA FirstPageKeeps ==
  ASSUME H!Settings, H!IInv, NEW a \in H!Actor, NEW list \in H!List, H!FirstPage(a, list)
  PROVE  H!IInv'
<1> DEFINE rows == H!InList(a, list)
           r == [actor |-> a, list |-> list, at |-> "open", shown |-> <<>>, cursor |-> Null,
                 start |-> [x \in rows |-> H!Stamp(x)]]
<1>1. H!TypeOK /\ RowsRight /\ H!Turn(r, rows) /\ UNCHANGED <<time, chat, asked>>
  BY RowsAndReader DEF H!FirstPage
<1>2. rows \subseteq H!Rows /\ \A x \in rows : H!Listed(x) /\ H!Stamp(x) \in H!Instant
  BY <1>1, ListedIn, KeyOf
<1>3. r \in H!Reader
  <2>1. [x \in rows |-> H!Stamp(x)] \in [rows -> H!Instant]
    BY <1>2
  <2> HIDE DEF rows
  <2>2. [x \in rows |-> H!Stamp(x)] \in UNION {[d -> H!Instant] : d \in SUBSET H!Rows}
    BY <1>2, <2>1
  <2>3. <<>> \in Seq(H!Rows)
    OBVIOUS
  <2> QED BY <2>2, <2>3 DEF H!Reader, H!Rows
<1>4. /\ r.at = "open" /\ r.actor = a /\ r.list = list /\ r.shown = <<>> /\ DOMAIN r.start = rows
      /\ \A x \in rows : r.start[x] = H!Stamp(x)
  OBVIOUS
<1> HIDE DEF r
<1>5. H!Range(r.shown) = {} /\ H!IsInjective(r.shown)
  BY <1>4 DEF H!Range, H!IsInjective
<1>6. \A x \in rows : H!Stamp(x) \in Int
  BY <1>2 DEF H!Instant, H!Settings
<1>7. \A x \in DOMAIN r.start :
        /\ H!Listed(x) /\ r.start[x] <= H!Stamp(x)
        /\ H!Stamp(x) = r.start[x] => x \in H!Range(r.shown) \/ (x \in rows /\ x \in H!InList(r.actor, r.list))
  BY <1>2, <1>4, <1>6
<1>8. rows \in SUBSET H!InList(r.actor, r.list)
  BY <1>4
<1> HIDE DEF rows
<1> QED BY <1>1, <1>3, <1>4, <1>5, <1>7, <1>8, TurnKeeps

LEMMA NextPageKeeps == ASSUME H!Settings, H!IInv, H!NextPage PROVE H!IInv'
<1> DEFINE rows == H!After(H!InList(reader.actor, reader.list), reader.cursor)
<1>1. /\ H!TypeOK /\ RowsRight /\ H!NothingTwice /\ H!ReaderOnItsWay
      /\ reader # Null /\ reader.at = "open" /\ H!Turn(reader, rows) /\ UNCHANGED <<time, chat, asked>>
  BY RowsAndReader DEF H!NextPage, H!IInv
<1>2. /\ reader \in H!Reader /\ reader.list \in H!List /\ H!Range(reader.shown) \subseteq H!Rows
      /\ reader.cursor \in H!Instant \X H!Rows
  BY <1>1, ReaderTypes DEF H!ReaderOnItsWay
<1>3. /\ rows \in SUBSET H!InList(reader.actor, reader.list)
      /\ \A x : x \in rows <=> x \in H!InList(reader.actor, reader.list) /\ H!Before(H!Key(x), reader.cursor)
  BY DEF H!After
<1>4. \A x \in rows : H!Key(x) \in H!Instant \X H!Rows
  BY <1>1, <1>2, <1>3, ListedIn, KeyOf
<1>5. \A x \in H!Range(reader.shown) : H!Listed(x) /\ ~H!Before(H!Key(x), reader.cursor) /\ H!Key(x) \in H!Instant \X H!Rows
  BY <1>1, <1>2, KeyOf DEF H!ReaderOnItsWay
<1> HIDE DEF rows
<1>6. \A x \in H!Range(reader.shown) : H!Listed(x) /\ x \notin rows
  BY <1>3, <1>5
<1>7. ASSUME NEW x \in H!Range(reader.shown), NEW y \in rows PROVE ~H!Before(H!Key(x), H!Key(y))
  <2>1. H!Before(H!Key(y), reader.cursor)
    BY <1>3
  <2> QED BY <1>2, <1>4, <1>5, <2>1, KeysOrdered
<1>8. \A x \in DOMAIN reader.start :
        /\ H!Listed(x) /\ reader.start[x] <= H!Stamp(x)
        /\ H!Stamp(x) = reader.start[x] =>
             x \in H!Range(reader.shown) \/ (x \in rows /\ x \in H!InList(reader.actor, reader.list))
  BY <1>1, <1>3 DEF H!ReaderOnItsWay, H!Toward
<1>9. H!IsInjective(reader.shown)
  BY <1>1 DEF H!NothingTwice
<1>10. PICK r : r = reader
  OBVIOUS
<1>11. r \in H!Reader /\ r.at = "open" /\ rows \in SUBSET H!InList(r.actor, r.list) /\ H!Turn(r, rows)
  BY <1>1, <1>2, <1>3, <1>10
<1>12. /\ H!IsInjective(r.shown)
       /\ \A x \in H!Range(r.shown) : H!Listed(x) /\ x \notin rows
       /\ \A x \in H!Range(r.shown) : \A y \in rows : ~H!Before(H!Key(x), H!Key(y))
       /\ \A x \in DOMAIN r.start :
           /\ H!Listed(x) /\ r.start[x] <= H!Stamp(x)
           /\ H!Stamp(x) = r.start[x] => x \in H!Range(r.shown) \/ (x \in rows /\ x \in H!InList(r.actor, r.list))
  BY <1>6, <1>7, <1>8, <1>9, <1>10
<1> QED BY <1>1, <1>11, <1>12, TurnKeeps

LEMMA ListsInit == ASSUME H!Settings, H!Init PROVE H!IInv
<1>1. /\ time = 0 /\ asked = [q \in Asked |-> Null] /\ reader = Null
      /\ chat = [c \in Chat |-> IF c \in Migrated THEN [owner |-> "user", updated |-> 0, archived |-> TRUE] ELSE Null]
  BY DEF H!Init
<1>2. 0 \in H!Instant /\ [owner |-> "user", updated |-> 0, archived |-> TRUE] \in H!ConvRow
  BY DEF H!Instant, H!ConvRow, H!Actor, H!Settings
<1>3. H!TypeOK
  BY <1>1, <1>2 DEF H!TypeOK
<1>4. \A c \in Chat : chat[c] # Null => chat[c].updated <= time
  BY <1>1
<1>5. \A q \in Asked : asked[q] = Null
  BY <1>1
<1> QED BY <1>1, <1>3, <1>4, <1>5 DEF H!IInv, H!RowsInTime, H!FollowUpsLater, H!OwnersAgree, H!NothingTwice, H!ReaderOnItsWay,
           H!Exists, H!Recorded

LEMMA ListsStep == ASSUME H!Settings, H!IInv, [H!Next]_(H!vars) PROVE H!IInv'
<1>0. H!TypeOK /\ RowsRight
  BY RowsAndReader
<1>1. reader # Null => reader.actor \in H!Actor /\ reader.list \in H!List
  BY <1>0, ReaderTypes
<1>2. ASSUME RowsRight', RowsMove, reader' = reader, \A b : \A list \in H!List : StaysIn(b, list) PROVE H!IInv'
  BY <1>1, <1>2, ReaderFollows
<1>3. CASE H!Tick
  BY <1>0, <1>2, <1>3, TickRows DEF H!Tick
<1>4. ASSUME NEW c \in Chat, NEW a \in H!Actor, H!Create(c, a) PROVE H!IInv'
  BY <1>0, <1>2, <1>4, CreateRows DEF H!Create
<1>5. ASSUME NEW c \in Chat, NEW a \in H!Actor, NEW renamed \in BOOLEAN, NEW archived \in BOOLEAN,
             H!Update(c, a, renamed, archived)
      PROVE  H!IInv'
  BY <1>0, <1>2, <1>5, UpdateRows DEF H!Update
<1>6. ASSUME NEW q \in Asked, NEW a \in H!Actor, NEW c \in Chat \cup {Null}, NEW p \in Asked \cup {Null}, H!Accept(q, a, c, p)
      PROVE  H!IInv'
  BY <1>0, <1>2, <1>6, AcceptRows DEF H!Accept
<1>7. ASSUME NEW q \in Asked, H!Record(q) PROVE H!IInv'
  BY <1>0, <1>2, <1>7, RecordRows DEF H!Record
<1>8. CASE H!Claim
  <2>1. RowsRight' /\ RowsMove /\ \A list \in H!List : StaysIn("user", list)
    BY <1>0, <1>8, ClaimRows
  <2>2. reader' = IF reader # Null /\ reader.actor = "guest" /\ reader.at = "open"
                  THEN [reader EXCEPT !.at = "lost"] ELSE reader
    BY <1>8 DEF H!Claim
  <2>3. CASE reader # Null /\ reader.actor = "guest" /\ reader.at = "open"
    BY <2>1, <2>2, <2>3, ReaderFollows
  <2>4. CASE ~(reader # Null /\ reader.actor = "guest" /\ reader.at = "open")
    <3>1. reader # Null /\ reader.at = "open" => reader.actor = "user" /\ reader.list \in H!List
      BY <1>1, <2>4 DEF H!Actor
    <3> QED BY <2>1, <2>2, <2>4, <3>1, ReaderFollows
  <2> QED BY <2>3, <2>4
<1>9. CASE UNCHANGED H!vars
  BY <1>9 DEF H!vars, H!IInv, H!TypeOK, H!RowsInTime, H!FollowUpsLater, H!OwnersAgree, H!NothingTwice, H!ReaderOnItsWay,
              H!Toward, H!InList, H!Owns, H!Kept, H!Recorded, H!Exists, H!Listed, H!Stamp, H!Key
<1> QED BY <1>3, <1>4, <1>5, <1>6, <1>7, <1>8, <1>9, FirstPageKeeps, NextPageKeeps DEF H!Next

LEMMA ListsFollow == ASSUME H!Settings, H!IInv PROVE ListsHold
<1>0. H!TypeOK /\ RowsRight
  BY RowsAndReader
<1>1. H!NothingSkipped
  <2> SUFFICES ASSUME reader # Null, reader.at = "ended", NEW x \in DOMAIN reader.start, H!Stamp(x) = reader.start[x]
               PROVE  x \in H!Range(reader.shown)
    BY DEF H!NothingSkipped
  <2>1. H!Toward(x)
    BY DEF H!IInv, H!ReaderOnItsWay
  <2> QED BY <2>1 DEF H!Toward
<1>2. \A q \in Asked : H!Recorded(q) /\ asked[q].parent # Null => H!Before(H!Key(asked[q].parent), H!Key(q))
  <2> SUFFICES ASSUME NEW q \in Asked, H!Recorded(q), asked[q].parent # Null
               PROVE  H!Before(H!Key(asked[q].parent), H!Key(q))
    OBVIOUS
  <2>1. asked[q].parent \in Asked /\ asked[asked[q].parent].created < asked[q].created
    BY <1>0, RowTypes DEF H!Recorded, RowsRight, H!FollowUpsLater
  <2>2. H!Stamp(q) = asked[q].created /\ H!Stamp(asked[q].parent) = asked[asked[q].parent].created
    BY <1>0, <2>1, RowTypes DEF H!Stamp
  <2> QED BY <2>1, <2>2 DEF H!Before, H!Key
<1>3. ASSUME NEW c \in Chat, H!Exists(c), H!Preview(c) # Null
      PROVE  /\ asked[H!Preview(c)].owner = chat[c].owner
             /\ \A q \in Asked : H!Recorded(q) => asked[q].parent # H!Preview(c)
  <2> DEFINE queries == {q \in Asked : H!Recorded(q) /\ asked[q].conv = c}
             p == H!Preview(c)
             n == Cardinality(queries)
  <2>1. p = IF queries = {} THEN Null ELSE H!NewestFirst(queries)[1]
    BY DEF H!Preview
  <2>2. queries \in SUBSET H!Rows /\ \A q \in queries : H!Listed(q)
    BY <1>0, RowTypes DEF H!Rows, H!Listed
  <2>3. queries # {}
    BY <1>3, <2>1
  <2>4. /\ n \in Nat /\ H!NewestFirst(queries) \in [1 .. n -> queries]
        /\ \A i, j \in 1 .. n : i < j => H!Before(H!Key(H!NewestFirst(queries)[j]), H!Key(H!NewestFirst(queries)[i]))
        /\ \A x \in queries : \E i \in 1 .. n : H!NewestFirst(queries)[i] = x
    BY <1>0, <2>2, Newest
  <2>5. p = H!NewestFirst(queries)[1]
    BY <2>1, <2>3
  <2>6. c # Null
    BY <1>0, RowTypes
  <2>7. \A q \in queries : q \in Asked /\ H!Recorded(q) /\ asked[q].conv = c /\ H!Key(q) \in H!Instant \X H!Rows
    BY <1>0, <2>2, KeyOf
  <2> HIDE DEF queries, p, n
  <2>8. 1 \in 1 .. n
    BY <2>3, <2>4
  <2>9. p \in queries /\ \A x \in queries : x = p \/ H!Before(H!Key(x), H!Key(p))
    <3> SUFFICES ASSUME NEW x \in queries PROVE x = p \/ H!Before(H!Key(x), H!Key(p))
      BY <2>4, <2>5, <2>8
    <3>1. PICK i \in 1 .. n : H!NewestFirst(queries)[i] = x
      BY <2>4
    <3>2. i = 1 \/ 1 < i
      BY <2>4
    <3> QED BY <2>4, <2>5, <2>8, <3>1, <3>2
  <2>10. asked[p].owner = chat[c].owner
    BY <1>0, <2>6, <2>7, <2>9 DEF RowsRight, H!OwnersAgree
  <2>11. ASSUME NEW q \in Asked, H!Recorded(q), asked[q].parent = p PROVE FALSE
    <3>1. p \in Asked /\ p # Null /\ asked[p].conv = c
      BY <1>0, <2>7, <2>9, RowTypes
    <3>2. asked[q].conv = c
      BY <1>0, <2>11, <3>1 DEF RowsRight, H!FollowUpsLater, H!Recorded
    <3>3. q \in queries /\ H!Before(H!Key(p), H!Key(q))
      BY <1>2, <2>11, <3>1, <3>2 DEF queries
    <3> QED BY <2>7, <2>9, <3>3, KeysOrdered
  <2> QED BY <2>10, <2>11 DEF p
<1> QED BY <1>1, <1>2, <1>3 DEF ListsHold, H!ParentsFirst, H!PreviewIsLast, H!IInv

(* Whoever pages through a list sees nothing twice and misses nothing that stays, and a  *)
(* query is listed after what it follows up and for its conversation's owner, for any     *)
(* conversations, any queries and any size of a page (api/v1/history.py,                  *)
(* conversations/service.py).                                                              *)
THEOREM ListsAreComplete == ASSUME H!Settings PROVE H!Spec => []ListsHold
<1>1. H!Init => H!IInv
  BY ListsInit
<1>2. H!IInv /\ [H!Next]_(H!vars) => H!IInv'
  BY ListsStep
<1>3. H!IInv => ListsHold
  BY ListsFollow
<1> QED BY <1>1, <1>2, <1>3, PTL DEF H!Spec

LEMMA SearchSizes == \A rows : R!Cardinality(rows) = Cardinality(rows) /\ (R!IsFiniteSet(rows) <=> IsFiniteSet(rows))
BY DEF R!Cardinality, Cardinality, R!IsFiniteSet, IsFiniteSet

(* A set of numbers has a least one. *)
LEMMA LeastNumber ==
  ASSUME NEW numbers \in SUBSET Nat, numbers # {}
  PROVE  R!Min(numbers) \in numbers /\ \A n \in numbers : R!Min(numbers) <= n
<1> DEFINE Less == OpToRel(<, Nat)
<1>1. IsWellFoundedOn(Less, Nat)
  BY NatLessThanWellFounded
<1> HIDE DEF Less
<1>2. PICK m \in numbers : \A n \in numbers : <<n, m>> \notin Less
  BY <1>1, WFMin
<1>3. ASSUME NEW n \in numbers PROVE m <= n
  <2>1. n \in Nat /\ m \in Nat
    OBVIOUS
  <2>2. n < m => <<n, m>> \in Less
    BY <2>1 DEF Less, OpToRel
  <2> QED BY <1>2, <2>1, <2>2
<1> QED BY <1>3 DEF R!Min

(* A sum of parts is a number. *)
LEMMA WorthsSum ==
  ASSUME NEW D, IsFiniteSet(D), NEW f \in [D -> Nat]
  PROVE  R!SumFunction(f) \in Nat
<1>1. R!SumFunction(f) = Table(f, D)[D]
  BY DEF R!SumFunction, R!SumFunctionOnSet, R!FoldFunctionOnSet, R!MapThenFoldSet, Table, Sums, One
<1>2. SumFunctionOnSet(f, D) = Table(f, D)[D]
  BY SumIsOne
<1> QED BY <1>1, <1>2, SumType

LEMMA RankOf ==
  ASSUME NEW Things, NEW list \in Seq(Things), NEW c
  PROVE  /\ R!RankIn(list, c) \in Nat
         /\ c \in R!Range(list) => R!RankIn(list, c) \in DOMAIN list /\ list[R!RankIn(list, c)] = c
         /\ c \in R!Range(list) <=> R!RankIn(list, c) > 0
<1>1. DOMAIN list = 1 .. Len(list) /\ Len(list) \in Nat
  OBVIOUS
<1>2. CASE c \in R!Range(list)
  <2>1. \E r \in DOMAIN list : list[r] = c
    BY <1>2 DEF R!Range
  <2>2. R!RankIn(list, c) \in DOMAIN list /\ list[R!RankIn(list, c)] = c
    BY <1>2, <2>1 DEF R!RankIn
  <2> QED BY <1>1, <1>2, <2>2
<1>3. CASE c \notin R!Range(list)
  BY <1>3 DEF R!RankIn
<1> QED BY <1>2, <1>3

(* A finite set in one order: each thing at the place that so many before it give. *)
LEMMA SortedOf ==
  ASSUME NEW All, IsFiniteSet(All), NEW Under, Ordered(All, Under)
  PROVE  LET list == R!Sorted(All, Under)
         IN  /\ list \in Seq(All) /\ Len(list) = Cardinality(All)
             /\ DOMAIN list = 1 .. Cardinality(All) /\ Cardinality(All) \in Nat
             /\ \A i \in DOMAIN list : Cardinality({d \in All : <<d, list[i]>> \in Under}) + 1 = i
             /\ \A c \in All : \E i \in DOMAIN list : list[i] = c
             /\ \A i, j \in DOMAIN list : <<list[i], list[j]>> \in Under <=> i < j
<1> DEFINE n == Cardinality(All)
           Ahead(c) == {d \in All : <<d, c>> \in Under}
           place == [c \in All |-> Cardinality(Ahead(c)) + 1]
           list == R!Sorted(All, Under)
<1>1. n \in Nat
  BY FS_CardinalityType
<1>2. \A c \in All : IsFiniteSet(Ahead(c)) /\ Cardinality(Ahead(c)) \in Nat /\ Cardinality(Ahead(c)) < n
  <2> SUFFICES ASSUME NEW c \in All PROVE IsFiniteSet(Ahead(c)) /\ Cardinality(Ahead(c)) \in Nat /\ Cardinality(Ahead(c)) < n
    OBVIOUS
  <2>1. Ahead(c) \subseteq All /\ c \notin Ahead(c)
    BY DEF Ordered
  <2>2. Ahead(c) # All
    BY <2>1
  <2> HIDE DEF Ahead
  <2>3. IsFiniteSet(Ahead(c)) /\ Cardinality(Ahead(c)) <= n /\ (Cardinality(Ahead(c)) = n => Ahead(c) = All)
    BY <2>1, FS_Subset
  <2>4. Cardinality(Ahead(c)) \in Nat
    BY <2>3, FS_CardinalityType
  <2> QED BY <1>1, <2>2, <2>3, <2>4
<1>3. ASSUME NEW c \in All, NEW d \in All, <<c, d>> \in Under
      PROVE  Cardinality(Ahead(c)) < Cardinality(Ahead(d))
  <2>1. Ahead(c) \subseteq Ahead(d) /\ c \in Ahead(d) /\ c \notin Ahead(c)
    BY <1>3 DEF Ordered
  <2>2. IsFiniteSet(Ahead(d)) /\ Cardinality(Ahead(d)) \in Nat /\ Cardinality(Ahead(c)) \in Nat
    BY <1>2
  <2> HIDE DEF Ahead
  <2>3. Cardinality(Ahead(c)) <= Cardinality(Ahead(d)) /\ (Cardinality(Ahead(c)) = Cardinality(Ahead(d)) => Ahead(c) = Ahead(d))
    BY <2>1, <2>2, FS_Subset
  <2> QED BY <2>1, <2>2, <2>3
<1>4. place \in [All -> 1 .. n]
  <2> HIDE DEF Ahead
  <2>1. \A c \in All : Cardinality(Ahead(c)) + 1 \in 1 .. n
    BY <1>1, <1>2
  <2> QED BY <2>1
<1>5. ASSUME NEW c \in All, NEW d \in All
      PROVE  /\ <<c, d>> \in Under => place[c] < place[d]
             /\ place[c] < place[d] => <<c, d>> \in Under
             /\ place[c] = place[d] => c = d
  <2>1. c = d \/ <<c, d>> \in Under \/ <<d, c>> \in Under
    BY DEF Ordered
  <2>2. Cardinality(Ahead(c)) \in Nat /\ Cardinality(Ahead(d)) \in Nat
    BY <1>2
  <2>3. place[c] = Cardinality(Ahead(c)) + 1 /\ place[d] = Cardinality(Ahead(d)) + 1
    OBVIOUS
  <2>4. /\ <<c, d>> \in Under => Cardinality(Ahead(c)) < Cardinality(Ahead(d))
        /\ <<d, c>> \in Under => Cardinality(Ahead(d)) < Cardinality(Ahead(c))
    BY <1>3
  <2> HIDE DEF Ahead, place
  <2> QED BY <2>1, <2>2, <2>3, <2>4
<1>6. \A i \in 1 .. n : \E c \in All : place[c] = i
  <2> HIDE DEF place
  <2>1. place \in Injection(All, 1 .. n)
    BY <1>4, <1>5 DEF Injection, IsInjective
  <2>2. IsFiniteSet(1 .. n) /\ Cardinality(1 .. n) = n
    BY <1>1, FS_Interval
  <2>3. place \in Surjection(All, 1 .. n)
    BY <2>1, <2>2, FS_Injection
  <2> QED BY <2>3 DEF Surjection
<1>7. ASSUME NEW i \in 1 .. n
      PROVE  LET x == CHOOSE c \in All : R!Cardinality({d \in All : <<d, c>> \in Under}) = i - 1
             IN  x \in All /\ Cardinality(Ahead(x)) + 1 = i
  <2> DEFINE x == CHOOSE c \in All : R!Cardinality({d \in All : <<d, c>> \in Under}) = i - 1
  <2>1. PICK c \in All : Cardinality(Ahead(c)) + 1 = i
    BY <1>6
  <2>2. R!Cardinality(Ahead(c)) = i - 1
    <3> HIDE DEF Ahead
    <3>1. Cardinality(Ahead(c)) \in Nat
      BY <1>2
    <3> QED BY <2>1, <3>1, SearchSizes
  <2>3. \E d \in All : R!Cardinality({e \in All : <<e, d>> \in Under}) = i - 1
    BY <2>2
  <2>4. x \in All /\ R!Cardinality({e \in All : <<e, x>> \in Under}) = i - 1
    BY <2>3
  <2>5. R!Cardinality(Ahead(x)) = i - 1
    BY <2>4
  <2> HIDE DEF x, Ahead
  <2>6. Cardinality(Ahead(x)) = i - 1 /\ Cardinality(Ahead(x)) \in Nat
    BY <1>2, <2>4, <2>5, SearchSizes
  <2>7. x \in All /\ Cardinality(Ahead(x)) + 1 = i
    BY <1>1, <2>4, <2>6
  <2> QED BY <2>7 DEF x
<1>8. R!Cardinality(All) = n
  BY SearchSizes
<1> HIDE DEF n
<1>9. list = [i \in 1 .. n |-> CHOOSE c \in All : R!Cardinality({d \in All : <<d, c>> \in Under}) = i - 1]
  BY <1>8 DEF R!Sorted
<1>10. \A i \in 1 .. n : list[i] \in All /\ place[list[i]] = i /\ Cardinality(Ahead(list[i])) + 1 = i
  <2> SUFFICES ASSUME NEW i \in 1 .. n PROVE list[i] \in All /\ place[list[i]] = i /\ Cardinality(Ahead(list[i])) + 1 = i
    OBVIOUS
  <2>1. list[i] = CHOOSE c \in All : R!Cardinality({d \in All : <<d, c>> \in Under}) = i - 1
    BY <1>9
  <2> HIDE DEF list
  <2>2. list[i] \in All /\ Cardinality(Ahead(list[i])) + 1 = i
    BY <1>7, <2>1
  <2> QED BY <2>2
<1>11. list \in [1 .. n -> All]
  <2> HIDE DEF Ahead, place
  <2> QED BY <1>9, <1>10
<1>12. list \in Seq(All) /\ Len(list) = n /\ DOMAIN list = 1 .. n
  <2> HIDE DEF list
  <2> QED BY <1>1, <1>11, SeqDef
<1>13. ASSUME NEW i \in 1 .. n, NEW j \in 1 .. n PROVE <<list[i], list[j]>> \in Under <=> i < j
  <2> HIDE DEF place, list
  <2>1. list[i] \in All /\ list[j] \in All /\ place[list[i]] = i /\ place[list[j]] = j
    BY <1>10
  <2>2. /\ <<list[i], list[j]>> \in Under => place[list[i]] < place[list[j]]
        /\ place[list[i]] < place[list[j]] => <<list[i], list[j]>> \in Under
    BY <1>5, <2>1
  <2> QED BY <2>1, <2>2
<1>14. \A c \in All : \E i \in 1 .. n : list[i] = c
  <2> SUFFICES ASSUME NEW c \in All PROVE \E i \in 1 .. n : list[i] = c
    OBVIOUS
  <2> HIDE DEF place, list
  <2>1. place[c] \in 1 .. n
    BY <1>4
  <2> QED BY <1>5, <1>10, <2>1
<1> QED BY <1>1, <1>10, <1>12, <1>13, <1>14 DEF n
(* A list that is cut is the list up to there. *)
LEMMA CutOf ==
  ASSUME NEW Things, NEW list \in Seq(Things), NEW n \in Nat
  PROVE  LET cut == R!UpTo(list, n)
         IN  /\ cut \in Seq(Things)
             /\ \A i : i \in DOMAIN cut <=> i \in DOMAIN list /\ i <= n
             /\ \A i \in DOMAIN cut : cut[i] = list[i]
<1>1. {n, Len(list)} \subseteq Nat
  OBVIOUS
<1> DEFINE m == R!Min({n, Len(list)})
           cut == R!UpTo(list, n)
<1>2. m \in {n, Len(list)} /\ m <= Len(list) /\ m <= n
  BY <1>1, LeastNumber
<1>3. m \in Nat /\ m <= Len(list) /\ m <= n /\ (m = n \/ m = Len(list))
  BY <1>1, <1>2
<1>4. cut = SubSeq(list, 1, m)
  BY DEF R!UpTo
<1> HIDE DEF m, cut
<1>5. cut \in Seq(Things) /\ Len(cut) = m /\ \A i \in 1 .. m : cut[i] = list[i]
  BY <1>3, <1>4
<1>6. DOMAIN cut = 1 .. m /\ DOMAIN list = 1 .. Len(list) /\ Len(list) \in Nat
  BY <1>5
<1>7. \A i : i \in DOMAIN cut <=> i \in DOMAIN list /\ i <= n
  <2> DEFINE k == Len(list)
  <2>1. k \in Nat /\ m \in Nat /\ m <= k /\ m <= n /\ (m = n \/ m = k)
    BY <1>3, <1>6
  <2> HIDE DEF k
  <2>2. \A i : i \in 1 .. m <=> i \in 1 .. k /\ i <= n
    BY <2>1
  <2> QED BY <1>6, <2>2 DEF k
<1> QED BY <1>5, <1>6, <1>7 DEF cut

LEMMA Places ==
  ASSUME NEW Things, NEW list \in Seq(Things)
  PROVE  IsFiniteSet(DOMAIN list) /\ DOMAIN list \subseteq Nat
<1> DEFINE n == Len(list)
<1>1. DOMAIN list = 1 .. n /\ n \in Nat
  OBVIOUS
<1> HIDE DEF n
<1>2. IsFiniteSet(1 .. n)
  BY <1>1, FS_Interval
<1> QED BY <1>1, <1>2

(* What lists have, and where. *)
LEMMA ListsHave ==
  ASSUME NEW Things, IsFiniteSet(Things), NEW rankings \in Seq(Seq(Things))
  PROVE  /\ R!Anywhere(rankings) \subseteq Things /\ IsFiniteSet(R!Anywhere(rankings))
         /\ IsFiniteSet(DOMAIN rankings) /\ DOMAIN rankings \subseteq Nat
         /\ \A c \in R!Anywhere(rankings) : R!Having(rankings, c) # {}
         /\ \A c : /\ R!Having(rankings, c) \subseteq DOMAIN rankings
                   /\ \A l \in R!Having(rankings, c) : c \in R!Range(rankings[l])
<1>1. DOMAIN rankings = 1 .. Len(rankings) /\ Len(rankings) \in Nat
  OBVIOUS
<1>2. \A l \in DOMAIN rankings : R!Range(rankings[l]) \subseteq Things
  BY DEF R!Range
<1>3. R!Anywhere(rankings) \subseteq Things
  BY <1>2 DEF R!Anywhere
<1>4. IsFiniteSet(R!Anywhere(rankings))
  BY <1>3, FS_Subset
<1>5. IsFiniteSet(DOMAIN rankings) /\ DOMAIN rankings \subseteq Nat
  BY Places
<1> QED BY <1>3, <1>4, <1>5 DEF R!Having, R!Anywhere

(* Where a passage was found first. *)
LEMMA FoundAt ==
  ASSUME NEW Things, IsFiniteSet(Things), NEW rankings \in Seq(Seq(Things)), NEW c \in R!Anywhere(rankings)
  PROVE  LET l == R!FoundFirst(rankings, c)
             r == R!RankIn(rankings[l], c)
         IN  l \in DOMAIN rankings /\ l \in Nat /\ r \in Nat /\ r \in DOMAIN rankings[l] /\ rankings[l][r] = c
<1> DEFINE l == R!FoundFirst(rankings, c)
<1>1. R!Having(rankings, c) \subseteq Nat /\ R!Having(rankings, c) # {}
  BY ListsHave
<1>2. l \in R!Having(rankings, c)
  BY <1>1, LeastNumber DEF R!FoundFirst
<1>3. l \in DOMAIN rankings /\ l \in Nat /\ c \in R!Range(rankings[l])
  BY <1>1, <1>2, ListsHave
<1> HIDE DEF l
<1>4. rankings[l] \in Seq(Things)
  BY <1>3
<1> QED BY <1>3, <1>4, RankOf DEF l

LEMMA Quotient == ASSUME NEW a \in Nat, NEW d \in Nat, d > 0 PROVE a \div d \in Nat
OBVIOUS

LEMMA FusedIs ==
  ASSUME R!Scaled, NEW Things, NEW rankings \in Seq(Seq(Things)), NEW c
  PROVE  R!Fused(rankings, c) \in Nat
<1> DEFINE f == [l \in DOMAIN rankings |-> R!Worth(R!RankIn(rankings[l], c))]
<1>1. ASSUME NEW l \in DOMAIN rankings PROVE R!Worth(R!RankIn(rankings[l], c)) \in Nat
  <2>1. R!RankIn(rankings[l], c) \in Nat
    BY RankOf
  <2>2. ASSUME NEW r \in Nat, r # 0 PROVE Scale \div (K + r) \in Nat
    <3>1. K + r \in Nat /\ K + r > 0 /\ Scale \in Nat
      BY <2>2 DEF R!Scaled
    <3> QED BY <3>1, Quotient
  <2> QED BY <2>1, <2>2 DEF R!Worth
<1>2. IsFiniteSet(DOMAIN rankings)
  BY Places
<1>3. f \in [DOMAIN rankings -> Nat]
  BY <1>1
<1> HIDE DEF f
<1>4. R!SumFunction(f) \in Nat
  BY <1>2, <1>3, WorthsSum
<1> QED BY <1>4 DEF R!Fused, f

AboveOf(rankings) ==
  {p \in R!Anywhere(rankings) \X R!Anywhere(rankings) : R!Above(rankings, p[1], p[2])}

LEMMA AboveInOrder ==
  ASSUME R!Scaled, NEW Things, IsFiniteSet(Things), NEW rankings \in Seq(Seq(Things))
  PROVE  IsFiniteSet(R!Anywhere(rankings)) /\ Ordered(R!Anywhere(rankings), AboveOf(rankings))
<1> DEFINE All == R!Anywhere(rankings)
           Under == AboveOf(rankings)
           score(c) == R!Fused(rankings, c)
           first(c) == R!FoundFirst(rankings, c)
           rank(c) == R!RankIn(rankings[first(c)], c)
<1>1. \A c \in All : /\ score(c) \in Nat /\ first(c) \in Nat /\ rank(c) \in Nat
                     /\ rankings[first(c)][rank(c)] = c
  BY FusedIs, FoundAt
<1>2. \A c, d \in All : <<c, d>> \in Under <=>
        \/ score(c) > score(d)
        \/ score(c) = score(d) /\ (first(c) < first(d) \/ (first(c) = first(d) /\ rank(c) < rank(d)))
  BY DEF R!Above, AboveOf
<1>3. IsFiniteSet(All)
  BY ListsHave
<1> HIDE DEF score, first, rank, Under, All
<1>4. Ordered(All, Under)
  <2>1. ASSUME NEW x \in All, NEW y \in All, x # y PROVE <<x, y>> \in Under \/ <<y, x>> \in Under
    <3>1. ~(first(x) = first(y) /\ rank(x) = rank(y))
      BY <1>1, <2>1
    <3> QED BY <1>1, <1>2, <3>1
  <2>2. \A x, y \in All : <<x, y>> \in Under => <<y, x>> \notin Under
    BY <1>1, <1>2
  <2>3. ASSUME NEW x \in All, NEW y \in All, NEW z \in All, <<x, y>> \in Under, <<y, z>> \in Under
        PROVE  <<x, z>> \in Under
    <3> DEFINE a == score(x)  b == score(y)  c == score(z)
    <3>0. (a > b \/ a = b) /\ (b > c \/ b = c)
      BY <1>2, <2>3
    <3>1. a \in Nat /\ b \in Nat /\ c \in Nat /\ a >= b /\ b >= c
      <4>1. a \in Nat /\ b \in Nat /\ c \in Nat
        BY <1>1
      <4> HIDE DEF a, b, c
      <4> QED BY <3>0, <4>1
    <3>2. CASE a > b \/ b > c
      BY <1>2, <3>1, <3>2
    <3>3. CASE a = b /\ b = c
      <4>1. /\ first(x) < first(y) \/ (first(x) = first(y) /\ rank(x) < rank(y))
            /\ first(y) < first(z) \/ (first(y) = first(z) /\ rank(y) < rank(z))
        BY <1>2, <2>3, <3>1, <3>3
      <4>2. first(x) < first(z) \/ (first(x) = first(z) /\ rank(x) < rank(z))
        BY <1>1, <4>1
      <4> QED BY <1>2, <3>3, <4>2
    <3> QED BY <3>1, <3>2, <3>3
  <2> QED BY <2>1, <2>2, <2>3 DEF Ordered
<1> QED BY <1>3, <1>4 DEF All, Under

(* The fusion of some lists is of what they have. *)
LEMMA FusionOf ==
  ASSUME R!Scaled, NEW Things, IsFiniteSet(Things), NEW rankings \in Seq(Seq(Things))
  PROVE  R!Fusion(rankings) \in Seq(R!Anywhere(rankings))
<1>1. R!Fusion(rankings) = R!Sorted(R!Anywhere(rankings), AboveOf(rankings))
  BY DEF R!Fusion, AboveOf
<1> QED BY <1>1, AboveInOrder, SortedOf

(* The best rank of a passage, and who gave it. *)
LEMMA HeardAt ==
  ASSUME NEW Things, IsFiniteSet(Things), NEW rankings \in Seq(Seq(Things)), NEW c \in R!Anywhere(rankings)
  PROVE  LET g == R!HeardFrom(rankings, c)
             r == R!BestRank(rankings, c)
         IN  /\ g \in Nat /\ g \in DOMAIN rankings /\ r \in Nat /\ r \in DOMAIN rankings[g] /\ rankings[g][r] = c
             /\ \A h \in R!Having(rankings, c) : r <= R!RankIn(rankings[h], c)
<1> DEFINE Ranks == {R!RankIn(rankings[h], c) : h \in R!Having(rankings, c)}
           From == {h \in R!Having(rankings, c) : R!RankIn(rankings[h], c) = R!BestRank(rankings, c)}
<1>1. /\ R!Having(rankings, c) \subseteq Nat /\ R!Having(rankings, c) # {} /\ R!Having(rankings, c) \subseteq DOMAIN rankings
      /\ \A h \in R!Having(rankings, c) : c \in R!Range(rankings[h])
  BY ListsHave
<1>2. ASSUME NEW h \in R!Having(rankings, c)
      PROVE  /\ R!RankIn(rankings[h], c) \in Nat /\ R!RankIn(rankings[h], c) \in DOMAIN rankings[h]
             /\ rankings[h][R!RankIn(rankings[h], c)] = c
  <2>1. rankings[h] \in Seq(Things) /\ c \in R!Range(rankings[h])
    BY <1>1
  <2> QED BY <2>1, RankOf
<1>3. Ranks \subseteq Nat /\ Ranks # {}
  BY <1>1, <1>2
<1>4. R!BestRank(rankings, c) \in Ranks /\ \A r \in Ranks : R!BestRank(rankings, c) <= r
  <2> HIDE DEF Ranks
  <2>1. R!Min(Ranks) \in Ranks /\ \A r \in Ranks : R!Min(Ranks) <= r
    BY <1>3, LeastNumber
  <2> QED BY <2>1 DEF Ranks, R!BestRank
<1>5. From \subseteq Nat /\ From # {}
  BY <1>1, <1>4
<1>6. R!HeardFrom(rankings, c) \in From
  <2> HIDE DEF From
  <2>1. R!Min(From) \in From
    BY <1>5, LeastNumber
  <2> QED BY <2>1 DEF From, R!HeardFrom
<1> QED BY <1>1, <1>2, <1>3, <1>4, <1>6

SoonerOf(rankings) ==
  {p \in R!Anywhere(rankings) \X R!Anywhere(rankings) : R!Sooner(rankings, p[1], p[2])}

(* Who was heard sooner is one order, and so is who scores more. *)
LEMMA SoonerInOrder ==
  ASSUME NEW Things, IsFiniteSet(Things), NEW rankings \in Seq(Seq(Things))
  PROVE  IsFiniteSet(R!Anywhere(rankings)) /\ Ordered(R!Anywhere(rankings), SoonerOf(rankings))
<1> DEFINE All == R!Anywhere(rankings)
           Under == SoonerOf(rankings)
           from(c) == R!HeardFrom(rankings, c)
           rank(c) == R!BestRank(rankings, c)
<1>1. \A c \in All : from(c) \in Nat /\ rank(c) \in Nat /\ rankings[from(c)][rank(c)] = c
  BY HeardAt
<1>2. \A c, d \in All : <<c, d>> \in Under <=>
        rank(c) < rank(d) \/ (rank(c) = rank(d) /\ from(c) < from(d))
  BY DEF R!Sooner, SoonerOf
<1>3. IsFiniteSet(All)
  BY ListsHave
<1> HIDE DEF from, rank, Under, All
<1>4. ASSUME NEW x \in All, NEW y \in All, x # y PROVE <<x, y>> \in Under \/ <<y, x>> \in Under
  <2>1. ~(from(x) = from(y) /\ rank(x) = rank(y))
    BY <1>1, <1>4
  <2> QED BY <1>1, <1>2, <2>1
<1>5. \A x, y \in All : <<x, y>> \in Under => <<y, x>> \notin Under
  BY <1>1, <1>2
<1>6. \A x, y, z \in All : <<x, y>> \in Under /\ <<y, z>> \in Under => <<x, z>> \in Under
  BY <1>1, <1>2
<1>7. Ordered(All, Under)
  BY <1>4, <1>5, <1>6 DEF Ordered
<1> QED BY <1>3, <1>7 DEF All, Under

LEMMA RoundsOf ==
  ASSUME NEW Things, IsFiniteSet(Things), NEW rankings \in Seq(Seq(Things)), NEW n \in Nat
  PROVE  R!RoundRobin(rankings, n) \in Seq(R!Anywhere(rankings))
<1> DEFINE list == R!Sorted(R!Anywhere(rankings), SoonerOf(rankings))
<1>1. list \in Seq(R!Anywhere(rankings))
  BY SoonerInOrder, SortedOf
<1>2. R!RoundRobin(rankings, n) = R!UpTo(list, n)
  BY DEF R!RoundRobin, SoonerOf
<1> HIDE DEF list
<1> QED BY <1>1, <1>2, CutOf

(* What is told apart by where it stands is counted by the places. *)
LEMMA CountOf ==
  ASSUME NEW places, NEW f, NEW items, IsFiniteSet(items),
         \A i \in places : f[i] \in items,
         \A i, j \in places : f[i] = f[j] => i = j
  PROVE  /\ IsFiniteSet(places) /\ Cardinality(places) \in Nat /\ Cardinality(places) <= Cardinality(items)
         /\ (\A x \in items : \E i \in places : f[i] = x) => Cardinality(places) = Cardinality(items)
<1> DEFINE g == [i \in places |-> f[i]]
<1>1. g \in Injection(places, items)
  BY DEF Injection, IsInjective
<1>2. /\ IsFiniteSet(places) /\ Cardinality(places) <= Cardinality(items)
      /\ Cardinality(places) = Cardinality(items) <=> g \in Surjection(places, items)
  <2> HIDE DEF g
  <2> QED BY <1>1, FS_Injection
<1>3. (\A x \in items : \E i \in places : f[i] = x) => g \in Surjection(places, items)
  BY DEF Surjection
<1> QED BY <1>2, <1>3, FS_CardinalityType

(* A list that says nothing twice gives each thing one rank. *)
LEMMA RankAt ==
  ASSUME NEW Things, NEW list \in Seq(Things), R!Distinct(list), NEW r \in DOMAIN list
  PROVE  list[r] \in R!Range(list) /\ R!RankIn(list, list[r]) = r
<1>1. list[r] \in R!Range(list)
  BY DEF R!Range
<1>2. R!RankIn(list, list[r]) \in DOMAIN list /\ list[R!RankIn(list, list[r])] = list[r]
  BY <1>1, RankOf
<1>3. \A a, b \in DOMAIN list : list[a] = list[b] => a = b
  BY DEF R!Distinct, R!IsInjective
<1> QED BY <1>1, <1>2, <1>3

(* What comes as early as there is room for is kept, and so is what comes before it. *)
LEMMA CutKeeps ==
  ASSUME NEW All, IsFiniteSet(All), NEW Under, Ordered(All, Under), NEW n \in Nat
  PROVE  LET kept == R!UpTo(R!Sorted(All, Under), n)
         IN  /\ R!Distinct(kept) /\ R!Range(kept) \subseteq All
             /\ \A c \in All : Cardinality({d \in All : <<d, c>> \in Under}) < n => c \in R!Range(kept)
             /\ \A c, d \in All : c \in R!Range(kept) /\ <<d, c>> \in Under => d \in R!Range(kept)
<1> DEFINE list == R!Sorted(All, Under)
           kept == R!UpTo(list, n)
           Ahead(c) == {d \in All : <<d, c>> \in Under}
<1>1. /\ list \in Seq(All)
      /\ DOMAIN list = 1 .. Cardinality(All) /\ Cardinality(All) \in Nat
      /\ \A i \in DOMAIN list : Cardinality(Ahead(list[i])) + 1 = i
      /\ \A c \in All : \E i \in DOMAIN list : list[i] = c
      /\ \A i, j \in DOMAIN list : <<list[i], list[j]>> \in Under <=> i < j
  BY SortedOf
<1> HIDE DEF list
<1>2. /\ \A i : i \in DOMAIN kept <=> i \in DOMAIN list /\ i <= n
      /\ \A i \in DOMAIN kept : kept[i] = list[i]
  BY <1>1, CutOf
<1> HIDE DEF kept
<1>3. \A i \in DOMAIN list : i \in Nat /\ list[i] \in All
  BY <1>1
<1>4. R!Range(kept) = {list[i] : i \in {k \in DOMAIN list : k <= n}}
  BY <1>2 DEF R!Range
<1>5. R!Distinct(kept)
  <2> SUFFICES ASSUME NEW i \in DOMAIN kept, NEW j \in DOMAIN kept, i # j PROVE kept[i] # kept[j]
    BY DEF R!Distinct, R!IsInjective
  <2>1. i < j \/ j < i
    BY <1>2, <1>3
  <2>2. <<list[i], list[j]>> \in Under \/ <<list[j], list[i]>> \in Under
    BY <1>1, <1>2, <2>1
  <2>3. list[i] # list[j]
    BY <1>2, <1>3, <2>2 DEF Ordered
  <2> QED BY <1>2, <2>3
<1>6. R!Range(kept) \subseteq All
  BY <1>3, <1>4
<1>7. ASSUME NEW c \in All, Cardinality(Ahead(c)) < n PROVE c \in R!Range(kept)
  <2>1. PICK i \in DOMAIN list : list[i] = c
    BY <1>1
  <2>2. Cardinality(Ahead(c)) + 1 = i
    BY <1>1, <2>1
  <2> HIDE DEF Ahead
  <2>3. IsFiniteSet(Ahead(c))
    BY FS_Subset DEF Ahead
  <2>4. Cardinality(Ahead(c)) \in Nat
    BY <2>3, FS_CardinalityType
  <2>5. i <= n
    BY <1>7, <2>2, <2>4
  <2> QED BY <1>4, <2>1, <2>5
<1>8. ASSUME NEW c \in All, NEW d \in All, c \in R!Range(kept), <<d, c>> \in Under PROVE d \in R!Range(kept)
  <2>1. PICK i \in DOMAIN list : list[i] = c /\ i <= n
    BY <1>4, <1>8
  <2>2. PICK j \in DOMAIN list : list[j] = d
    BY <1>1
  <2>3. j < i
    BY <1>1, <1>8, <2>1, <2>2
  <2>4. j <= n
    BY <1>3, <2>1, <2>3
  <2> QED BY <1>4, <2>2, <2>4
<1> QED BY <1>5, <1>6, <1>7, <1>8 DEF kept, list

(* With room for each list its first comes in: only the firsts of other lists are sooner. *)
LEMMA EveryoneHeard ==
  ASSUME Returned \in Nat, NEW Things, IsFiniteSet(Things), NEW rankings \in Seq(Seq(Things)),
         \A g \in DOMAIN rankings : R!Distinct(rankings[g])
  PROVE  R!EveryQueryHeard(rankings)
<1> DEFINE All == R!Anywhere(rankings)
           Under == SoonerOf(rankings)
           kept == R!RoundRobin(rankings, Returned)
           from(c) == R!HeardFrom(rankings, c)
           rank(c) == R!BestRank(rankings, c)
           Ahead(c) == {d \in All : <<d, c>> \in Under}
<1>1. IsFiniteSet(All) /\ Ordered(All, Under)
  BY SoonerInOrder
<1>2. kept = R!UpTo(R!Sorted(All, Under), Returned)
  BY DEF R!RoundRobin, SoonerOf
<1>3. /\ R!Distinct(kept) /\ R!Range(kept) \subseteq All
      /\ \A c \in All : Cardinality(Ahead(c)) < Returned => c \in R!Range(kept)
      /\ \A c, d \in All : c \in R!Range(kept) /\ <<d, c>> \in Under => d \in R!Range(kept)
  <2> HIDE DEF All, Under, kept
  <2> QED BY <1>1, <1>2, CutKeeps
<1>4. \A c \in All : /\ from(c) \in Nat /\ from(c) \in DOMAIN rankings /\ rank(c) \in Nat
                     /\ rank(c) \in DOMAIN rankings[from(c)] /\ rankings[from(c)][rank(c)] = c
                     /\ \A h \in R!Having(rankings, c) : rank(c) <= R!RankIn(rankings[h], c)
  BY HeardAt
<1>5. \A c, d \in All : <<c, d>> \in Under <=>
        rank(c) < rank(d) \/ (rank(c) = rank(d) /\ from(c) < from(d))
  BY DEF R!Sooner, SoonerOf
<1>6. ASSUME NEW g \in DOMAIN rankings, NEW r \in DOMAIN rankings[g]
      PROVE  rankings[g][r] \in All /\ rank(rankings[g][r]) <= r
  <2>1. rankings[g] \in Seq(Things) /\ R!Distinct(rankings[g])
    OBVIOUS
  <2>2. rankings[g][r] \in R!Range(rankings[g]) /\ R!RankIn(rankings[g], rankings[g][r]) = r
    BY <2>1, RankAt
  <2>3. rankings[g][r] \in All /\ g \in R!Having(rankings, rankings[g][r])
    BY <2>2 DEF R!Anywhere, R!Having
  <2> HIDE DEF All, rank
  <2> QED BY <1>4, <2>2, <2>3
<1>7. \A g \in DOMAIN rankings : DOMAIN rankings[g] = 1 .. Len(rankings[g]) /\ Len(rankings[g]) \in Nat
  <2>1. \A g \in DOMAIN rankings : rankings[g] \in Seq(Things)
    OBVIOUS
  <2> QED BY <2>1
<1>8. DOMAIN rankings = 1 .. Len(rankings) /\ Len(rankings) \in Nat
  OBVIOUS
<1> HIDE DEF All, Under, kept, from, rank
<1>9. ASSUME Len(rankings) <= Returned, NEW g \in DOMAIN rankings, rankings[g] # <<>>
      PROVE  rankings[g][1] \in R!Range(kept)
  <2> DEFINE c == rankings[g][1]
  <2>1. rankings[g] \in Seq(Things) /\ 1 \in DOMAIN rankings[g]
    BY <1>9
  <2>2. c \in All /\ rank(c) <= 1
    BY <1>6, <2>1
  <2> HIDE DEF c
  <2>3. \A d \in All : rank(d) >= 1 /\ rank(d) \in Nat
    BY <1>4, <1>7
  <2>4. \A d \in Ahead(c) : d \in All /\ rank(d) = 1 /\ from(d) < from(c) /\ from(d) \in DOMAIN rankings
    BY <1>4, <1>5, <2>2, <2>3
  <2> DEFINE others == DOMAIN rankings \ {from(c)}
             f == [d \in Ahead(c) |-> from(d)]
  <2>5. IsFiniteSet(others) /\ Cardinality(others) = Len(rankings) - 1
    <3> DEFINE n == Len(rankings)
    <3>1. n \in Nat /\ DOMAIN rankings = 1 .. n
      BY <1>8
    <3> HIDE DEF n
    <3>2. IsFiniteSet(1 .. n) /\ Cardinality(1 .. n) = n
      BY <3>1, FS_Interval
    <3>3. from(c) \in 1 .. n
      BY <1>4, <2>2, <3>1
    <3> DEFINE indices == 1 .. n  own == from(c)
    <3>4. IsFiniteSet(indices) /\ Cardinality(indices) = n /\ own \in indices /\ others = indices \ {own}
      BY <3>1, <3>2, <3>3
    <3> HIDE DEF indices, own, others
    <3>5. IsFiniteSet(others) /\ Cardinality(others) = n - 1
      BY <3>4, FS_RemoveElement
    <3> QED BY <3>5 DEF n
  <2>6. \A d \in Ahead(c) : f[d] \in others
    BY <1>4, <2>2, <2>4
  <2>7. \A d, e \in Ahead(c) : f[d] = f[e] => d = e
    BY <1>4, <2>4
  <2> HIDE DEF f, others
  <2> DEFINE before == Ahead(c)
  <2>8. before = Ahead(c)
    OBVIOUS
  <2> HIDE DEF before
  <2>9. Cardinality(before) \in Nat /\ Cardinality(before) <= Cardinality(others)
    BY <2>5, <2>6, <2>7, <2>8, CountOf
  <2>10. Cardinality(before) < Returned
    BY <1>8, <1>9, <2>5, <2>9
  <2> QED BY <1>3, <2>2, <2>8, <2>10 DEF c
<1>10. ASSUME NEW c \in R!Range(kept)
       PROVE  \E g \in DOMAIN rankings : \E r \in DOMAIN rankings[g] :
                rankings[g][r] = c /\ \A q \in 1 .. r : rankings[g][q] \in R!Range(kept)
  <2>1. c \in All
    BY <1>3
  <2>2. /\ from(c) \in DOMAIN rankings /\ rank(c) \in Nat /\ rank(c) \in DOMAIN rankings[from(c)]
        /\ rankings[from(c)][rank(c)] = c
    BY <1>4, <2>1
  <2>3. ASSUME NEW q \in 1 .. rank(c) PROVE rankings[from(c)][q] \in R!Range(kept)
    <3> DEFINE d == rankings[from(c)][q]
    <3>1. CASE q = rank(c)
      BY <2>2, <3>1
    <3>2. CASE q # rank(c)
      <4>1. q \in DOMAIN rankings[from(c)] /\ q < rank(c) /\ q \in Nat
        BY <1>7, <2>2, <3>2
      <4>2. d \in All /\ rank(d) <= q
        BY <1>6, <2>2, <4>1
      <4> HIDE DEF d
      <4>3. rank(d) < rank(c)
        <5>1. rank(d) \in Nat
          BY <1>4, <4>2
        <5> QED BY <2>2, <4>1, <4>2, <5>1
      <4>4. d \in R!Range(kept)
        BY <1>3, <1>5, <2>1, <4>2, <4>3
      <4> QED BY <4>4 DEF d
    <3> QED BY <3>1, <3>2
  <2> QED BY <2>2, <2>3
<1> QED BY <1>3, <1>9, <1>10 DEF R!EveryQueryHeard, kept

LEMMA Division == ASSUME NEW a \in Nat, NEW d \in Nat, d > 0, a % d = 0 PROVE d * (a \div d) = a
OBVIOUS

(* A rank is worth its part of the whole. *)
LEMMA WorthOf ==
  ASSUME R!Scaled, NEW r \in 1 .. TopK
  PROVE  R!Worth(r) \in Nat /\ (K + r) * R!Worth(r) = Scale
<1>1. K + r \in Nat /\ K + r > 0 /\ Scale \in Nat /\ Scale % (K + r) = 0 /\ r # 0
  <2>1. K \in Nat /\ TopK \in Nat /\ Scale \in Nat
    BY DEF R!Scaled
  <2>2. Scale % (K + r) = 0
    BY Zenon DEF R!Scaled
  <2> QED BY <2>1, <2>2
<1>2. Scale \div (K + r) \in Nat /\ (K + r) * (Scale \div (K + r)) = Scale
  BY <1>1, Quotient, Division
<1> QED BY <1>1, <1>2 DEF R!Worth

(* Two shares are more than one: twice the whole over 2k + 1 is more than the whole over k + 1. *)
LEMMA TwoBeatOne ==
  ASSUME NEW k \in Nat, NEW r \in Nat, NEW s \in Nat, NEW t \in Nat, t >= 1, r <= k + 1, s <= k + 1,
         NEW x \in Nat, NEW y \in Nat, NEW z \in Nat, NEW whole \in Nat, whole > 0,
         (k + r) * x = whole, (k + s) * y = whole, (k + t) * z = whole
  PROVE  x + y > z
<1>1. (k + k + 1) * x >= whole /\ (k + k + 1) * y >= whole
  OBVIOUS
<1>2. (k + 1) * z <= whole
  OBVIOUS
<1>3. z > 0
  OBVIOUS
<1>4. (k + k + 1) * (x + y) >= whole + whole
  BY <1>1
<1>5. (k + k + 2) * z <= whole + whole
  BY <1>2
<1>6. (k + k + 1) * z < (k + k + 2) * z
  BY <1>3
<1>7. (k + k + 1) * z < (k + k + 1) * (x + y)
  BY <1>4, <1>5, <1>6
<1> QED BY <1>7

(* The score of a passage in two lists is what its two ranks are worth. *)
LEMMA ScoreOfTwo ==
  ASSUME R!Scaled, NEW Things, NEW one \in Seq(Things), NEW two \in Seq(Things), NEW c
  PROVE  /\ R!Worth(R!RankIn(one, c)) \in Nat /\ R!Worth(R!RankIn(two, c)) \in Nat
         /\ R!Fused(<<one, two>>, c) = R!Worth(R!RankIn(one, c)) + R!Worth(R!RankIn(two, c))
<1> DEFINE x == R!Worth(R!RankIn(one, c))
           y == R!Worth(R!RankIn(two, c))
           both == <<one, two>>
           f == [l \in DOMAIN both |-> R!Worth(R!RankIn(both[l], c))]
<1>1. R!Worth(0) \in Nat
  BY DEF R!Worth
<1>2. ASSUME NEW r \in Nat PROVE R!Worth(r) \in Nat
  <2>1. CASE r = 0
    BY <1>1, <2>1
  <2>2. CASE r # 0
    <3>1. K + r \in Nat /\ K + r > 0 /\ Scale \in Nat
      BY <2>2 DEF R!Scaled
    <3> QED BY <2>2, <3>1, Quotient DEF R!Worth
  <2> QED BY <2>1, <2>2
<1>3. x \in Nat /\ y \in Nat
  BY <1>2, RankOf
<1>4. DOMAIN both = {1, 2} /\ both[1] = one /\ both[2] = two
  OBVIOUS
<1> HIDE DEF both
<1>5. DOMAIN f = {1, 2} /\ f[1] = x /\ f[2] = y
  BY <1>4
<1> HIDE DEF f, x, y
<1>6. IsFiniteSet({1, 2})
  <2>1. IsFiniteSet({1} \cup {2})
    BY FS_Singleton, FS_Union
  <2> QED BY <2>1
<1>7. \A s : R!SumFunctionOnSet(f, s) = SumFunctionOnSet(f, s)
  BY DEF R!SumFunctionOnSet, R!FoldFunctionOnSet, R!MapThenFoldSet, SumFunctionOnSet, FoldFunctionOnSet, MapThenFoldSet
<1>8. R!SumFunction(f) = SumFunctionOnSet(f, {1, 2})
  BY <1>5, <1>7 DEF R!SumFunction
<1>9. SumFunctionOnSet(f, {1, 2}) = f[1] + SumFunctionOnSet(f, {2})
  <2>1. \A l \in {1, 2} : f[l] \in Nat
    BY <1>3, <1>5
  <2>2. {1, 2} \ {1} = {2} /\ 1 \in {1, 2}
    OBVIOUS
  <2>3. SumFunctionOnSet(f, {1, 2}) = f[1] + SumFunctionOnSet(f, {1, 2} \ {1})
    BY <1>6, <2>1, <2>2, SumWithout
  <2> QED BY <2>2, <2>3
<1>10. SumFunctionOnSet(f, {2}) = f[2] + SumFunctionOnSet(f, {})
  <2>1. IsFiniteSet({2}) /\ \A l \in {2} : f[l] \in Nat
    BY <1>3, <1>5, FS_Singleton
  <2>2. {2} \ {2} = {} /\ 2 \in {2}
    OBVIOUS
  <2>3. SumFunctionOnSet(f, {2}) = f[2] + SumFunctionOnSet(f, {2} \ {2})
    BY <2>1, <2>2, SumWithout
  <2> QED BY <2>2, <2>3
<1>11. SumFunctionOnSet(f, {}) = 0
  BY <1>6, SumStep
<1>12. R!SumFunction(f) = x + y
  BY <1>3, <1>5, <1>8, <1>9, <1>10, <1>11
<1> QED BY <1>3, <1>12 DEF R!Fused, f, x, y, both

(* What both searches find scores more than what one finds. *)
LEMMA FoundByBoth ==
  ASSUME R!Scaled, Scale > 0, TopK <= K + 1, NEW Things, IsFiniteSet(Things),
         NEW one \in Seq(Things), NEW two \in Seq(Things), Len(one) <= TopK, Len(two) <= TopK
  PROVE  R!BothRise(<<one, two>>)
<1> DEFINE both == <<one, two>>
           All == R!Anywhere(both)
           Under == AboveOf(both)
           fused == R!Fusion(both)
           Both(c) == \A l \in DOMAIN both : c \in R!Range(both[l])
<1>1. both \in Seq(Seq(Things)) /\ DOMAIN both = {1, 2} /\ both[1] = one /\ both[2] = two
  OBVIOUS
<1>2. \A c : R!Fused(both, c) = R!Worth(R!RankIn(one, c)) + R!Worth(R!RankIn(two, c))
  BY ScoreOfTwo
<1> HIDE DEF both
<1>3. \A c : Both(c) <=> c \in R!Range(one) /\ c \in R!Range(two)
  BY <1>1
<1>4. \A c \in All : c \in R!Range(one) \/ c \in R!Range(two)
  BY <1>1 DEF R!Anywhere
<1>5. fused = R!Sorted(All, Under)
  BY DEF R!Fusion, AboveOf
<1>6. /\ \A i \in DOMAIN fused : fused[i] \in All
      /\ \A i, j \in DOMAIN fused : <<fused[i], fused[j]>> \in Under <=> i < j
  <2>1. IsFiniteSet(All) /\ Ordered(All, Under)
    BY <1>1, AboveInOrder
  <2> HIDE DEF All, Under, fused
  <2>2. /\ fused \in Seq(All)
        /\ \A i, j \in DOMAIN fused : <<fused[i], fused[j]>> \in Under <=> i < j
    BY <1>5, <2>1, SortedOf
  <2> QED BY <2>2
<1>7. ASSUME NEW c, c \in R!Range(one) PROVE R!RankIn(one, c) \in 1 .. TopK /\ R!RankIn(one, c) \in Nat
  <2>1. R!RankIn(one, c) \in DOMAIN one
    BY <1>7, RankOf
  <2> QED BY <2>1 DEF R!Scaled
<1>8. ASSUME NEW c, c \in R!Range(two) PROVE R!RankIn(two, c) \in 1 .. TopK /\ R!RankIn(two, c) \in Nat
  <2>1. R!RankIn(two, c) \in DOMAIN two
    BY <1>8, RankOf
  <2> QED BY <2>1 DEF R!Scaled
<1>9. \A c : /\ c \notin R!Range(one) => R!Worth(R!RankIn(one, c)) = 0
             /\ c \notin R!Range(two) => R!Worth(R!RankIn(two, c)) = 0
  BY DEF R!RankIn, R!Worth
<1>10. ASSUME NEW c \in All, NEW d \in All, Both(c), ~Both(d)
       PROVE  R!Fused(both, c) > R!Fused(both, d)
  <2> DEFINE r == R!RankIn(one, c)  s == R!RankIn(two, c)
             t == IF d \in R!Range(one) THEN R!RankIn(one, d) ELSE R!RankIn(two, d)
  <2>1. c \in R!Range(one) /\ c \in R!Range(two)
    BY <1>3, <1>10
  <2>2. r \in 1 .. TopK /\ s \in 1 .. TopK
    BY <1>7, <1>8, <2>1
  <2>3. t \in 1 .. TopK
    BY <1>4, <1>7, <1>8
  <2>4. R!Fused(both, d) = R!Worth(t)
    <3>1. \A e : R!Worth(R!RankIn(one, e)) \in Nat /\ R!Worth(R!RankIn(two, e)) \in Nat
      BY ScoreOfTwo
    <3>2. CASE d \in R!Range(one)
      <4>1. R!Worth(R!RankIn(two, d)) = 0 /\ t = R!RankIn(one, d)
        BY <1>3, <1>9, <1>10, <3>2
      <4> HIDE DEF t
      <4> QED BY <1>2, <3>1, <4>1
    <3>3. CASE d \notin R!Range(one)
      <4>1. R!Worth(R!RankIn(one, d)) = 0 /\ t = R!RankIn(two, d)
        BY <1>9, <3>3
      <4> HIDE DEF t
      <4> QED BY <1>2, <3>1, <4>1
    <3> QED BY <3>2, <3>3
  <2>5. R!Fused(both, c) = R!Worth(r) + R!Worth(s)
    BY <1>2
  <2> HIDE DEF r, s, t
  <2> DEFINE x == R!Worth(r)  y == R!Worth(s)  z == R!Worth(t)
  <2>6. /\ x \in Nat /\ (K + r) * x = Scale
        /\ y \in Nat /\ (K + s) * y = Scale
        /\ z \in Nat /\ (K + t) * z = Scale
    BY <2>2, <2>3, WorthOf
  <2>7. K \in Nat /\ TopK \in Nat /\ Scale \in Nat
    BY DEF R!Scaled
  <2> HIDE DEF x, y, z
  <2>8. r \in Nat /\ s \in Nat /\ t \in Nat /\ t >= 1 /\ r <= K + 1 /\ s <= K + 1
    BY <2>2, <2>3, <2>7
  <2>9. x + y > z
    BY <2>6, <2>7, <2>8, TwoBeatOne
  <2> QED BY <2>4, <2>5, <2>9 DEF x, y, z
<1>11. ASSUME NEW i \in DOMAIN fused, NEW j \in DOMAIN fused, Both(fused[i]), ~Both(fused[j])
       PROVE  i < j
  <2>1. fused[i] \in All /\ fused[j] \in All
    BY <1>6
  <2> DEFINE c == fused[i]  d == fused[j]
  <2>2. R!Fused(both, c) > R!Fused(both, d)
    BY <1>10, <1>11, <2>1
  <2>3. <<c, d>> \in Under
    BY <2>1, <2>2 DEF R!Above, AboveOf
  <2> QED BY <1>6, <2>3
<1> QED BY <1>11 DEF R!BothRise, both

(* A probe counts the first that are hidden, and is cut unless they are all. *)
LEMMA ProbeTells ==
  ASSUME Returned \in Nat, Returned > 0, NEW scores \in Seq(Int), NEW floor \in Int, NEW best \in Int
  PROVE  R!ProbeHonest(scores, floor, best)
<1> DEFINE D == DOMAIN scores
           Under == {p \in D \X D : scores[p[1]] > scores[p[2]] \/ (scores[p[1]] = scores[p[2]] /\ p[1] < p[2])}
           Ahead(k) == {j \in D : <<j, k>> \in Under}
           list == R!Sorted(D, Under)
           near == R!Nearest(scores)
           relevant == {k \in near : scores[k] >= floor}
           all(least) == {k \in D : scores[k] >= least}
           hint == R!HiddenProbe(scores, floor, best)
<1>1. IsFiniteSet(D) /\ \A k \in D : k \in Nat /\ scores[k] \in Int
  BY Places
<1>2. \A j, k \in D : <<j, k>> \in Under <=> scores[j] > scores[k] \/ (scores[j] = scores[k] /\ j < k)
  OBVIOUS
<1>3. \A k \in D : Ahead(k) = {j \in D : scores[j] > scores[k] \/ (scores[j] = scores[k] /\ j < k)}
  OBVIOUS
<1>4. near = {k \in D : Cardinality(Ahead(k)) < Returned}
  <2> HIDE DEF Ahead
  <2> QED BY <1>3, SearchSizes DEF R!Nearest
<1>5. /\ relevant \subseteq all(floor) /\ IsFiniteSet(relevant) /\ \A least : IsFiniteSet(all(least))
  BY <1>1, <1>4, FS_Subset
<1>6. /\ hint.passages = Cardinality(relevant)
      /\ hint.outranking = Cardinality({k \in relevant : scores[k] >= best})
      /\ hint.truncated = (Cardinality(relevant) = Returned /\ Returned > 0)
  BY SearchSizes DEF R!HiddenProbe, R!FullWindow
<1>7. \A least : R!Cardinality(all(least)) = Cardinality(all(least))
  BY SearchSizes
<1> HIDE DEF D, Under, Ahead, list, near, hint
<1>8. Cardinality(relevant) <= Cardinality(all(floor))
  BY <1>5, FS_Subset
<1>9. Ordered(D, Under)
  <2>1. \A j, k \in D : j # k => <<j, k>> \in Under \/ <<k, j>> \in Under
    BY <1>1, <1>2
  <2>2. \A j, k \in D : <<j, k>> \in Under => <<k, j>> \notin Under
    BY <1>1, <1>2
  <2>3. \A j, k, l \in D : <<j, k>> \in Under /\ <<k, l>> \in Under => <<j, l>> \in Under
    BY <1>1, <1>2
  <2> QED BY <2>1, <2>2, <2>3 DEF Ordered
<1>10. /\ DOMAIN list = 1 .. Cardinality(D) /\ Cardinality(D) \in Nat
       /\ \A i \in DOMAIN list : Cardinality(Ahead(list[i])) + 1 = i
       /\ \A c \in D : \E i \in DOMAIN list : list[i] = c
       /\ \A i, j \in DOMAIN list : <<list[i], list[j]>> \in Under <=> i < j
       /\ \A i \in DOMAIN list : list[i] \in D
  BY <1>1, <1>9, SortedOf DEF list, Ahead
<1>11. \A k \in D : Cardinality(Ahead(k)) \in Nat
  <2>1. \A k \in D : IsFiniteSet(Ahead(k))
    BY <1>1, FS_Subset DEF Ahead
  <2> QED BY <2>1, FS_CardinalityType
<1>12. CASE all(floor) \subseteq near
  <2>1. relevant = all(floor)
    BY <1>4, <1>12
  <2>2. best >= floor => {k \in relevant : scores[k] >= best} = all(best)
    BY <1>1, <2>1
  <2> HIDE DEF relevant, all
  <2>3. hint.passages <= R!Cardinality(all(floor)) /\ hint.passages = R!Cardinality(all(floor))
    BY <1>6, <1>7, <1>8, <2>1
  <2>4. best >= floor => hint.outranking = R!Cardinality(all(best))
    BY <1>6, <1>7, <2>2
  <2> QED BY <2>3, <2>4 DEF R!ProbeHonest, hint, all, D
<1>13. CASE ~(all(floor) \subseteq near)
  <2>1. PICK x \in D : scores[x] >= floor /\ x \notin near
    BY <1>13
  <2>2. PICK i \in DOMAIN list : list[i] = x
    BY <1>10
  <2>3. i \in Nat /\ Returned < i /\ i <= Cardinality(D)
    <3>1. Cardinality(Ahead(x)) >= Returned
      BY <1>4, <1>11, <2>1
    <3> QED BY <1>10, <1>11, <2>2, <3>1
  <2>4. ASSUME NEW j \in 1 .. Returned PROVE j \in DOMAIN list /\ list[j] \in relevant
    <3>1. j \in DOMAIN list /\ j < i /\ j \in Nat
      BY <1>10, <2>3
    <3>2. list[j] \in D /\ <<list[j], x>> \in Under /\ Cardinality(Ahead(list[j])) + 1 = j
      BY <1>10, <2>2, <3>1
    <3>3. scores[list[j]] >= floor
      BY <1>1, <1>2, <2>1, <3>2
    <3>4. Cardinality(Ahead(list[j])) < Returned
      BY <1>11, <3>2
    <3> QED BY <1>4, <3>1, <3>2, <3>3, <3>4
  <2>5. ASSUME NEW j \in 1 .. Returned, NEW k \in 1 .. Returned, list[j] = list[k] PROVE j = k
    <3>1. j \in DOMAIN list /\ k \in DOMAIN list /\ list[j] \in D
      BY <1>10, <2>4
    <3>2. <<list[j], list[j]>> \notin Under
      BY <1>9, <3>1 DEF Ordered
    <3>3. ~(j < k) /\ ~(k < j)
      BY <1>10, <2>5, <3>1, <3>2
    <3> QED BY <3>3
  <2>6. ASSUME NEW k \in relevant PROVE \E j \in 1 .. Returned : list[j] = k
    <3>1. k \in D /\ Cardinality(Ahead(k)) < Returned
      BY <1>4
    <3>2. PICK j \in DOMAIN list : list[j] = k
      BY <1>10, <3>1
    <3>3. Cardinality(Ahead(k)) + 1 = j /\ Cardinality(Ahead(k)) \in Nat
      BY <1>10, <1>11, <3>1, <3>2
    <3> QED BY <3>1, <3>2, <3>3
  <2> HIDE DEF relevant, all
  <2>7. Cardinality(relevant) = Cardinality(1 .. Returned)
    <3> DEFINE places == 1 .. Returned
               g == [j \in places |-> list[j]]
    <3>1. g \in Injection(places, relevant)
      <4>1. g \in [places -> relevant]
        BY <2>4
      <4>2. \A j, k \in places : g[j] = g[k] => j = k
        BY <2>5
      <4> HIDE DEF g, places
      <4> QED BY <4>1, <4>2 DEF Injection, IsInjective
    <3>2. \A k \in relevant : \E j \in places : g[j] = k
      BY <2>6
    <3>3. IsFiniteSet(places)
      BY FS_Interval
    <3> HIDE DEF g, places
    <3>4. ExistsBijection(places, relevant)
      BY <3>1, <3>2 DEF ExistsBijection, Bijection, Surjection, Injection
    <3> QED BY <3>3, <3>4, FS_Bijection DEF places
  <2>8. Cardinality(relevant) = Returned
    BY <2>7, FS_Interval
  <2>9. hint.truncated
    BY <1>6, <2>8
  <2>10. hint.passages <= R!Cardinality(all(floor))
    BY <1>6, <1>7, <1>8
  <2> QED BY <2>9, <2>10 DEF R!ProbeHonest, hint, all, D
<1> QED BY <1>12, <1>13

(* For any passages and any lists of them: what both searches find is ranked before what   *)
(* one of them finds, while they return no more than k + 1; every planned query is heard,   *)
(* its best passage first and none of a passage that it ranked before one that is kept;      *)
(* and a probe says that it was cut, or its numbers are those of all that is hidden            *)
(* (retrieval/fusion.py, retrieval/planning.py, retrieval/vector.py).                           *)
THEOREM RankingIsFair ==
  ASSUME R!Scaled, Scale > 0, TopK <= K + 1, Returned \in Nat, Returned > 0, NEW Things, IsFiniteSet(Things)
  PROVE  /\ \A one, two \in Seq(Things) : Len(one) <= TopK /\ Len(two) <= TopK => R!BothRise(<<one, two>>)
         /\ \A groups \in Seq(Seq(Things)) :
              (\A g \in DOMAIN groups : R!Distinct(groups[g])) => R!EveryQueryHeard(groups)
         /\ \A hidden \in Seq(Int), floor \in Int, best \in Int : R!ProbeHonest(hidden, floor, best)
<1>1. ASSUME NEW one \in Seq(Things), NEW two \in Seq(Things), Len(one) <= TopK, Len(two) <= TopK
      PROVE  R!BothRise(<<one, two>>)
  BY <1>1, FoundByBoth
<1>2. ASSUME NEW groups \in Seq(Seq(Things)), \A g \in DOMAIN groups : R!Distinct(groups[g])
      PROVE  R!EveryQueryHeard(groups)
  BY <1>2, EveryoneHeard
<1>3. ASSUME NEW hidden \in Seq(Int), NEW floor \in Int, NEW best \in Int
      PROVE  R!ProbeHonest(hidden, floor, best)
  BY ProbeTells
<1> QED BY <1>1, <1>2, <1>3

(* Nothing has been searched for. *)
LEMMA SearchInit == ASSUME R!Settings, R!Init PROVE R!IInv
<1>1. stored = Old /\ ready = R!Document /\ collection = [version |-> 0, generation |-> 0] /\ search = Null
  BY DEF R!Init
<1>2. R!TypeOK
  BY <1>1 DEF R!Settings, R!TypeOK, R!Counts
<1> QED BY <1>1, <1>2 DEF R!IInv, R!HintTrue

(* Lists that are found are of what they are found in, each once. *)
LEMMA FoundIn ==
  ASSUME NEW rows, IsFiniteSet(rows), NEW n \in Nat, NEW hits \in R!Found(rows, n)
  PROVE  /\ hits \in Seq(rows) /\ R!Range(hits) \subseteq rows
         /\ DOMAIN hits = 1 .. Len(hits) /\ Len(hits) \in Nat
         /\ Len(hits) <= n /\ Len(hits) <= Cardinality(rows)
         /\ Cardinality(rows) <= n => Len(hits) = Cardinality(rows)
         /\ \A i, j \in DOMAIN hits : hits[i] = hits[j] => i = j
<1> DEFINE m == R!Min({n, Cardinality(rows)})
<1>1. Cardinality(rows) \in Nat /\ R!Cardinality(rows) = Cardinality(rows)
  BY FS_CardinalityType, SearchSizes
<1>2. m \in {n, Cardinality(rows)} /\ m <= n /\ m <= Cardinality(rows) /\ m \in Nat
  <2>1. {n, Cardinality(rows)} \subseteq Nat
    BY <1>1
  <2> QED BY <2>1, LeastNumber
<1>3. hits \in [1 .. m -> rows] /\ R!Distinct(hits)
  BY <1>1 DEF R!Found
<1> HIDE DEF m
<1>4. hits \in Seq(rows) /\ Len(hits) = m /\ DOMAIN hits = 1 .. m
  BY <1>2, <1>3, SeqDef
<1>5. \A i, j \in DOMAIN hits : hits[i] = hits[j] => i = j
  BY <1>3 DEF R!Distinct, R!IsInjective
<1>6. R!Range(hits) \subseteq rows
  BY <1>3 DEF R!Range
<1>7. Cardinality(rows) <= n => m = Cardinality(rows)
  BY <1>1, <1>2
<1> QED BY <1>2, <1>4, <1>5, <1>6, <1>7

LEMMA PassagesFinite ==
  ASSUME R!Settings, R!TypeOK
  PROVE  /\ IsFiniteSet(Passage) /\ stored \subseteq Passage
         /\ R!Visible \subseteq stored /\ R!Hidden \subseteq stored
         /\ IsFiniteSet(R!Visible) /\ IsFiniteSet(R!Hidden)
<1>1. IsFiniteSet(Passage) /\ stored \subseteq Passage
  BY SearchSizes DEF R!Settings, R!TypeOK
<1>2. R!Visible \subseteq stored /\ R!Hidden \subseteq stored
  BY DEF R!Visible, R!Hidden, R!Searched
<1> QED BY <1>1, <1>2, FS_Subset

(* The corpus moves, and what a search has found with it, unless a counter says so. *)
LEMMA CorpusMovesOn ==
  ASSUME R!Settings, R!IInv,
         NEW d \in R!Document,
         \/ R!Reset(d) \/ R!DeleteDocument(d)
         \/ \E new \in SUBSET Passage : R!StoreChunks(d, new)
         \/ \E old, new \in {{}} \cup {{p} : p \in FactPassages} : R!ReplaceFacts(d, old, new)
  PROVE  R!IInv'
<1>1. R!TypeOK
  BY DEF R!IInv
<1>2. /\ search' = search /\ stored' \subseteq Passage /\ ready' \subseteq R!Document
      /\ \/ R!Moved(1, 0) /\ stored' = stored
         \/ R!Moved(0, 1) /\ \A p \in Passage : DocumentOf[p] \in ready =>
              DocumentOf[p] \in ready' /\ (p \in stored => p \in stored' \cup FactPassages)
         \/ R!Moved(1, 1)
  <2>1. ASSUME R!Reset(d)
        PROVE  search' = search /\ stored' = stored /\ ready' \subseteq ready /\ R!Moved(1, 0)
    BY <2>1 DEF R!Reset
  <2>2. ASSUME R!DeleteDocument(d)
        PROVE  search' = search /\ stored' \subseteq stored /\ ready' \subseteq ready /\ R!Moved(1, 1)
    BY <2>2 DEF R!DeleteDocument
  <2>3. ASSUME NEW new \in SUBSET Passage, R!StoreChunks(d, new)
        PROVE  /\ search' = search /\ stored' \subseteq stored \cup new /\ ready' = ready \cup {d} /\ R!Moved(0, 1)
               /\ \A p \in stored : DocumentOf[p] \in ready => p \in stored'
    BY <2>3 DEF R!StoreChunks, R!TextOf
  <2>4. ASSUME NEW old \in {{}} \cup {{p} : p \in FactPassages}, NEW new \in {{}} \cup {{p} : p \in FactPassages},
               R!ReplaceFacts(d, old, new)
        PROVE  /\ search' = search /\ stored' \subseteq stored \cup FactPassages /\ ready' = ready /\ R!Moved(0, 1)
               /\ \A p \in stored : p \in stored' \cup FactPassages
    BY <2>4 DEF R!ReplaceFacts
  <2>5. stored \subseteq Passage /\ ready \subseteq R!Document /\ FactPassages \subseteq Passage
    BY <1>1 DEF R!TypeOK, R!Settings
  <2> QED BY <2>1, <2>2, <2>3, <2>4, <2>5
<1>3. /\ collection.version \in Nat /\ collection.generation \in Nat
      /\ collection' = [version |-> collection'.version, generation |-> collection'.generation]
      /\ collection'.version \in Nat /\ collection'.generation \in Nat
      /\ collection'.version >= collection.version /\ collection'.generation >= collection.generation
      /\ collection'.version > collection.version \/ collection'.generation > collection.generation
      /\ collection'.generation = collection.generation => stored' = stored
  <2>1. collection.version \in Nat /\ collection.generation \in Nat
    BY <1>1 DEF R!TypeOK, R!Counts
  <2> QED BY <1>2, <2>1 DEF R!Moved
<1>4. R!TypeOK'
  <2>1. collection' \in R!Counts
    BY <1>3 DEF R!Counts
  <2> QED BY <1>1, <1>2, <2>1 DEF R!TypeOK
<1>5. ASSUME search # Null
      PROVE  /\ R!FoundStands' /\ R!InItsTurn'
             /\ collection' # search.read
  <2>1. /\ search.read.version \in Nat /\ search.read.generation \in Nat
        /\ search.read.version <= collection.version /\ search.read.generation <= collection.generation
        /\ R!FoundStands /\ R!InItsTurn
    BY <1>1, <1>5 DEF R!IInv, R!InItsTurn, R!TypeOK, R!Search, R!Counts
  <2>2. R!InItsTurn'
    BY <1>2, <1>3, <2>1 DEF R!InItsTurn
  <2>3. /\ R!StillGeneration' => R!StillGeneration /\ stored' = stored
        /\ R!StillVersion' => R!StillVersion /\ collection'.version = collection.version
    BY <1>2, <1>3, <2>1 DEF R!StillGeneration, R!StillVersion
  <2>4. R!StillVersion' => \A p \in Passage : DocumentOf[p] \in ready =>
          DocumentOf[p] \in ready' /\ (p \in stored => p \in stored' \cup FactPassages)
    BY <1>2, <1>3, <2>3 DEF R!Moved
  <2>5. R!Standing \subseteq R!Standing'
    <3>1. ASSUME NEW p \in R!Standing PROVE p \in Passage /\ (R!StillGeneration' => p \in stored')
      BY <2>3, <3>1 DEF R!Standing
    <3>2. ASSUME NEW p \in R!Standing, R!StillVersion' PROVE DocumentOf[p] \in ready' /\ p \in stored' \cup FactPassages
      BY <2>3, <2>4, <3>2 DEF R!Standing
    <3> QED BY <3>1, <3>2 DEF R!Standing
  <2>6. R!FoundStands'
    <3>1. search' = search /\ R!Range(search'.vector) = R!Range(search.vector) /\ R!Range(search'.words) = R!Range(search.words)
          /\ \A g \in DOMAIN search.groups : R!Range(search'.groups[g]) = R!Range(search.groups[g])
      BY <1>2
    <3> QED BY <2>1, <2>5, <3>1 DEF R!FoundStands
  <2> QED BY <1>3, <2>1, <2>2, <2>6
<1>6. R!HintTrue'
  BY <1>2, <1>5 DEF R!HintTrue
<1> QED BY <1>2, <1>4, <1>5, <1>6 DEF R!IInv

(* What holds of a search that goes on. *)
LEMMA Searching ==
  ASSUME R!Settings, R!IInv, NEW s, R!At(s)
  PROVE  /\ search # Null /\ search \in R!Search /\ search.step = s
         /\ R!FoundStands /\ R!InItsTurn /\ R!TypeOK
         /\ search.question \in R!Question /\ search.vector \in Seq(Passage) /\ search.words \in Seq(Passage)
         /\ search.groups \in Seq(Seq(Passage))
BY DEF R!IInv, R!At, R!TypeOK, R!Search

(* A search goes on beside a corpus that stays: what is left to show of its next step. *)
LEMMA GoesOn ==
  ASSUME R!Settings, R!IInv, search # Null, UNCHANGED <<stored, ready, collection>>,
         search' \in R!Search, search'.read = search.read,
         R!Range(search'.vector) \cup R!Range(search'.words) \subseteq R!Standing,
         \A g \in DOMAIN search'.groups : R!Range(search'.groups[g]) \subseteq R!Standing,
         search'.hint # Null /\ search'.question = 1 => search'.step \notin {"vector", "words"},
         search'.step = "answer" => Len(search'.groups) = 1,
         R!HintTrue'
  PROVE  R!IInv'
<1>1. R!TypeOK'
  BY DEF R!IInv, R!TypeOK
<1>2. search' # Null
  BY DEF R!Settings
<1>3. R!FoundStands'
  <2>1. R!Standing' = R!Standing
    BY DEF R!Standing, R!StillGeneration, R!StillVersion
  <2> QED BY <2>1 DEF R!FoundStands
<1>4. R!InItsTurn'
  BY DEF R!IInv, R!InItsTurn
<1> QED BY <1>1, <1>2, <1>3, <1>4 DEF R!IInv

(* A hint stays true while nothing is found for the first question. *)
LEMMA HintStays ==
  ASSUME R!Settings, R!IInv, search # Null, UNCHANGED <<stored, ready, collection>>,
         search' \in R!Search, search'.read = search.read, search'.hint = search.hint,
         search'.hint # Null => ~(search'.step = "rank" /\ search'.question = 1)
  PROVE  R!HintTrue'
<1> SUFFICES ASSUME search.hint # Null, collection = search.read, ~(Labels \subseteq Readable)
             PROVE  R!HintOfHidden'
  BY DEF R!HintTrue
<1>1. R!HintOfHidden
  BY DEF R!IInv, R!HintTrue
<1>2. R!Close' = R!Close /\ R!Hidden' = R!Hidden
  BY DEF R!Close, R!Hidden, R!Searched, R!Visible
<1> QED BY <1>1, <1>2 DEF R!HintOfHidden, R!At

LEMMA BeginKeeps == ASSUME R!Settings, R!IInv, NEW reveal \in BOOLEAN, R!Begin(reveal) PROVE R!IInv'
<1> DEFINE new == [step |-> "vector", question |-> 1, reveal |-> reveal, groups |-> <<>>,
                   vector |-> <<>>, words |-> <<>>, hint |-> Null, read |-> collection]
<1>1. search' = new /\ UNCHANGED <<stored, ready, collection>>
  BY DEF R!Begin
<1>2. collection \in R!Counts /\ R!TypeOK
  BY DEF R!IInv, R!TypeOK
<1>3. new \in R!Search
  <2>1. 1 \in R!Question
    BY DEF R!Question, R!Settings
  <2> QED BY <1>2, <2>1 DEF R!Search
<1>4. R!TypeOK'
  BY <1>1, <1>2, <1>3 DEF R!TypeOK
<1>5. R!FoundStands' /\ R!InItsTurn'
  <2>1. search'.vector = <<>> /\ search'.words = <<>> /\ search'.groups = <<>> /\ search'.hint = Null
        /\ search'.step = "vector" /\ search'.read = collection
    BY <1>1
  <2>2. collection.version <= collection.version /\ collection.generation <= collection.generation
    BY <1>2 DEF R!Counts
  <2> QED BY <1>1, <2>1, <2>2 DEF R!FoundStands, R!InItsTurn, R!Range
<1>6. R!HintTrue'
  BY <1>1 DEF R!HintTrue
<1> QED BY <1>4, <1>5, <1>6 DEF R!IInv

(* What can be seen now is of documents that are searched, and in the table. *)
LEMMA VisibleStands == ASSUME R!TypeOK PROVE R!Visible \subseteq R!Standing /\ R!Standing \subseteq Passage
BY DEF R!Visible, R!Searched, R!Standing, R!TypeOK

LEMMA VectorKeeps == ASSUME R!Settings, R!IInv, R!VectorSearch PROVE R!IInv'
<1>1. /\ search # Null /\ search \in R!Search /\ search.step = "vector" /\ R!FoundStands /\ R!InItsTurn /\ R!TypeOK
  BY Searching DEF R!VectorSearch
<1>2. PICK hits \in R!Found(R!Visible, TopK) :
        /\ search' = [search EXCEPT !.step = "words", !.vector = hits]
        /\ UNCHANGED <<stored, ready, collection>>
  BY DEF R!VectorSearch, R!Update
<1>3. hits \in Seq(Passage) /\ R!Range(hits) \subseteq R!Standing
  <2>1. IsFiniteSet(R!Visible) /\ R!Visible \subseteq R!Standing /\ R!Standing \subseteq Passage /\ TopK \in Nat
    BY <1>1, PassagesFinite, VisibleStands DEF R!Settings, R!Scaled
  <2>2. hits \in Seq(R!Visible) /\ R!Range(hits) \subseteq R!Visible
    BY <2>1, FoundIn
  <2> QED BY <2>1, <2>2
<1>4. /\ search' \in R!Search /\ search'.step = "words" /\ search'.vector = hits
      /\ search'.words = search.words /\ search'.groups = search.groups /\ search'.hint = search.hint
      /\ search'.question = search.question /\ search'.read = search.read
  BY <1>1, <1>2, <1>3 DEF R!Search
<1>5. R!HintTrue'
  BY <1>1, <1>2, <1>4, HintStays
<1> QED BY <1>1, <1>2, <1>3, <1>4, <1>5, GoesOn DEF R!FoundStands, R!InItsTurn

LEMMA WordsKeep == ASSUME R!Settings, R!IInv, R!FulltextSearch PROVE R!IInv'
<1>1. /\ search # Null /\ search \in R!Search /\ search.step = "words" /\ R!FoundStands /\ R!InItsTurn /\ R!TypeOK
  BY Searching DEF R!FulltextSearch
<1> DEFINE Visible == R!Visible \cap Matches[search.question]
           next == IF search.question = 1 /\ search.reveal THEN "probe" ELSE "rank"
<1>2. PICK hits \in R!Found(Visible, TopK) :
        /\ search' = [search EXCEPT !.words = hits, !.step = next]
        /\ UNCHANGED <<stored, ready, collection>>
  BY DEF R!FulltextSearch, R!Update
<1>3. hits \in Seq(Passage) /\ R!Range(hits) \subseteq R!Standing
  <2>1. IsFiniteSet(R!Visible) /\ R!Visible \subseteq R!Standing /\ R!Standing \subseteq Passage /\ TopK \in Nat
    BY <1>1, PassagesFinite, VisibleStands DEF R!Settings, R!Scaled
  <2>2. IsFiniteSet(Visible) /\ Visible \subseteq R!Visible
    BY <2>1, FS_Subset
  <2> HIDE DEF Visible
  <2>3. hits \in Seq(Visible) /\ R!Range(hits) \subseteq Visible
    BY <2>1, <2>2, FoundIn
  <2> QED BY <2>1, <2>2, <2>3
<1>4. /\ search' \in R!Search /\ search'.step = next /\ search'.words = hits
      /\ search'.vector = search.vector /\ search'.groups = search.groups /\ search'.hint = search.hint
      /\ search'.question = search.question /\ search'.read = search.read
  <2>1. next \in {"probe", "rank"}
    OBVIOUS
  <2> HIDE DEF next
  <2> QED BY <1>1, <1>2, <1>3, <2>1 DEF R!Search
<1>5. R!HintTrue'
  BY <1>1, <1>2, <1>4, HintStays DEF R!InItsTurn
<1> QED BY <1>1, <1>2, <1>3, <1>4, <1>5, GoesOn DEF R!FoundStands, R!InItsTurn

LEMMA RankKeeps == ASSUME R!Settings, R!IInv, R!Rank PROVE R!IInv'
<1>1. /\ search # Null /\ search \in R!Search /\ search.step = "rank" /\ R!FoundStands /\ R!InItsTurn /\ R!TypeOK
      /\ search.vector \in Seq(Passage) /\ search.words \in Seq(Passage) /\ search.groups \in Seq(Seq(Passage))
  BY Searching DEF R!Rank
<1>2. PICK list \in R!Ranked, next \in {"refused", "plan"} :
        /\ search' = [search EXCEPT !.groups = Append(@, list), !.step = next]
        /\ UNCHANGED <<stored, ready, collection>>
  BY DEF R!Rank, R!Update
<1> DEFINE both == <<search.vector, search.words>>
           fused == R!UpTo(R!Fusion(both), Returned)
<1>3. both \in Seq(Seq(Passage)) /\ R!Anywhere(both) = R!Range(search.vector) \cup R!Range(search.words)
  <2>1. both \in Seq(Seq(Passage)) /\ DOMAIN both = {1, 2} /\ both[1] = search.vector /\ both[2] = search.words
    BY <1>1
  <2> HIDE DEF both
  <2> QED BY <2>1 DEF R!Anywhere
<1>4. IsFiniteSet(Passage) /\ Returned \in Nat /\ R!Scaled
  BY <1>1, PassagesFinite DEF R!Settings
<1>5. fused \in Seq(R!Anywhere(both)) /\ R!Anywhere(both) \subseteq Passage
  <2> HIDE DEF both
  <2>1. R!Fusion(both) \in Seq(R!Anywhere(both))
    BY <1>3, <1>4, FusionOf
  <2> QED BY <1>3, <1>4, <2>1, CutOf, ListsHave
<1>6. list \in Seq(Passage) /\ R!Range(list) \subseteq R!Anywhere(both)
  <2>0. R!Ranked = IF Reranker THEN R!Found(R!Range(fused), Returned) ELSE {fused}
    BY DEF R!Ranked
  <2> HIDE DEF fused, both
  <2>1. R!Range(fused) \subseteq R!Anywhere(both) /\ R!Range(fused) \subseteq Passage
    BY <1>5 DEF R!Range
  <2>2. CASE Reranker
    <3>1. IsFiniteSet(R!Range(fused))
      BY <1>4, <2>1, FS_Subset
    <3>2. list \in Seq(R!Range(fused)) /\ R!Range(list) \subseteq R!Range(fused)
      BY <1>4, <2>0, <2>2, <3>1, FoundIn
    <3> QED BY <2>1, <3>2
  <2>3. CASE ~Reranker
    BY <1>5, <2>0, <2>1, <2>3
  <2> QED BY <2>2, <2>3
<1> HIDE DEF fused, both
<1>7. /\ search' \in R!Search /\ search'.step = next /\ search'.groups = Append(search.groups, list)
      /\ search'.vector = search.vector /\ search'.words = search.words /\ search'.hint = search.hint
      /\ search'.question = search.question /\ search'.read = search.read
  <2> DEFINE more == Append(search.groups, list)
  <2>1. more \in Seq(Seq(Passage))
    BY <1>1, <1>6
  <2>2. search' = [search EXCEPT !.groups = more, !.step = next]
    BY <1>2
  <2> HIDE DEF more
  <2>3. search' \in R!Search /\ search'.step = next /\ search'.groups = more
    BY <1>1, <2>1, <2>2 DEF R!Search
  <2> QED BY <1>1, <2>2, <2>3 DEF R!Search, more
<1>8. R!HintTrue'
  BY <1>1, <1>2, <1>7, HintStays
<1>9. ASSUME NEW g \in DOMAIN search'.groups PROVE R!Range(search'.groups[g]) \subseteq R!Standing
  <2>1. CASE g \in DOMAIN search.groups
    BY <1>1, <1>7, <1>9, <2>1 DEF R!FoundStands
  <2>2. CASE g \notin DOMAIN search.groups
    <3>1. search'.groups[g] = list
      BY <1>1, <1>6, <1>7, <1>9, <2>2
    <3> QED BY <1>1, <1>3, <1>6, <1>9, <3>1 DEF R!FoundStands
  <2> QED BY <2>1, <2>2
<1> QED BY <1>1, <1>2, <1>7, <1>8, <1>9, GoesOn DEF R!FoundStands

LEMMA FacetKeeps == ASSUME R!Settings, R!IInv, R!NextFacet PROVE R!IInv'
<1>1. /\ search # Null /\ search \in R!Search /\ search.step = "plan" /\ R!FoundStands /\ R!InItsTurn
      /\ search.question \in R!Question /\ search.question < 1 + Searches
  BY Searching DEF R!NextFacet
<1>2. PICK next \in {"vector", "plan"} :
        /\ search' = [search EXCEPT !.step = next, !.question = @ + 1, !.vector = <<>>, !.words = <<>>]
        /\ UNCHANGED <<stored, ready, collection>>
  BY DEF R!NextFacet, R!Update
<1>3. search.question + 1 \in R!Question /\ search.question + 1 # 1
  BY <1>1 DEF R!Question, R!Settings
<1>4. /\ search' \in R!Search /\ search'.step = next /\ search'.groups = search.groups
      /\ search'.vector = <<>> /\ search'.words = <<>> /\ search'.hint = search.hint
      /\ search'.question = search.question + 1 /\ search'.read = search.read
  <2> DEFINE none == <<>>
             after == search.question + 1
  <2>1. none \in Seq(Passage) /\ after \in R!Question
    BY <1>3
  <2>2. search' = [search EXCEPT !.step = next, !.question = after, !.vector = none, !.words = none]
    BY <1>2
  <2> HIDE DEF none, after
  <2>3. /\ search' \in R!Search /\ search'.step = next /\ search'.groups = search.groups
        /\ search'.vector = none /\ search'.words = none /\ search'.hint = search.hint
        /\ search'.question = after /\ search'.read = search.read
    BY <1>1, <2>1, <2>2 DEF R!Search
  <2> QED BY <2>3 DEF none, after
<1>5. R!HintTrue'
  BY <1>1, <1>2, <1>3, <1>4, HintStays
<1>6. R!Range(<<>>) = {}
  BY DEF R!Range
<1> QED BY <1>1, <1>2, <1>3, <1>4, <1>5, <1>6, GoesOn DEF R!FoundStands

LEMMA MergeKeeps == ASSUME R!Settings, R!IInv, R!Merge PROVE R!IInv'
<1>1. /\ search # Null /\ search \in R!Search /\ search.step = "plan" /\ R!FoundStands /\ R!InItsTurn /\ R!TypeOK
      /\ search.groups \in Seq(Seq(Passage))
  BY Searching DEF R!Merge
<1> DEFINE merged == R!RoundRobin(search.groups, Returned)
<1>2. /\ search' = [search EXCEPT !.step = "answer", !.groups = <<merged>>]
      /\ UNCHANGED <<stored, ready, collection>>
  BY DEF R!Merge, R!Update
<1>3. merged \in Seq(R!Anywhere(search.groups)) /\ R!Anywhere(search.groups) \subseteq Passage
  BY <1>1, PassagesFinite, RoundsOf, ListsHave DEF R!Settings
<1> HIDE DEF merged
<1>4. merged \in Seq(Passage) /\ R!Range(merged) \subseteq R!Anywhere(search.groups)
  BY <1>3 DEF R!Range
<1>5. /\ search' \in R!Search /\ search'.step = "answer" /\ search'.groups = <<merged>>
      /\ search'.vector = search.vector /\ search'.words = search.words /\ search'.hint = search.hint
      /\ search'.question = search.question /\ search'.read = search.read
  <2> DEFINE one == <<merged>>
  <2>1. one \in Seq(Seq(Passage))
    BY <1>4
  <2>2. search' = [search EXCEPT !.step = "answer", !.groups = one]
    BY <1>2
  <2> HIDE DEF one
  <2>3. /\ search' \in R!Search /\ search'.step = "answer" /\ search'.groups = one
        /\ search'.vector = search.vector /\ search'.words = search.words /\ search'.hint = search.hint
        /\ search'.question = search.question /\ search'.read = search.read
    BY <1>1, <2>1, <2>2 DEF R!Search
  <2> QED BY <2>3 DEF one
<1>6. R!HintTrue'
  BY <1>1, <1>2, <1>5, HintStays
<1>7. ASSUME NEW g \in DOMAIN search'.groups PROVE R!Range(search'.groups[g]) \subseteq R!Standing
  <2>1. search'.groups[g] = merged
    BY <1>5, <1>7
  <2>2. R!Anywhere(search.groups) \subseteq R!Standing
    BY <1>1, <1>7 DEF R!FoundStands, R!Anywhere
  <2> QED BY <1>4, <2>1, <2>2
<1>8. Len(search'.groups) = 1
  BY <1>5
<1> QED BY <1>1, <1>2, <1>5, <1>6, <1>7, <1>8, GoesOn DEF R!FoundStands

(* A probe counts some of the scores, and all of them while none is cut off. *)
LEMMA ProbeCounts ==
  ASSUME Returned \in Nat, NEW scores \in Seq(Int), NEW floor \in Int, NEW best \in Int
  PROVE  LET relevant == {k \in R!Nearest(scores) : scores[k] >= floor}
             hint == R!HiddenProbe(scores, floor, best)
         IN  /\ hint \in R!Hint
             /\ relevant \subseteq DOMAIN scores
             /\ hint.passages = Cardinality(relevant) /\ hint.outranking <= hint.passages
             /\ hint.outranking = Cardinality({k \in relevant : scores[k] >= best})
             /\ Len(scores) <= Returned => R!Nearest(scores) = DOMAIN scores
<1> DEFINE relevant == {k \in R!Nearest(scores) : scores[k] >= floor}
           above == {k \in relevant : scores[k] >= best}
           hint == R!HiddenProbe(scores, floor, best)
<1>1. /\ hint = [passages |-> R!Cardinality(relevant), truncated |-> R!FullWindow(R!Cardinality(relevant)),
                 outranking |-> R!Cardinality(above)]
  BY DEF R!HiddenProbe
<1>2. IsFiniteSet(DOMAIN scores) /\ DOMAIN scores = 1 .. Len(scores) /\ Len(scores) \in Nat
  BY Places
<1>3. R!Nearest(scores) \subseteq DOMAIN scores
  BY DEF R!Nearest
<1>4. above \subseteq relevant /\ relevant \subseteq DOMAIN scores
  BY <1>3
<1> HIDE DEF above, relevant, hint
<1>5. /\ IsFiniteSet(relevant) /\ IsFiniteSet(above) /\ Cardinality(relevant) \in Nat /\ Cardinality(above) \in Nat
      /\ Cardinality(above) <= Cardinality(relevant)
  BY <1>2, <1>4, FS_Subset, FS_CardinalityType
<1>6. R!FullWindow(R!Cardinality(relevant)) \in BOOLEAN
  BY DEF R!FullWindow
<1>7. hint \in R!Hint /\ hint.passages = Cardinality(relevant) /\ hint.outranking = Cardinality(above)
  BY <1>1, <1>5, <1>6, SearchSizes DEF R!Hint
<1>8. ASSUME Len(scores) <= Returned, NEW k \in DOMAIN scores PROVE k \in R!Nearest(scores)
  <2> DEFINE ahead == {j \in DOMAIN scores : scores[j] > scores[k] \/ (scores[j] = scores[k] /\ j < k)}
  <2>1. ahead \subseteq DOMAIN scores \ {k}
    BY <1>2
  <2>2. k \in Nat /\ scores[k] \in Int
    BY <1>2
  <2>3. Cardinality(DOMAIN scores) = Len(scores)
    <3> DEFINE n == Len(scores)
    <3>1. n \in Nat /\ DOMAIN scores = 1 .. n
      BY <1>2
    <3> HIDE DEF n
    <3>2. Cardinality(1 .. n) = n
      BY <3>1, FS_Interval
    <3> QED BY <3>1, <3>2 DEF n
  <2>4. /\ Cardinality(DOMAIN scores \ {k}) = Len(scores) - 1
        /\ IsFiniteSet(DOMAIN scores \ {k})
    BY <1>2, <2>3, FS_RemoveElement
  <2> HIDE DEF ahead
  <2>5. Cardinality(ahead) <= Len(scores) - 1 /\ Cardinality(ahead) \in Nat
    BY <2>1, <2>4, FS_Subset, FS_CardinalityType
  <2>6. R!Cardinality(ahead) < Returned
    BY <1>2, <1>8, <2>5, SearchSizes
  <2> QED BY <2>6 DEF R!Nearest, ahead
<1> QED BY <1>3, <1>4, <1>5, <1>7, <1>8 DEF relevant, above, hint

LEMMA Floor ==
  ASSUME R!Settings, NEW best \in Int
  PROVE  LET floor == R!Max({Threshold, best - Margin})
         IN  floor \in Int /\ floor >= Threshold /\ (\A n \in Int : n >= Threshold /\ n >= best => n >= floor)
<1>1. Threshold \in Int /\ Margin \in Nat
  BY DEF R!Settings
<1> DEFINE a == Threshold  b == best - Margin
<1>2. a \in Int /\ b \in Int /\ b <= best
  BY <1>1
<1> HIDE DEF a, b
<1>3. \E x \in {a, b} : \A y \in {a, b} : x >= y
  BY <1>2
<1>4. R!Max({a, b}) \in {a, b} /\ \A y \in {a, b} : R!Max({a, b}) >= y
  BY <1>3 DEF R!Max
<1> DEFINE m == R!Max({a, b})
<1>5. m \in {a, b} /\ m >= a
  BY <1>4
<1> HIDE DEF m
<1>6. m \in Int /\ m >= a /\ \A n \in Int : n >= a /\ n >= best => n >= m
  BY <1>2, <1>5
<1> QED BY <1>6 DEF a, b, m

(* What a role is told after a probe is true when nothing has changed. *)
LEMMA ProbeKeeps == ASSUME R!Settings, R!IInv, R!Probe PROVE R!IInv'
<1>1. /\ search # Null /\ search \in R!Search /\ search.step = "probe" /\ R!FoundStands /\ R!InItsTurn /\ R!TypeOK
      /\ search.question \in R!Question /\ search.vector \in Seq(Passage)
  BY Searching DEF R!Probe
<1> DEFINE best == R!Best
           floor == R!Max({Threshold, best - Margin})
<1>2. PICK hits \in R!Found(R!Hidden, Returned) :
        /\ search' = [search EXCEPT !.step = "rank", !.hint = R!HiddenProbe(R!Told(hits), floor, best)]
        /\ UNCHANGED <<stored, ready, collection>>
  BY DEF R!Probe, R!Update
<1> DEFINE told == R!Told(hits)
           hint == R!HiddenProbe(told, floor, best)
           relevant == {k \in R!Nearest(told) : told[k] >= floor}
<1>3. Returned \in Nat /\ Near \in [R!Question -> [Passage -> Int]] /\ 1 \in R!Question
  BY DEF R!Settings, R!Question
<1>4. best \in Int
  BY <1>1, <1>3 DEF R!Best
<1>5. IsFiniteSet(R!Hidden) /\ R!Hidden \subseteq Passage /\ Cardinality(R!Hidden) \in Nat
  BY <1>1, PassagesFinite, FS_CardinalityType
<1>6. /\ hits \in Seq(R!Hidden) /\ DOMAIN hits = 1 .. Len(hits) /\ Len(hits) \in Nat
      /\ Len(hits) <= Returned /\ (Cardinality(R!Hidden) <= Returned => Len(hits) = Cardinality(R!Hidden))
      /\ \A i, j \in DOMAIN hits : hits[i] = hits[j] => i = j
  BY <1>3, <1>5, FoundIn
<1>7. told \in Seq(Int)
  <2>1. \A k \in DOMAIN hits : Near[1][hits[k]] \in Int
    BY <1>3, <1>5, <1>6
  <2>2. [k \in DOMAIN hits |-> Near[1][hits[k]]] \in Seq(Int)
    BY <1>6, <2>1, SeqDef
  <2> QED BY <2>2 DEF R!Told
<1> HIDE DEF best
<1>8. floor \in Int /\ floor >= Threshold /\ \A n \in Int : n >= Threshold /\ n >= best => n >= floor
  BY <1>4, Floor
<1> HIDE DEF floor, told
<1>9. /\ hint \in R!Hint /\ relevant \subseteq DOMAIN told
      /\ hint.passages = Cardinality(relevant) /\ hint.outranking <= hint.passages
      /\ hint.outranking = Cardinality({k \in relevant : told[k] >= best})
      /\ Len(told) <= Returned => R!Nearest(told) = DOMAIN told
  BY <1>3, <1>4, <1>7, <1>8, ProbeCounts
<1>10. R!Close' = R!Close /\ R!Hidden' = R!Hidden
  BY <1>2 DEF R!Close, R!Hidden, R!Searched, R!Visible
<1>11. search' = [search EXCEPT !.step = "rank", !.hint = hint]
  BY <1>2 DEF told
<1>15. told = IF Labels \subseteq Readable THEN <<>> ELSE [k \in DOMAIN hits |-> Near[1][hits[k]]]
  BY DEF told, R!Told
<1> HIDE DEF hint
<1>12. /\ search' \in R!Search /\ search'.step = "rank" /\ search'.groups = search.groups
       /\ search'.vector = search.vector /\ search'.words = search.words /\ search'.hint = hint
       /\ search'.question = search.question /\ search'.read = search.read
  BY <1>1, <1>9, <1>11 DEF R!Search
<1>13. ASSUME ~(Labels \subseteq Readable) PROVE R!HintOfHidden'
  <2>1. told = [k \in DOMAIN hits |-> Near[1][hits[k]]]
    BY <1>13, <1>15
  <2>2. DOMAIN told = DOMAIN hits /\ Len(told) = Len(hits) /\ \A k \in DOMAIN hits : told[k] = Near[1][hits[k]]
    BY <1>6, <1>7, <2>1
  <2>3. IsFiniteSet(R!Close) /\ R!Close \subseteq R!Hidden
    BY <1>5, FS_Subset DEF R!Close
  <2>4. \A k \in relevant : hits[k] \in R!Close
    <3> SUFFICES ASSUME NEW k \in relevant PROVE hits[k] \in R!Close
      OBVIOUS
    <3>1. k \in DOMAIN hits /\ told[k] >= floor /\ told[k] \in Int
      BY <1>7, <1>9, <2>2
    <3>2. Near[1][hits[k]] >= Threshold /\ hits[k] \in R!Hidden
      BY <1>3, <1>6, <1>8, <2>2, <3>1 DEF R!Settings
    <3> QED BY <3>2 DEF R!Close
  <2>5. Cardinality(relevant) <= Cardinality(R!Close)
    <3> HIDE DEF relevant
    <3> QED BY <1>6, <1>9, <2>2, <2>3, <2>4, CountOf
  <2> DEFINE above == {k \in relevant : told[k] >= best}
             nearer == {p \in R!Close : Near[1][p] >= best}
  <2>6. ASSUME Cardinality(R!Hidden) <= Returned PROVE Cardinality(above) = Cardinality(nearer)
    <3>1. R!Nearest(told) = DOMAIN hits /\ Len(hits) = Cardinality(R!Hidden)
      BY <1>6, <1>9, <2>2, <2>6
    <3>2. \A p \in R!Hidden : \E k \in DOMAIN hits : hits[k] = p
      <4>1. hits \in Injection(DOMAIN hits, R!Hidden)
        BY <1>6 DEF Injection, IsInjective
      <4>2. Cardinality(DOMAIN hits) = Cardinality(R!Hidden)
        <5> DEFINE n == Len(hits)
        <5>1. n \in Nat /\ DOMAIN hits = 1 .. n /\ n = Cardinality(R!Hidden)
          BY <1>6, <3>1
        <5> HIDE DEF n
        <5>2. Cardinality(1 .. n) = n
          BY <5>1, FS_Interval
        <5> QED BY <5>1, <5>2
      <4>3. hits \in Surjection(DOMAIN hits, R!Hidden)
        BY <1>5, <4>1, <4>2, FS_Injection
      <4> QED BY <4>3 DEF Surjection
    <3>3. IsFiniteSet(nearer) /\ nearer \subseteq R!Close
      BY <2>3, FS_Subset
    <3>4. \A k \in above : hits[k] \in nearer
      <4> SUFFICES ASSUME NEW k \in above PROVE hits[k] \in nearer
        OBVIOUS
      <4>1. hits[k] \in R!Close /\ k \in DOMAIN hits /\ told[k] >= best
        BY <1>9, <2>2, <2>4
      <4> QED BY <2>2, <4>1
    <3>5. ASSUME NEW p \in nearer PROVE \E k \in above : hits[k] = p
      <4>1. PICK k \in DOMAIN hits : hits[k] = p
        BY <2>3, <3>2, <3>5
      <4>2. Near[1][p] \in Int /\ Near[1][p] >= Threshold /\ Near[1][p] >= best
        BY <1>3, <1>5, <2>3, <3>5 DEF R!Close
      <4>3. told[k] >= floor /\ told[k] >= best
        BY <1>8, <2>2, <4>1, <4>2
      <4> QED BY <3>1, <4>1, <4>3
    <3>6. \A i, j \in above : hits[i] = hits[j] => i = j
      BY <1>6, <1>9, <2>2
    <3>7. \A p \in nearer : \E k \in above : hits[k] = p
      BY <3>5
    <3> DEFINE g == [k \in above |-> hits[k]]
    <3>8. g \in Injection(above, nearer)
      <4>1. g \in [above -> nearer]
        BY <3>4
      <4>2. \A i, j \in above : g[i] = g[j] => i = j
        BY <3>6
      <4> HIDE DEF g, above, nearer
      <4> QED BY <4>1, <4>2 DEF Injection, IsInjective
    <3>9. \A p \in nearer : \E k \in above : g[k] = p
      BY <3>7
    <3>10. IsFiniteSet(above)
      <4>1. above \subseteq DOMAIN told /\ IsFiniteSet(DOMAIN hits)
        BY <1>6, <1>9, Places
      <4> HIDE DEF above
      <4> QED BY <2>2, <4>1, FS_Subset
    <3> HIDE DEF g, above, nearer
    <3>11. ExistsBijection(above, nearer)
      BY <3>8, <3>9 DEF ExistsBijection, Bijection, Surjection, Injection
    <3> QED BY <3>10, <3>11, FS_Bijection
  <2>7. R!Best' = best
    BY <1>2, <1>12 DEF R!Best, best
  <2>8. R!HintOfHidden' =
          /\ search'.hint.passages <= R!Cardinality(R!Close)
          /\ search'.hint.outranking <= search'.hint.passages
          /\ (R!Cardinality(R!Hidden) <= Returned /\ R!At("rank")' /\ search'.question = 1) =>
               search'.hint.outranking = R!Cardinality(nearer)
    BY <1>10, <2>7 DEF R!HintOfHidden
  <2> QED BY <1>9, <1>12, <2>5, <2>6, <2>8, SearchSizes
<1>14. R!HintTrue'
  BY <1>13 DEF R!HintTrue
<1> QED BY <1>1, <1>2, <1>12, <1>14, GoesOn DEF R!FoundStands, R!InItsTurn

LEMMA SearchStep == ASSUME R!Settings, R!IInv, [R!Next]_(R!retrieval) PROVE R!IInv'
<1>1. CASE \E d \in R!Document :
             \/ R!Reset(d) \/ R!DeleteDocument(d)
             \/ \E new \in SUBSET Passage : R!StoreChunks(d, new)
             \/ \E old, new \in {{}} \cup {{p} : p \in FactPassages} : R!ReplaceFacts(d, old, new)
  BY <1>1, CorpusMovesOn
<1>2. CASE \E reveal \in BOOLEAN : R!Begin(reveal)
  BY <1>2, BeginKeeps
<1>3. CASE R!VectorSearch \/ R!FulltextSearch \/ R!Probe \/ R!Rank \/ R!NextFacet \/ R!Merge
  BY <1>3, VectorKeeps, WordsKeep, ProbeKeeps, RankKeeps, FacetKeeps, MergeKeeps
<1>4. CASE UNCHANGED R!retrieval
  <2>1. stored' = stored /\ ready' = ready /\ collection' = collection /\ search' = search
    BY <1>4 DEF R!retrieval
  <2> QED BY <2>1 DEF R!IInv, R!TypeOK, R!FoundStands, R!Standing, R!StillGeneration, R!StillVersion, R!InItsTurn, R!HintTrue, R!HintOfHidden,
                      R!Close, R!Hidden, R!Searched, R!Visible, R!At, R!Best
<1> QED BY <1>1, <1>2, <1>3, <1>4 DEF R!Next

(* Whatever becomes of the corpus while a query searches it, for any passages, labels and *)
(* scores: what an answer is made of is stored together, facts excepted, unless the data    *)
(* version has moved, which its record compares; with the facts unless the generation has;  *)
(* and a role is told of no more than is hidden from it.                                      *)
THEOREM AnswersOfOneCorpus == ASSUME R!Settings PROVE R!Spec => []RetrievalHolds
<1>1. R!Init => R!IInv
  BY SearchInit
<1>2. R!IInv /\ [R!Next]_(R!retrieval) => R!IInv'
  BY SearchStep
<1>3. R!IInv => RetrievalHolds
  <2> SUFFICES ASSUME R!IInv PROVE R!OneCorpus
    BY DEF RetrievalHolds, R!IInv
  <2> SUFFICES ASSUME R!At("answer") PROVE R!Range(search.groups[1]) \subseteq R!Standing
    BY DEF R!OneCorpus, R!Standing
  <2>1. search # Null /\ R!FoundStands /\ R!InItsTurn /\ search.step = "answer"
    BY DEF R!IInv, R!At
  <2>2. 1 \in DOMAIN search.groups
    <3>1. search.groups \in Seq(Seq(Passage)) /\ Len(search.groups) = 1
      BY <2>1, Searching DEF R!InItsTurn
    <3> QED BY <3>1
  <2> QED BY <2>1, <2>2 DEF R!FoundStands
<1> QED BY <1>1, <1>2, <1>3, PTL DEF R!Spec
=============================================================================
