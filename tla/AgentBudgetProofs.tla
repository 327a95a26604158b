-------------------------- MODULE AgentBudgetProofs --------------------------
(***************************************************************************)
(* Theorems about the budget ledger and the agent's handle on it, for every *)
(* tree of accounts, every set of metered dimensions and every number of    *)
(* attempts.  Amounts are reasoned about one dimension at a time.  All      *)
(* commands but five charge an account and its ancestors and change what    *)
(* one attempt still holds, so the sums over the tree and over the attempts *)
(* are carried once, for a charge.                                          *)
(***************************************************************************)
EXTENDS AgentBudget, RecursionTheorems, TLAPS

------------------------------------------------------------------------------
(* Types *)

AccountRecord ==
  [phase : AccountPhase, parent : Account \cup {None}, lineage : SUBSET Account,
   limits : Amounts, consumed : Amounts, operation_reserved : Amounts,
   child_delegated_remaining : Amounts]

Attempt ==
  [budget : Account, action : Action, consume_now : Amounts, reserve : Amounts,
   observed : Amounts, phase : ReservationPhase,
   activation_evidence : Evidence \cup {None},
   observation_evidence : Evidence \cup {None},
   final_evidence : Evidence \cup {None},
   final_reported : Amounts \cup {None},
   finality : {"Interim", "Final", None}]

Types == accounts \in [Account -> AccountRecord] /\ reservations \in Seq(Attempt)

Accts == [Account -> AccountRecord]

LEMMA AmountFacts ==
  /\ Zero \in Amounts
  /\ \A a, b \in Amounts : Plus(a, b) \in Amounts
  /\ \A a, b \in Amounts : FitsWithin(b, a) => Minus(a, b) \in Amounts
  BY DEF Amounts, Zero, Plus, Minus, FitsWithin

LEMMA UsageType == Usage \subseteq Amounts
  BY BudgetAssumption DEF Usage, Metered, Amounts, Dimension

LEMMA RequestType ==
  ASSUME NEW request \in Request, NEW retry \in BOOLEAN
  PROVE  /\ Plus(Metered(request.now), AttemptCharge(retry)) \in Amounts
         /\ Metered(request.ceiling) \in Amounts
         /\ Plus(Metered(request.now), AttemptCharge(retry))["Retries"] = IF retry THEN 1 ELSE 0
  <1>1. request.now \in [Resource -> Nat] /\ request.ceiling \in [Resource -> Nat]
    BY BudgetAssumption
  <1>2. Metered(request.now) \in Amounts /\ Metered(request.ceiling) \in Amounts
    BY <1>1 DEF Metered, Amounts
  <1>3. AttemptCharge(retry) \in Amounts
    BY DEF AttemptCharge, Amounts
  <1>4. "Retries" \in Dimension /\ "Retries" \notin Resource
    BY BudgetAssumption DEF Dimension
  <1>5. Metered(request.now)["Retries"] = 0 /\ AttemptCharge(retry)["Retries"] = IF retry THEN 1 ELSE 0
    BY <1>4 DEF Metered, AttemptCharge
  <1>6. QED
    BY <1>2, <1>3, <1>4, <1>5 DEF Plus, Amounts

\* What charge_lineage does to the amounts of the accounts X.
LEMMA ChargedFields ==
  ASSUME NEW X \in Accts, NEW a \in Account, NEW amount \in Amounts,
         \A b \in X[a].lineage \ {a} :
           FitsWithin(amount, X[b].child_delegated_remaining)
  PROVE  /\ Charged(X, a, amount) \in Accts
         /\ \A b \in Account :
              /\ Charged(X, a, amount)[b].phase = X[b].phase
              /\ Charged(X, a, amount)[b].parent = X[b].parent
              /\ Charged(X, a, amount)[b].lineage = X[b].lineage
              /\ Charged(X, a, amount)[b].limits = X[b].limits
              /\ Charged(X, a, amount)[b].operation_reserved = X[b].operation_reserved
              /\ Charged(X, a, amount)[b].consumed =
                   IF b = a \/ b \in X[a].lineage THEN Plus(X[b].consumed, amount)
                   ELSE X[b].consumed
              /\ Charged(X, a, amount)[b].child_delegated_remaining =
                   IF b \in X[a].lineage \ {a}
                   THEN Minus(X[b].child_delegated_remaining, amount)
                   ELSE X[b].child_delegated_remaining
              /\ b # a /\ b \notin X[a].lineage => Charged(X, a, amount)[b] = X[b]
  <1> SUFFICES ASSUME NEW b \in Account
               PROVE  /\ Charged(X, a, amount)[b] \in AccountRecord
                      /\ Charged(X, a, amount)[b].phase = X[b].phase
                      /\ Charged(X, a, amount)[b].parent = X[b].parent
                      /\ Charged(X, a, amount)[b].lineage = X[b].lineage
                      /\ Charged(X, a, amount)[b].limits = X[b].limits
                      /\ Charged(X, a, amount)[b].operation_reserved = X[b].operation_reserved
                      /\ Charged(X, a, amount)[b].consumed =
                           IF b = a \/ b \in X[a].lineage THEN Plus(X[b].consumed, amount)
                           ELSE X[b].consumed
                      /\ Charged(X, a, amount)[b].child_delegated_remaining =
                           IF b \in X[a].lineage \ {a}
                           THEN Minus(X[b].child_delegated_remaining, amount)
                           ELSE X[b].child_delegated_remaining
                      /\ b # a /\ b \notin X[a].lineage => Charged(X, a, amount)[b] = X[b]
    BY DEF Charged, Accts
  <1> DEFINE plus == Plus(X[b].consumed, amount)
             minus == Minus(X[b].child_delegated_remaining, amount)
  <1>1. X[b] \in AccountRecord
    BY DEF Accts
  <1>2. plus \in Amounts
    BY <1>1, AmountFacts DEF AccountRecord
  <1>3. b \in X[a].lineage \ {a} => minus \in Amounts
    BY <1>1, AmountFacts DEF AccountRecord
  <1>4. Charged(X, a, amount)[b] =
          IF b = a THEN [X[b] EXCEPT !.consumed = plus]
          ELSE IF b \in X[a].lineage
          THEN [X[b] EXCEPT !.consumed = plus, !.child_delegated_remaining = minus]
          ELSE X[b]
    BY <1>1 DEF Charged, AccountRecord
  <1> HIDE DEF plus, minus
  <1>5. CASE b = a
    <2>1. Charged(X, a, amount)[b] = [X[b] EXCEPT !.consumed = plus]
      BY <1>4, <1>5
    <2>2. QED
      BY <1>1, <1>2, <1>5, <2>1 DEF AccountRecord, plus
  <1>6. CASE b # a /\ b \in X[a].lineage
    <2>1. Charged(X, a, amount)[b] =
            [X[b] EXCEPT !.consumed = plus, !.child_delegated_remaining = minus]
      BY <1>4, <1>6
    <2>2. minus \in Amounts
      BY <1>3, <1>6
    <2>3. QED
      BY <1>1, <1>2, <1>6, <2>1, <2>2 DEF AccountRecord, plus, minus
  <1>7. CASE b # a /\ b \notin X[a].lineage
    BY <1>1, <1>4, <1>7
  <1>8. QED
    BY <1>5, <1>6, <1>7

\* What the release of an operation's reservation does to them.
LEMMA ReleasedFields ==
  ASSUME NEW X \in Accts, NEW a \in Account, NEW amount \in Amounts,
         FitsWithin(amount, X[a].operation_reserved)
  PROVE  /\ Released(X, a, amount) \in Accts
         /\ \A b \in Account \ {a} : Released(X, a, amount)[b] = X[b]
         /\ Released(X, a, amount)[a].phase = X[a].phase
         /\ Released(X, a, amount)[a].parent = X[a].parent
         /\ Released(X, a, amount)[a].lineage = X[a].lineage
         /\ Released(X, a, amount)[a].limits = X[a].limits
         /\ Released(X, a, amount)[a].consumed = X[a].consumed
         /\ Released(X, a, amount)[a].operation_reserved = Minus(X[a].operation_reserved, amount)
         /\ Released(X, a, amount)[a].child_delegated_remaining
              = X[a].child_delegated_remaining
  <1> DEFINE rest == Minus(X[a].operation_reserved, amount)
  <1>1. X[a] \in AccountRecord
    BY DEF Accts
  <1>2. rest \in Amounts
    BY <1>1, AmountFacts DEF AccountRecord
  <1>3. Released(X, a, amount) = [X EXCEPT ![a] = [X[a] EXCEPT !.operation_reserved = rest]]
    BY <1>1 DEF Released, Accts, AccountRecord
  <1> HIDE DEF rest
  <1>4. [X[a] EXCEPT !.operation_reserved = rest] \in AccountRecord
    BY <1>1, <1>2 DEF AccountRecord
  <1>5. /\ Released(X, a, amount) \in Accts
        /\ \A b \in Account \ {a} : Released(X, a, amount)[b] = X[b]
        /\ Released(X, a, amount)[a] = [X[a] EXCEPT !.operation_reserved = rest]
    BY <1>3, <1>4 DEF Accts
  <1>6. QED
    BY <1>1, <1>5 DEF AccountRecord, rest

------------------------------------------------------------------------------
(* The inductive invariant, over accounts X and attempts R *)

\* Accounts form a tree and each keeps its chain of ancestors.
Tree(X) ==
  \A a \in Account :
    /\ X[a].phase = "Absent" => X[a] = NoAccount
    /\ X[a].phase # "Absent" => a \in X[a].lineage
    /\ X[a].parent # None =>
         /\ X[X[a].parent].phase # "Absent"
         /\ a \notin X[X[a].parent].lineage
         /\ X[a].lineage = X[X[a].parent].lineage \cup {a}
    /\ \A b \in X[a].lineage :
         /\ X[b].phase # "Absent"
         /\ X[b].lineage \subseteq X[a].lineage
         /\ X[b].parent # a
         /\ b # a => \E c \in X[a].lineage : X[c].parent = b
         /\ \A c \in X[a].lineage : X[b].parent = X[c].parent => b = c

\* Accounts close bottom up, under no attempt, and an overrun shuts a lineage.
Lifecycles(X, R) ==
  /\ \A a \in Account :
       X[a].phase # "Closed" => \A b \in X[a].lineage : X[b].phase # "Closed"
  /\ \A i \in DOMAIN R :
       /\ X[R[i].budget].phase # "Absent"
       /\ Live(R[i]) => X[R[i].budget].phase # "Closed"
       /\ R[i].phase = "OverrunFaulted" =>
            \A b \in X[R[i].budget].lineage : X[b].phase \in {"Faulted", "Closed"}

OpenChildren(X, a) == {b \in Account : X[b].parent = a /\ X[b].phase # "Closed"}
Unspent(X, d) == [b \in Account |-> X[b].limits[d] - X[b].consumed[d]]

Work(R, a) == {i \in DOMAIN R : R[i].budget = a}
Held(R, d) == [i \in DOMAIN R |-> Outstanding(R[i])[d]]

Below(X, R, a) == {i \in DOMAIN R : a \in X[R[i].budget].lineage}
Spent(R, d) == [i \in DOMAIN R |-> R[i].consume_now[d] + R[i].observed[d]]

\* The stored amounts are the sums they stand for, within the limits.
Balanced(X, R) ==
  \A a \in Account, d \in Dimension :
    /\ X[a].child_delegated_remaining[d] = SumFunctionOnSet(Unspent(X, d), OpenChildren(X, a))
    /\ X[a].operation_reserved[d] = SumFunctionOnSet(Held(R, d), Work(R, a))
    /\ X[a].consumed[d] = SumFunctionOnSet(Spent(R, d), Below(X, R, a))
    /\ X[a].consumed[d] + X[a].operation_reserved[d] + X[a].child_delegated_remaining[d]
         <= X[a].limits[d]

Records(R) ==
  \A i \in DOMAIN R : RecordValidates(R[i]) /\ (Live(R[i]) => R[i].finality = None)

Tries(R, action) == {i \in DOMAIN R : R[i].action = action}
RetryCharges(R) == [i \in DOMAIN R |-> R[i].consume_now["Retries"]]

\* At most one attempt of an action is live; all but the first were retries.
Attempts(R) ==
  \A action \in Action :
    /\ \A i, j \in Tries(R, action) : Live(R[i]) /\ Live(R[j]) => i = j
    /\ Tries(R, action) # {} =>
         SumFunctionOnSet(RetryCharges(R), Tries(R, action))
           = Cardinality(Tries(R, action)) - 1

Handled(R, H) ==
  /\ H \in [Handles -> HandleState]
  /\ Len(R) <= MaxReservations
  /\ \A i \in Handles \ DOMAIN R : H[i] = "None"
  /\ \A i \in DOMAIN R :
       /\ H[i] = "Active" => R[i].activation_evidence # None
       /\ H[i] = "Settled" =>
            R[i].phase \in {"SettledFinal", "OverrunFaulted"} /\ R[i].finality = "Final"
       /\ H[i] = "Cancelled" => R[i].phase = "CancelledHeld"
       /\ H[i] = "Indeterminate" => R[i].phase = "SettledAmbiguous"

LedgerInv(X, R) ==
  /\ X \in Accts /\ R \in Seq(Attempt)
  /\ Tree(X) /\ Lifecycles(X, R) /\ Balanced(X, R) /\ Records(R) /\ Attempts(R)

------------------------------------------------------------------------------
(* Charging an account and its ancestors *)

\* X becomes Y when x spends delta and what is reserved for x changes by sigma.
Charge(X, Y, x, delta, sigma) ==
  /\ Y \in Accts
  /\ \A b \in Account :
       /\ Y[b].parent = X[b].parent
       /\ Y[b].lineage = X[b].lineage
       /\ Y[b].limits = X[b].limits
       /\ Y[b].phase = X[b].phase \/ (b \in X[x].lineage /\ Y[b].phase = "Faulted")
       /\ b \notin X[x].lineage => Y[b] = X[b]
  /\ \A b \in Account, d \in Dimension :
       /\ Y[b].consumed[d] = X[b].consumed[d] + IF b \in X[x].lineage THEN delta[d] ELSE 0
       /\ Y[b].operation_reserved[d] = X[b].operation_reserved[d] + IF b = x THEN sigma[d] ELSE 0
       /\ Y[b].child_delegated_remaining[d] =
            X[b].child_delegated_remaining[d]
              - IF b \in X[x].lineage \ {x} THEN delta[d] ELSE 0

\* x exists and neither it nor an ancestor is closed.
Chargeables(X, x) ==
  /\ X[x].phase # "Absent"
  /\ \A b \in X[x].lineage : X[b].phase # "Closed"

LEMMA FieldTypes ==
  ASSUME NEW X \in Accts, NEW a \in Account
  PROVE  /\ X[a].phase \in AccountPhase /\ X[a].parent \in Account \cup {None}
         /\ X[a].lineage \in SUBSET Account
         /\ X[a].limits \in Amounts /\ X[a].consumed \in Amounts
         /\ X[a].operation_reserved \in Amounts
         /\ X[a].child_delegated_remaining \in Amounts
         /\ \A d \in Dimension :
              /\ X[a].limits[d] \in Nat /\ X[a].consumed[d] \in Nat
              /\ X[a].operation_reserved[d] \in Nat
              /\ X[a].child_delegated_remaining[d] \in Nat
  BY DEF Accts, AccountRecord, Amounts

LEMMA ChildrenFinite ==
  ASSUME NEW X, NEW a
  PROVE  IsFiniteSet(OpenChildren(X, a)) /\ OpenChildren(X, a) \subseteq Account
  BY BudgetAssumption, FS_Subset DEF OpenChildren

LEMMA ChargeTree ==
  ASSUME NEW X \in Accts, NEW Y, NEW x \in Account, NEW delta, NEW sigma,
         Tree(X), X[x].phase # "Absent", Charge(X, Y, x, delta, sigma)
  PROVE  Tree(Y)
  <1>1. \A b \in Account : /\ Y[b].parent = X[b].parent
                           /\ Y[b].lineage = X[b].lineage
                           /\ X[b].lineage \subseteq Account
                           /\ X[b].parent \in Account \cup {None}
                           /\ Y[b].phase = "Absent" <=> X[b].phase = "Absent"
                           /\ X[b].phase = "Absent" => Y[b] = X[b]
    <2> SUFFICES ASSUME NEW b \in Account
                 PROVE  /\ Y[b].parent = X[b].parent
                        /\ Y[b].lineage = X[b].lineage
                        /\ X[b].lineage \subseteq Account
                        /\ X[b].parent \in Account \cup {None}
                        /\ Y[b].phase = "Absent" <=> X[b].phase = "Absent"
                        /\ X[b].phase = "Absent" => Y[b] = X[b]
      OBVIOUS
    <2>1. b \in X[x].lineage => X[b].phase # "Absent"
      BY DEF Tree
    <2>2. QED
      BY <2>1, FieldTypes DEF Charge
  <1>2. QED
    BY <1>1, BudgetAssumption DEF Tree

\* What the children of an account may still spend follows the charge.
LEMMA ChargeDelegated ==
  ASSUME NEW X \in Accts, NEW Y, NEW x \in Account,
         NEW delta \in Amounts, NEW sigma,
         Tree(X), Chargeables(X, x), Charge(X, Y, x, delta, sigma),
         NEW a \in Account, NEW d \in Dimension
  PROVE  SumFunctionOnSet(Unspent(Y, d), OpenChildren(Y, a)) =
           SumFunctionOnSet(Unspent(X, d), OpenChildren(X, a))
             - IF a \in X[x].lineage \ {x} THEN delta[d] ELSE 0
  <1> DEFINE S == OpenChildren(X, a)
             f == Unspent(X, d)
             e == Unspent(Y, d)
  <1>1. OpenChildren(Y, a) = S
    <2>1. \A b \in Account : Y[b].parent = X[b].parent
                               /\ (Y[b].phase = "Closed" <=> X[b].phase = "Closed")
      BY DEF Charge, Chargeables
    <2>2. QED
      BY <2>1 DEF OpenChildren
  <1>2. IsFiniteSet(S) /\ S \subseteq Account
    BY ChildrenFinite
  <1>3. Y \in Accts /\ delta[d] \in Nat
    BY DEF Charge, Amounts
  <1>4. \A b \in Account : /\ f[b] \in Int /\ e[b] \in Int
                           /\ e[b] = f[b] - IF b \in X[x].lineage THEN delta[d] ELSE 0
    <2> SUFFICES ASSUME NEW b \in Account
                 PROVE  /\ f[b] \in Int /\ e[b] \in Int
                        /\ e[b] = f[b] - IF b \in X[x].lineage THEN delta[d] ELSE 0
      OBVIOUS
    <2>1. /\ X[b].limits[d] \in Nat /\ X[b].consumed[d] \in Nat
          /\ Y[b].limits[d] \in Nat /\ Y[b].consumed[d] \in Nat
      BY <1>3, FieldTypes
    <2>2. /\ Y[b].limits = X[b].limits
          /\ Y[b].consumed[d] = X[b].consumed[d] + IF b \in X[x].lineage THEN delta[d] ELSE 0
      BY DEF Charge
    <2>3. QED
      BY <1>3, <2>1, <2>2 DEF Unspent
  <1>5. X[x].lineage \subseteq Account /\ X[a].parent \in Account \cup {None}
    BY FieldTypes
  <1>t. SumFunctionOnSet(f, S) \in Int
    <2>1. \A b \in S : f[b] \in Int
      BY <1>2, <1>4
    <2> HIDE DEF S, f
    <2>2. QED
      BY <1>2, <2>1, SumType
  <1>6. CASE a \in X[x].lineage \ {x}
    <2>1. PICK c \in X[x].lineage : X[c].parent = a
      BY <1>6 DEF Tree
    <2>2. c \in S
      BY <1>5, <2>1 DEF OpenChildren, Chargeables
    <2>3. \A b \in S \ {c} : b \notin X[x].lineage
      BY <1>2, <2>1 DEF Tree, OpenChildren
    <2>4. \A b \in S : f[b] \in Int /\ e[b] \in Int
      BY <1>2, <1>4
    <2>5. \A b \in S \ {c} : e[b] = f[b]
      BY <1>2, <1>4, <2>3
    <2>6. e[c] = f[c] - delta[d] /\ f[c] \in Int
      BY <1>2, <1>4, <2>1, <2>2
    <2> HIDE DEF S, f, e
    <2>7. SumFunctionOnSet(e, S) = SumFunctionOnSet(f, S) - f[c] + e[c]
      BY <1>2, <2>2, <2>4, <2>5, SumChange
    <2>8. QED
      BY <1>1, <1>3, <1>6, <1>t, <2>6, <2>7 DEF e, f, S
  <1>7. CASE a \notin X[x].lineage \ {x}
    <2>1. \A b \in S : b \notin X[x].lineage
      <3> SUFFICES ASSUME NEW b \in Account, b \in X[x].lineage, X[b].parent = a
                   PROVE  FALSE
        BY <1>2 DEF OpenChildren
      <3>1. a # x
        BY DEF Tree
      <3>2. X[a].phase # "Absent" /\ X[b].lineage = X[a].lineage \cup {b}
        BY BudgetAssumption DEF Tree
      <3>3. a \in X[b].lineage
        BY <3>2 DEF Tree
      <3>4. X[b].lineage \subseteq X[x].lineage
        BY DEF Tree
      <3>5. QED
        BY <1>7, <3>1, <3>3, <3>4
    <2>2. \A b \in S : e[b] = f[b]
      BY <1>2, <1>4, <2>1
    <2> HIDE DEF S, f, e
    <2>3. SumFunctionOnSet(e, S) = SumFunctionOnSet(f, S)
      BY <1>2, <2>2, SumSame
    <2>4. QED
      BY <1>1, <1>7, <1>t, <2>3 DEF e, f, S
  <1>8. QED
    BY <1>6, <1>7

\* The sums over the attempts after the charge, for the attempts S.
Follows(X, R, S, x, delta, sigma) ==
  \A a \in Account, d \in Dimension :
    /\ SumFunctionOnSet(Held(S, d), Work(S, a)) =
         SumFunctionOnSet(Held(R, d), Work(R, a)) + IF a = x THEN sigma[d] ELSE 0
    /\ SumFunctionOnSet(Spent(S, d), Below(X, S, a)) =
         SumFunctionOnSet(Spent(R, d), Below(X, R, a))
           + IF a \in X[x].lineage THEN delta[d] ELSE 0

LEMMA ChargeBalanced ==
  ASSUME NEW X \in Accts, NEW Y, NEW x \in Account, NEW R, NEW S \in Seq(Attempt),
         NEW delta \in Amounts, NEW sigma \in [Dimension -> Int],
         Tree(X), Chargeables(X, x), Charge(X, Y, x, delta, sigma),
         Balanced(X, R), Follows(X, R, S, x, delta, sigma),
         \A d \in Dimension : delta[d] + sigma[d] <=
           X[x].limits[d] - X[x].consumed[d] - X[x].operation_reserved[d]
             - X[x].child_delegated_remaining[d]
  PROVE  Balanced(Y, S)
  <1> SUFFICES ASSUME NEW a \in Account, NEW d \in Dimension
               PROVE  /\ Y[a].child_delegated_remaining[d]
                           = SumFunctionOnSet(Unspent(Y, d), OpenChildren(Y, a))
                      /\ Y[a].operation_reserved[d] = SumFunctionOnSet(Held(S, d), Work(S, a))
                      /\ Y[a].consumed[d] = SumFunctionOnSet(Spent(S, d), Below(Y, S, a))
                      /\ Y[a].consumed[d] + Y[a].operation_reserved[d]
                           + Y[a].child_delegated_remaining[d] <= Y[a].limits[d]
    BY DEF Balanced
  <1>1. Y \in Accts /\ delta[d] \in Nat /\ sigma[d] \in Int
    BY DEF Charge, Amounts
  <1>2. /\ X[a].limits[d] \in Nat /\ X[a].consumed[d] \in Nat
        /\ X[a].operation_reserved[d] \in Nat /\ X[a].child_delegated_remaining[d] \in Nat
    BY FieldTypes
  <1>3. /\ X[a].child_delegated_remaining[d]
             = SumFunctionOnSet(Unspent(X, d), OpenChildren(X, a))
        /\ X[a].operation_reserved[d] = SumFunctionOnSet(Held(R, d), Work(R, a))
        /\ X[a].consumed[d] = SumFunctionOnSet(Spent(R, d), Below(X, R, a))
        /\ X[a].consumed[d] + X[a].operation_reserved[d]
             + X[a].child_delegated_remaining[d] <= X[a].limits[d]
    BY DEF Balanced
  <1>4. /\ SumFunctionOnSet(Held(S, d), Work(S, a)) =
             SumFunctionOnSet(Held(R, d), Work(R, a)) + IF a = x THEN sigma[d] ELSE 0
        /\ SumFunctionOnSet(Spent(S, d), Below(X, S, a)) =
             SumFunctionOnSet(Spent(R, d), Below(X, R, a))
               + IF a \in X[x].lineage THEN delta[d] ELSE 0
    BY DEF Follows
  <1>5. Below(Y, S, a) = Below(X, S, a)
    <2>1. \A i \in DOMAIN S : S[i].budget \in Account
      <3>1. \A i \in DOMAIN S : S[i] \in Attempt
        OBVIOUS
      <3>2. QED
        BY <3>1 DEF Attempt
    <2>2. \A b \in Account : Y[b].lineage = X[b].lineage
      BY DEF Charge
    <2>3. QED
      BY <2>1, <2>2 DEF Below
  <1>6. SumFunctionOnSet(Unspent(Y, d), OpenChildren(Y, a)) =
           SumFunctionOnSet(Unspent(X, d), OpenChildren(X, a))
             - IF a \in X[x].lineage \ {x} THEN delta[d] ELSE 0
    BY ChargeDelegated
  <1>7. /\ Y[a].limits = X[a].limits
        /\ Y[a].consumed[d] = X[a].consumed[d] + IF a \in X[x].lineage THEN delta[d] ELSE 0
        /\ Y[a].operation_reserved[d] = X[a].operation_reserved[d] + IF a = x THEN sigma[d] ELSE 0
        /\ Y[a].child_delegated_remaining[d] =
             X[a].child_delegated_remaining[d]
               - IF a \in X[x].lineage \ {x} THEN delta[d] ELSE 0
    BY DEF Charge
  <1>8. delta[d] + sigma[d] <=
           X[x].limits[d] - X[x].consumed[d] - X[x].operation_reserved[d]
             - X[x].child_delegated_remaining[d]
    OBVIOUS
  <1>9. x \in X[x].lineage
    BY DEF Tree, Chargeables
  <1>10. Y[a].consumed[d] + Y[a].operation_reserved[d]
           + Y[a].child_delegated_remaining[d] <= Y[a].limits[d]
    <2>1. CASE a = x
      <3>1. /\ Y[a].consumed[d] = X[a].consumed[d] + delta[d]
            /\ Y[a].operation_reserved[d] = X[a].operation_reserved[d] + sigma[d]
            /\ Y[a].child_delegated_remaining[d] = X[a].child_delegated_remaining[d] - 0
        BY <1>7, <1>9, <2>1
      <3>2. delta[d] + sigma[d] <=
              X[a].limits[d] - X[a].consumed[d] - X[a].operation_reserved[d]
                - X[a].child_delegated_remaining[d]
        BY <1>8, <2>1
      <3>3. Y[a].limits[d] = X[a].limits[d]
        BY <1>7
      <3>4. delta[d] \in Int /\ sigma[d] \in Int
        BY <1>1
      <3>5. \A p, q, r, l \in Nat, u, v \in Int :
              u + v <= l - p - q - r => (p + u) + (q + v) + (r - 0) <= l
        OBVIOUS
      <3>6. (X[a].consumed[d] + delta[d]) + (X[a].operation_reserved[d] + sigma[d])
              + (X[a].child_delegated_remaining[d] - 0) <= X[a].limits[d]
        BY <1>2, <3>2, <3>4, <3>5
      <3>7. QED
        BY <3>1, <3>3, <3>6
    <2>2. CASE a # x /\ a \in X[x].lineage
      BY <1>1, <1>2, <1>3, <1>7, <2>2
    <2>3. CASE a # x /\ a \notin X[x].lineage
      BY <1>1, <1>2, <1>3, <1>7, <2>3
    <2>4. QED
      BY <2>1, <2>2, <2>3
  <1>11. QED
    BY <1>3, <1>4, <1>5, <1>6, <1>7, <1>10

------------------------------------------------------------------------------
(* What attempts hold and spend *)

LEMMA OutstandingType ==
  ASSUME NEW r \in Attempt, FitsWithin(r.observed, r.reserve)
  PROVE  /\ Outstanding(r) \in Amounts
         /\ FitsWithin(Outstanding(r), r.reserve)
  BY DEF Attempt, Amounts, FitsWithin, Outstanding, Zero, Minus

LEMMA AttemptTypes ==
  ASSUME NEW R \in Seq(Attempt), Records(R)
  PROVE  /\ IsFiniteSet(DOMAIN R)
         /\ \A i \in DOMAIN R :
              /\ R[i] \in Attempt /\ R[i].budget \in Account /\ R[i].action \in Action
              /\ FitsWithin(R[i].observed, R[i].reserve)
              /\ Outstanding(R[i]) \in Amounts
              /\ \A d \in Dimension : /\ Held(R, d)[i] \in Nat
                                      /\ Spent(R, d)[i] \in Nat
                                      /\ RetryCharges(R)[i] \in Nat
  <1>1. IsFiniteSet(DOMAIN R)
    <2>1. DOMAIN R = 1..Len(R) /\ Len(R) \in Nat
      OBVIOUS
    <2>2. QED
      BY <2>1, FS_Interval
  <1>2. SUFFICES ASSUME NEW i \in DOMAIN R
                 PROVE  /\ R[i] \in Attempt /\ R[i].budget \in Account /\ R[i].action \in Action
                        /\ FitsWithin(R[i].observed, R[i].reserve)
                        /\ Outstanding(R[i]) \in Amounts
                        /\ \A d \in Dimension : /\ Held(R, d)[i] \in Nat
                                                /\ Spent(R, d)[i] \in Nat
                                                /\ RetryCharges(R)[i] \in Nat
    BY <1>1
  <1>3. R[i] \in Attempt
    OBVIOUS
  <1>4. FitsWithin(R[i].observed, R[i].reserve)
    BY DEF Records, RecordValidates
  <1>5. Outstanding(R[i]) \in Amounts
    BY <1>3, <1>4, OutstandingType
  <1>6. /\ R[i].budget \in Account /\ R[i].action \in Action
        /\ R[i].observed \in Amounts /\ R[i].consume_now \in Amounts
    BY <1>3 DEF Attempt
  <1>7. "Retries" \in Dimension
    BY DEF Dimension
  <1>8. \A d \in Dimension : /\ Held(R, d)[i] \in Nat
                             /\ Spent(R, d)[i] \in Nat
                             /\ RetryCharges(R)[i] \in Nat
    BY <1>5, <1>6, <1>7 DEF Held, Spent, RetryCharges, Amounts
  <1>9. QED
    BY <1>3, <1>4, <1>5, <1>6, <1>8

\* The change of one attempt from R[i] to s, on what is held and spent.
LEMMA ChangeFollows ==
  ASSUME NEW X \in Accts, NEW R \in Seq(Attempt), Records(R),
         NEW i \in DOMAIN R, NEW s \in Attempt,
         s.budget = R[i].budget, s.consume_now = R[i].consume_now,
         RecordValidates(s), Live(s) => s.finality = None
  PROVE  Follows(X, R, [R EXCEPT ![i] = s], R[i].budget,
                 Minus(s.observed, R[i].observed), Minus(Outstanding(s), Outstanding(R[i])))
  <1> DEFINE S == [R EXCEPT ![i] = s]
             delta == Minus(s.observed, R[i].observed)
             sigma == Minus(Outstanding(s), Outstanding(R[i]))
             x == R[i].budget
  <1>1. S \in Seq(Attempt) /\ DOMAIN S = DOMAIN R /\ S[i] = s
          /\ \A j \in DOMAIN R \ {i} : S[j] = R[j]
    OBVIOUS
  <1>2. Records(S)
    BY <1>1 DEF Records
  <1>3. IsFiniteSet(DOMAIN R)
    BY AttemptTypes
  <1>4. \A j \in DOMAIN R : S[j].budget = R[j].budget
    BY <1>1
  <1>5. x \in Account
    BY AttemptTypes
  <1>6. SUFFICES ASSUME NEW a \in Account, NEW d \in Dimension
                 PROVE  /\ SumFunctionOnSet(Held(S, d), Work(S, a)) =
                             SumFunctionOnSet(Held(R, d), Work(R, a))
                               + IF a = x THEN sigma[d] ELSE 0
                        /\ SumFunctionOnSet(Spent(S, d), Below(X, S, a)) =
                             SumFunctionOnSet(Spent(R, d), Below(X, R, a))
                               + IF a \in X[x].lineage THEN delta[d] ELSE 0
    BY DEF Follows
  <1> DEFINE w == Work(R, a)  u == Below(X, R, a)
             h == Held(R, d)  k == Held(S, d)
             p == Spent(R, d)  q == Spent(S, d)
  <1>7. Work(S, a) = w /\ Below(X, S, a) = u
    BY <1>1, <1>4 DEF Work, Below
  <1>8. IsFiniteSet(w) /\ IsFiniteSet(u)
    BY <1>3, FS_Subset DEF Work, Below
  <1>9. \A j \in DOMAIN R : /\ h[j] \in Nat /\ k[j] \in Nat
                            /\ p[j] \in Nat /\ q[j] \in Nat
    BY <1>1, <1>2, AttemptTypes
  <1>10. \A j \in DOMAIN R \ {i} : k[j] = h[j] /\ q[j] = p[j]
    BY <1>1 DEF Held, Spent
  <1>11. k[i] - h[i] = sigma[d]
    BY <1>1 DEF Held, Minus
  <1>12. q[i] - p[i] = delta[d]
    <2>1. \A m, n, o \in Int : (m + n) - (m + o) = n - o
      OBVIOUS
    <2>2. /\ s.consume_now[d] \in Int /\ s.observed[d] \in Int /\ R[i].observed[d] \in Int
      <3>1. R[i] \in Attempt
        OBVIOUS
      <3>2. QED
        BY <3>1 DEF Attempt, Amounts
    <2>3. q[i] = s.consume_now[d] + s.observed[d] /\ p[i] = s.consume_now[d] + R[i].observed[d]
      BY <1>1 DEF Spent
    <2>4. delta[d] = s.observed[d] - R[i].observed[d]
      BY DEF Minus
    <2>5. (s.consume_now[d] + s.observed[d]) - (s.consume_now[d] + R[i].observed[d])
            = s.observed[d] - R[i].observed[d]
      BY <2>1, <2>2
    <2>6. QED
      BY <2>3, <2>4, <2>5
  <1>13. (i \in w <=> a = x) /\ (i \in u <=> a \in X[x].lineage)
    BY DEF Work, Below
  <1>14. w \subseteq DOMAIN R /\ u \subseteq DOMAIN R
    BY DEF Work, Below
  <1> HIDE DEF w, u, h, k, p, q, sigma, delta, S, x
  <1>15. SumFunctionOnSet(h, w) \in Int /\ SumFunctionOnSet(p, u) \in Int
    <2>1. (\A j \in w : h[j] \in Int) /\ (\A j \in u : p[j] \in Int)
      BY <1>9, <1>14
    <2>2. QED
      BY <1>8, <2>1, SumType
  <1>16. SumFunctionOnSet(k, w) = SumFunctionOnSet(h, w) + IF a = x THEN sigma[d] ELSE 0
    <2>1. CASE i \in w
      <3>1. \A j \in w : h[j] \in Int /\ k[j] \in Int
        BY <1>9, <1>14
      <3>2. \A j \in w \ {i} : k[j] = h[j]
        BY <1>10, <1>14
      <3>3. SumFunctionOnSet(k, w) = SumFunctionOnSet(h, w) - h[i] + k[i]
        BY <1>8, <2>1, <3>1, <3>2, SumChange
      <3>4. QED
        BY <1>11, <1>13, <1>15, <2>1, <3>1, <3>3
    <2>2. CASE i \notin w
      <3>1. \A j \in w : k[j] = h[j]
        BY <1>10, <1>14, <2>2
      <3>2. SumFunctionOnSet(k, w) = SumFunctionOnSet(h, w)
        BY <1>8, <3>1, SumSame
      <3>3. QED
        BY <1>13, <1>15, <2>2, <3>2
    <2>3. QED
      BY <2>1, <2>2
  <1>17. SumFunctionOnSet(q, u) = SumFunctionOnSet(p, u)
                                    + IF a \in X[x].lineage THEN delta[d] ELSE 0
    <2>1. CASE i \in u
      <3>1. \A j \in u : p[j] \in Int /\ q[j] \in Int
        BY <1>9, <1>14
      <3>2. \A j \in u \ {i} : q[j] = p[j]
        BY <1>10, <1>14
      <3>3. SumFunctionOnSet(q, u) = SumFunctionOnSet(p, u) - p[i] + q[i]
        BY <1>8, <2>1, <3>1, <3>2, SumChange
      <3>4. QED
        BY <1>12, <1>13, <1>15, <2>1, <3>1, <3>3
    <2>2. CASE i \notin u
      <3>1. \A j \in u : q[j] = p[j]
        BY <1>10, <1>14, <2>2
      <3>2. SumFunctionOnSet(q, u) = SumFunctionOnSet(p, u)
        BY <1>8, <3>1, SumSame
      <3>3. QED
        BY <1>13, <1>15, <2>2, <3>2
    <2>3. QED
      BY <2>1, <2>2
  <1>18. QED
    BY <1>7, <1>16, <1>17 DEF w, u, h, k, p, q

\* A new attempt, which has observed nothing yet.
LEMMA AppendFollows ==
  ASSUME NEW X \in Accts, NEW R \in Seq(Attempt), Records(R),
         NEW s \in Attempt, RecordValidates(s), s.finality = None,
         s.observed = Zero, Outstanding(s) = s.reserve
  PROVE  Follows(X, R, Append(R, s), s.budget, s.consume_now, s.reserve)
  <1> DEFINE S == Append(R, s)  i == Len(R) + 1  x == s.budget
  <1>1. /\ S \in Seq(Attempt) /\ DOMAIN S = DOMAIN R \cup {i} /\ S[i] = s
        /\ i \notin DOMAIN R /\ \A j \in DOMAIN R : S[j] = R[j]
    OBVIOUS
  <1>2. Records(S)
    BY <1>1 DEF Records
  <1>3. IsFiniteSet(DOMAIN R)
    BY AttemptTypes
  <1>6. SUFFICES ASSUME NEW a \in Account, NEW d \in Dimension
                 PROVE  /\ SumFunctionOnSet(Held(S, d), Work(S, a)) =
                             SumFunctionOnSet(Held(R, d), Work(R, a))
                               + IF a = x THEN s.reserve[d] ELSE 0
                        /\ SumFunctionOnSet(Spent(S, d), Below(X, S, a)) =
                             SumFunctionOnSet(Spent(R, d), Below(X, R, a))
                               + IF a \in X[x].lineage THEN s.consume_now[d] ELSE 0
    BY DEF Follows
  <1> DEFINE w == Work(R, a)  u == Below(X, R, a)
             h == Held(R, d)  k == Held(S, d)
             p == Spent(R, d)  q == Spent(S, d)
  <1>7. /\ Work(S, a) = IF a = x THEN w \cup {i} ELSE w
        /\ Below(X, S, a) = IF a \in X[x].lineage THEN u \cup {i} ELSE u
    BY <1>1 DEF Work, Below
  <1>8. IsFiniteSet(w) /\ IsFiniteSet(u)
    BY <1>3, FS_Subset DEF Work, Below
  <1>9. \A j \in DOMAIN R : /\ h[j] \in Nat /\ k[j] \in Nat
                            /\ p[j] \in Nat /\ q[j] \in Nat
    <2>1. \A j \in DOMAIN R : h[j] \in Nat /\ p[j] \in Nat
      BY AttemptTypes
    <2>2. \A j \in DOMAIN S : k[j] \in Nat /\ q[j] \in Nat
      BY <1>1, <1>2, AttemptTypes
    <2>3. QED
      BY <1>1, <2>1, <2>2
  <1>10. \A j \in DOMAIN R : k[j] = h[j] /\ q[j] = p[j]
    BY <1>1 DEF Held, Spent
  <1>11. k[i] = s.reserve[d] /\ q[i] = s.consume_now[d]
    <2>1. s.consume_now[d] \in Nat /\ s.observed[d] = 0
      BY DEF Attempt, Amounts, Zero
    <2>2. QED
      BY <1>1, <2>1 DEF Held, Spent
  <1>12. s.reserve[d] \in Nat /\ s.consume_now[d] \in Nat
    BY DEF Attempt, Amounts
  <1>14. w \subseteq DOMAIN R /\ u \subseteq DOMAIN R /\ i \notin w /\ i \notin u
    BY <1>1 DEF Work, Below
  <1> HIDE DEF w, u, h, k, p, q, S, x, i
  <1>15. /\ SumFunctionOnSet(h, w) = SumFunctionOnSet(k, w)
         /\ SumFunctionOnSet(p, u) = SumFunctionOnSet(q, u)
    <2>1. (\A j \in w : h[j] = k[j]) /\ (\A j \in u : p[j] = q[j])
      BY <1>10, <1>14
    <2>2. QED
      BY <1>8, <2>1, SumSame
  <1>16. SumFunctionOnSet(k, w) \in Int /\ SumFunctionOnSet(q, u) \in Int
    <2>1. (\A j \in w : k[j] \in Int) /\ (\A j \in u : q[j] \in Int)
      BY <1>9, <1>14
    <2>2. QED
      BY <1>8, <2>1, SumType
  <1>17. SumFunctionOnSet(k, w \cup {i}) = s.reserve[d] + SumFunctionOnSet(k, w)
    <2>1. \A j \in w \cup {i} : k[j] \in Int
      BY <1>9, <1>11, <1>12, <1>14
    <2>2. QED
      BY <1>8, <1>11, <1>14, <2>1, SumAdd
  <1>18. SumFunctionOnSet(q, u \cup {i}) = s.consume_now[d] + SumFunctionOnSet(q, u)
    <2>1. \A j \in u \cup {i} : q[j] \in Int
      BY <1>9, <1>11, <1>12, <1>14
    <2>2. QED
      BY <1>8, <1>11, <1>14, <2>1, SumAdd
  <1>19. SumFunctionOnSet(k, Work(S, a)) = SumFunctionOnSet(h, w)
                                             + IF a = x THEN s.reserve[d] ELSE 0
    BY <1>7, <1>12, <1>15, <1>16, <1>17
  <1>20. SumFunctionOnSet(q, Below(X, S, a)) =
           SumFunctionOnSet(p, u) + IF a \in X[x].lineage THEN s.consume_now[d] ELSE 0
    BY <1>7, <1>12, <1>15, <1>16, <1>18
  <1>21. QED
    BY <1>19, <1>20 DEF w, u, h, k, p, q

------------------------------------------------------------------------------
(* The ceiling can be paid *)

\* An account still holds what each of its live attempts may cost.
LEMMA CeilingHeld ==
  ASSUME NEW X \in Accts, NEW R \in Seq(Attempt), Records(R), Balanced(X, R),
         NEW i \in DOMAIN R
  PROVE  FitsWithin(Outstanding(R[i]), X[R[i].budget].operation_reserved)
  <1> SUFFICES ASSUME NEW d \in Dimension
               PROVE  Outstanding(R[i])[d] <= X[R[i].budget].operation_reserved[d]
    BY DEF FitsWithin
  <1> DEFINE w == Work(R, R[i].budget)
             h == Held(R, d)
  <1>1. IsFiniteSet(w) /\ w \subseteq DOMAIN R /\ i \in w
    BY AttemptTypes, FS_Subset DEF Work
  <1>2. \A j \in w : h[j] \in Nat
    BY <1>1, AttemptTypes
  <1>3. h[i] = Outstanding(R[i])[d]
    BY DEF Held
  <1>4. X[R[i].budget].operation_reserved[d] = SumFunctionOnSet(h, w)
    BY AttemptTypes DEF Balanced
  <1> HIDE DEF w, h
  <1>5. SumFunctionOnSet(h, w) = h[i] + SumFunctionOnSet(h, w \ {i})
    BY <1>1, <1>2, SumRemove
  <1>6. SumFunctionOnSet(h, w \ {i}) \in Int /\ SumFunctionOnSet(h, w \ {i}) >= 0
    <2>1. IsFiniteSet(w \ {i})
      BY <1>1, FS_RemoveElement
    <2>2. \A j \in w \ {i} : h[j] \in Int /\ h[j] >= 0
      BY <1>2
    <2>3. QED
      BY <2>1, <2>2, SumType
  <1>7. QED
    BY <1>1, <1>2, <1>3, <1>4, <1>5, <1>6

\* An account has delegated what each of its open children may still spend.
LEMMA ChildDelegated ==
  ASSUME NEW X \in Accts, NEW R, Balanced(X, R),
         NEW a \in Account, NEW b \in Account, X[b].parent = a, X[b].phase # "Closed",
         NEW d \in Dimension
  PROVE  X[b].limits[d] - X[b].consumed[d] <= X[a].child_delegated_remaining[d]
  <1> DEFINE w == OpenChildren(X, a)
             h == Unspent(X, d)
  <1>1. IsFiniteSet(w) /\ w \subseteq Account /\ b \in w
    BY ChildrenFinite DEF OpenChildren
  <1>2. \A c \in Account : h[c] \in Int /\ h[c] >= 0
    <2> SUFFICES ASSUME NEW c \in Account
                 PROVE  h[c] \in Int /\ h[c] >= 0
      OBVIOUS
    <2>1. /\ X[c].limits[d] \in Nat /\ X[c].consumed[d] \in Nat
          /\ X[c].operation_reserved[d] \in Nat /\ X[c].child_delegated_remaining[d] \in Nat
      BY FieldTypes
    <2>2. X[c].consumed[d] + X[c].operation_reserved[d] + X[c].child_delegated_remaining[d]
            <= X[c].limits[d]
      BY DEF Balanced
    <2>3. X[c].limits[d] - X[c].consumed[d] \in Int /\ X[c].limits[d] - X[c].consumed[d] >= 0
      BY <2>1, <2>2
    <2>4. QED
      BY <2>3 DEF Unspent
  <1>3. h[b] = X[b].limits[d] - X[b].consumed[d]
    BY DEF Unspent
  <1>4. X[a].child_delegated_remaining[d] = SumFunctionOnSet(h, w)
    BY DEF Balanced
  <1> HIDE DEF w, h
  <1>5. SumFunctionOnSet(h, w) = h[b] + SumFunctionOnSet(h, w \ {b})
    BY <1>1, <1>2, SumRemove
  <1>6. SumFunctionOnSet(h, w \ {b}) \in Int /\ SumFunctionOnSet(h, w \ {b}) >= 0
    <2>1. IsFiniteSet(w \ {b})
      BY <1>1, FS_RemoveElement
    <2>2. \A j \in w \ {b} : h[j] \in Int /\ h[j] >= 0
      BY <1>1, <1>2
    <2>3. QED
      BY <2>1, <2>2, SumType
  <1>7. h[b] \in Int
    BY <1>1, <1>2
  <1>8. QED
    BY <1>3, <1>4, <1>5, <1>6, <1>7

\* And so has every ancestor: by induction up the chain of parents.
LEMMA AncestorDelegated ==
  ASSUME NEW X \in Accts, NEW R, Tree(X), Balanced(X, R),
         NEW x \in Account, Chargeables(X, x),
         NEW a \in X[x].lineage \ {x}, NEW d \in Dimension
  PROVE  X[x].limits[d] - X[x].consumed[d] <= X[a].child_delegated_remaining[d]
  <1> DEFINE Pays(b) == X[x].limits[d] - X[x].consumed[d] <= X[b].child_delegated_remaining[d]
             Size == Cardinality(Account)
             Bad == {n \in Nat : \E b \in X[x].lineage \ {x} :
                                   n = Size - Cardinality(X[b].lineage) /\ ~Pays(b)}
  <1>1. \A b \in Account : /\ IsFiniteSet(X[b].lineage)
                           /\ Cardinality(X[b].lineage) \in Nat
                           /\ Cardinality(X[b].lineage) <= Size
                           /\ Size \in Nat
    BY BudgetAssumption, FS_Subset, FS_CardinalityType, FieldTypes
  <1>2. X[x].lineage \subseteq Account
    BY FieldTypes
  <1>3. SUFFICES Bad = {}
    <2>1. a \in Account
      BY <1>2
    <2>2. Size - Cardinality(X[a].lineage) \in Nat
      BY <1>1, <2>1
    <2>3. QED
      BY <1>3, <2>2
  <1>4. SUFFICES ASSUME Bad # {}
                 PROVE  FALSE
    OBVIOUS
  <1>5. PICK n \in Bad : \A m \in Bad : n <= m
    <2>1. Bad \subseteq Nat
      OBVIOUS
    <2> HIDE DEF Bad
    <2>2. QED
      BY <1>4, <2>1, LeastNatural
  <1>6. PICK b \in X[x].lineage \ {x} : n = Size - Cardinality(X[b].lineage) /\ ~Pays(b)
    BY <1>5
  <1>7. PICK c \in X[x].lineage : X[c].parent = b
    BY <1>6 DEF Tree
  <1>8. b \in Account /\ c \in Account /\ X[c].phase # "Closed"
    BY <1>2, <1>6, <1>7 DEF Chargeables
  <1>9. X[c].limits[d] - X[c].consumed[d] <= X[b].child_delegated_remaining[d]
    BY <1>7, <1>8, ChildDelegated
  <1>10. c # x
    BY <1>6, <1>9
  <1>11. Cardinality(X[c].lineage) = Cardinality(X[b].lineage) + 1
    <2>1. X[c].lineage = X[b].lineage \cup {c} /\ c \notin X[b].lineage
      BY <1>7, <1>8, BudgetAssumption DEF Tree
    <2>2. QED
      BY <1>1, <1>8, <2>1, FS_AddElement
  <1>12. Pays(c)
    <2>1. SUFFICES ASSUME ~Pays(c)
                   PROVE  FALSE
      OBVIOUS
    <2>2. Size - Cardinality(X[c].lineage) \in Nat
      BY <1>1, <1>8
    <2>3. Size - Cardinality(X[c].lineage) \in Bad
      BY <1>10, <2>1, <2>2
    <2>4. n <= Size - Cardinality(X[c].lineage)
      BY <1>5, <2>3
    <2>5. QED
      BY <1>1, <1>6, <1>8, <1>11, <2>4
  <1>13. X[c].child_delegated_remaining[d] <= X[c].limits[d] - X[c].consumed[d]
    <2>1. /\ X[c].limits[d] \in Nat /\ X[c].consumed[d] \in Nat
          /\ X[c].operation_reserved[d] \in Nat /\ X[c].child_delegated_remaining[d] \in Nat
      BY <1>8, FieldTypes
    <2>2. X[c].consumed[d] + X[c].operation_reserved[d] + X[c].child_delegated_remaining[d]
            <= X[c].limits[d]
      BY <1>8 DEF Balanced
    <2>3. QED
      BY <2>1, <2>2
  <1>14. /\ X[c].limits[d] \in Nat /\ X[c].consumed[d] \in Nat
         /\ X[x].limits[d] \in Nat /\ X[x].consumed[d] \in Nat
         /\ X[c].child_delegated_remaining[d] \in Nat /\ X[b].child_delegated_remaining[d] \in Nat
    BY <1>8, FieldTypes
  <1>15. QED
    BY <1>6, <1>9, <1>12, <1>13, <1>14

\* What a live attempt may still cost, each ancestor has delegated.
LEMMA CeilingDelegated ==
  ASSUME NEW X \in Accts, NEW R \in Seq(Attempt),
         Tree(X), Records(R), Balanced(X, R),
         NEW i \in DOMAIN R, Chargeables(X, R[i].budget),
         NEW a \in X[R[i].budget].lineage \ {R[i].budget}
  PROVE  FitsWithin(Outstanding(R[i]), X[a].child_delegated_remaining)
  <1> DEFINE x == R[i].budget
  <1> SUFFICES ASSUME NEW d \in Dimension
               PROVE  Outstanding(R[i])[d] <= X[a].child_delegated_remaining[d]
    BY DEF FitsWithin
  <1>1. x \in Account /\ Outstanding(R[i])[d] \in Nat
    BY AttemptTypes DEF Amounts
  <1>2. a \in Account
    BY <1>1, FieldTypes
  <1>3. X[x].limits[d] - X[x].consumed[d] <= X[a].child_delegated_remaining[d]
    BY <1>1, AncestorDelegated
  <1>4. Outstanding(R[i])[d] <= X[x].operation_reserved[d]
    BY CeilingHeld DEF FitsWithin
  <1>5. X[x].consumed[d] + X[x].operation_reserved[d] + X[x].child_delegated_remaining[d]
          <= X[x].limits[d]
    BY <1>1 DEF Balanced
  <1>6. /\ X[x].limits[d] \in Nat /\ X[x].consumed[d] \in Nat
        /\ X[x].operation_reserved[d] \in Nat /\ X[x].child_delegated_remaining[d] \in Nat
        /\ X[a].child_delegated_remaining[d] \in Nat
    BY <1>1, <1>2, FieldTypes
  <1>7. \A l, c, o, e, f \in Nat, m \in Nat :
          l - c <= f /\ m <= o /\ c + o + e <= l => m <= f
    OBVIOUS
  <1> HIDE DEF x
  <1>8. QED
    BY <1>1, <1>3, <1>4, <1>5, <1>6, <1>7

------------------------------------------------------------------------------
(* The two ways in which attempts change *)

\* How a live attempt r may become s.
Advance(r, s) ==
  /\ s \in Attempt
  /\ s.budget = r.budget /\ s.action = r.action
  /\ s.consume_now = r.consume_now /\ s.reserve = r.reserve
  /\ FitsWithin(r.observed, s.observed)
  /\ r.activation_evidence # None => s.activation_evidence # None
  /\ RecordValidates(s)
  /\ Live(s) => s.finality = None

\* Attempt i of R becomes s, and what it spends and holds less is charged.
Settles(X, R, Y, S, i, s) ==
  /\ i \in DOMAIN R
  /\ Live(R[i])
  /\ Advance(R[i], s)
  /\ S = [R EXCEPT ![i] = s]
  /\ Charge(X, Y, R[i].budget, Minus(s.observed, R[i].observed),
            Minus(Outstanding(s), Outstanding(R[i])))
  /\ s.phase = "OverrunFaulted" =>
       \A b \in X[R[i].budget].lineage : Y[b].phase = "Faulted"

\* The attempt s begins in an account that is open up to the root.
Begins(X, R, Y, S, s) ==
  /\ s \in Attempt
  /\ RecordValidates(s) /\ s.finality = None
  /\ s.phase # "OverrunFaulted"
  /\ s.observed = Zero /\ Outstanding(s) = s.reserve
  /\ \A j \in Tries(R, s.action) : ~Live(R[j])
  /\ s.consume_now["Retries"] = IF Tries(R, s.action) = {} THEN 0 ELSE 1
  /\ S = Append(R, s)
  /\ X[s.budget].phase = "Open"
  /\ \A b \in X[s.budget].lineage : X[b].phase = "Open"
  /\ \A d \in Dimension : s.consume_now[d] + s.reserve[d] <=
       X[s.budget].limits[d] - X[s.budget].consumed[d]
         - X[s.budget].operation_reserved[d] - X[s.budget].child_delegated_remaining[d]
  /\ Charge(X, Y, s.budget, s.consume_now, s.reserve)

LEMMA ChargeCloses ==
  ASSUME NEW X \in Accts, NEW Y, NEW x \in Account, NEW delta, NEW sigma,
         Tree(X), Chargeables(X, x), Charge(X, Y, x, delta, sigma)
  PROVE  \A b \in Account :
           /\ Y[b].lineage = X[b].lineage
           /\ Y[b].phase = "Closed" <=> X[b].phase = "Closed"
           /\ Y[b].phase = "Absent" <=> X[b].phase = "Absent"
           /\ X[b].phase \in {"Faulted", "Closed"} => Y[b].phase \in {"Faulted", "Closed"}
  BY DEF Charge, Chargeables, Tree

LEMMA SettlesChargeable ==
  ASSUME NEW X, NEW R, LedgerInv(X, R), NEW i \in DOMAIN R, Live(R[i])
  PROVE  R[i].budget \in Account /\ Chargeables(X, R[i].budget)
  <1>1. R[i].budget \in Account
    BY AttemptTypes DEF LedgerInv
  <1>2. QED
    BY <1>1 DEF LedgerInv, Lifecycles, Chargeables

\* A settlement frees at least what it spends.
LEMMA SettlesFrees ==
  ASSUME NEW X, NEW R, NEW Y, NEW S, NEW i, NEW s,
         LedgerInv(X, R), Settles(X, R, Y, S, i, s)
  PROVE  /\ Minus(s.observed, R[i].observed) \in Amounts
         /\ Minus(Outstanding(s), Outstanding(R[i])) \in [Dimension -> Int]
         /\ \A d \in Dimension :
              Minus(s.observed, R[i].observed)[d] + Minus(Outstanding(s), Outstanding(R[i]))[d]
                <= 0
  <1> DEFINE delta == Minus(s.observed, R[i].observed)
             sigma == Minus(Outstanding(s), Outstanding(R[i]))
  <1>1. R \in Seq(Attempt) /\ Records(R)
    BY DEF LedgerInv
  <1>2. /\ i \in DOMAIN R /\ Live(R[i]) /\ s \in Attempt
        /\ s.reserve = R[i].reserve
        /\ FitsWithin(R[i].observed, s.observed) /\ RecordValidates(s)
    BY DEF Settles, Advance
  <1>3. /\ Outstanding(s) \in Amounts /\ Outstanding(R[i]) \in Amounts
        /\ s.observed \in Amounts /\ R[i].observed \in Amounts
        /\ s.reserve \in Amounts
        /\ FitsWithin(s.observed, s.reserve)
    <2>1. FitsWithin(s.observed, s.reserve)
      BY <1>2 DEF RecordValidates
    <2>2. R[i] \in Attempt
      BY <1>1, <1>2
    <2>3. QED
      BY <1>1, <1>2, <2>1, <2>2, AttemptTypes, OutstandingType DEF Attempt
  <1>4. delta \in Amounts /\ sigma \in [Dimension -> Int]
    BY <1>2, <1>3, AmountFacts DEF Minus, Amounts
  <1>5. ASSUME NEW d \in Dimension
        PROVE  delta[d] + sigma[d] <= 0
    <2>1. Outstanding(R[i])[d] = s.reserve[d] - R[i].observed[d]
      BY <1>2 DEF Outstanding, Minus
    <2>2. Outstanding(s)[d] <= s.reserve[d] - s.observed[d]
      <3>1. s.reserve[d] - s.observed[d] >= 0 /\ s.reserve[d] - s.observed[d] \in Int
        BY <1>3 DEF FitsWithin, Amounts
      <3>2. QED
        BY <3>1 DEF Outstanding, Minus, Zero
    <2>3. delta[d] = s.observed[d] - R[i].observed[d]
            /\ sigma[d] = Outstanding(s)[d] - Outstanding(R[i])[d]
      BY DEF Minus
    <2>4. /\ s.observed[d] \in Int /\ R[i].observed[d] \in Int /\ s.reserve[d] \in Int
          /\ Outstanding(s)[d] \in Int /\ Outstanding(R[i])[d] \in Int
      BY <1>3 DEF Amounts
    <2>5. \A o, p, r, m \in Int : m <= r - o => (o - p) + (m - (r - p)) <= 0
      OBVIOUS
    <2>6. QED
      BY <2>1, <2>2, <2>3, <2>4, <2>5
  <1>6. QED
    BY <1>4, <1>5

LEMMA SettlesInv ==
  ASSUME NEW X, NEW R, NEW Y, NEW S, NEW i, NEW s,
         LedgerInv(X, R), Settles(X, R, Y, S, i, s)
  PROVE  LedgerInv(Y, S)
  <1> DEFINE x == R[i].budget
             delta == Minus(s.observed, R[i].observed)
             sigma == Minus(Outstanding(s), Outstanding(R[i]))
  <1>1. /\ X \in Accts /\ R \in Seq(Attempt) /\ Tree(X) /\ Lifecycles(X, R)
        /\ Balanced(X, R) /\ Records(R) /\ Attempts(R)
    BY DEF LedgerInv
  <1>2. /\ i \in DOMAIN R /\ Live(R[i]) /\ Advance(R[i], s) /\ s \in Attempt
        /\ S = [R EXCEPT ![i] = s] /\ Charge(X, Y, x, delta, sigma)
        /\ s.phase = "OverrunFaulted" => \A b \in X[x].lineage : Y[b].phase = "Faulted"
        /\ s.budget = R[i].budget /\ s.action = R[i].action
        /\ s.consume_now = R[i].consume_now /\ s.reserve = R[i].reserve
        /\ FitsWithin(R[i].observed, s.observed) /\ RecordValidates(s)
        /\ Live(s) => s.finality = None
    BY DEF Settles, Advance
  <1>3. /\ S \in Seq(Attempt) /\ DOMAIN S = DOMAIN R /\ S[i] = s
        /\ \A j \in DOMAIN R \ {i} : S[j] = R[j]
    BY <1>1, <1>2
  <1>4. x \in Account /\ Chargeables(X, x)
    BY <1>2, SettlesChargeable
  <1>5. Y \in Accts
    BY <1>2 DEF Charge
  <1>6. Records(S)
    BY <1>1, <1>2, <1>3 DEF Records
  <1>8. delta \in Amounts /\ sigma \in [Dimension -> Int]
    BY SettlesFrees
  <1>9. \A d \in Dimension : delta[d] + sigma[d] <=
           X[x].limits[d] - X[x].consumed[d] - X[x].operation_reserved[d]
             - X[x].child_delegated_remaining[d]
    <2> SUFFICES ASSUME NEW d \in Dimension
                 PROVE  delta[d] + sigma[d] <=
                          X[x].limits[d] - X[x].consumed[d] - X[x].operation_reserved[d]
                            - X[x].child_delegated_remaining[d]
      OBVIOUS
    <2>1. delta[d] + sigma[d] <= 0
      BY SettlesFrees
    <2>2. 0 <= X[x].limits[d] - X[x].consumed[d] - X[x].operation_reserved[d]
                 - X[x].child_delegated_remaining[d]
      <3>1. X[x].consumed[d] + X[x].operation_reserved[d] + X[x].child_delegated_remaining[d]
              <= X[x].limits[d]
        BY <1>1, <1>4 DEF Balanced
      <3>2. /\ X[x].limits[d] \in Nat /\ X[x].consumed[d] \in Nat
            /\ X[x].operation_reserved[d] \in Nat /\ X[x].child_delegated_remaining[d] \in Nat
        BY <1>1, <1>4, FieldTypes
      <3> HIDE DEF x
      <3>3. QED
        BY <3>1, <3>2
    <2>3. /\ X[x].limits[d] \in Nat /\ X[x].consumed[d] \in Nat
          /\ X[x].operation_reserved[d] \in Nat /\ X[x].child_delegated_remaining[d] \in Nat
          /\ delta[d] \in Int /\ sigma[d] \in Int
      BY <1>1, <1>4, <1>8, FieldTypes DEF Amounts
    <2> HIDE DEF x, delta, sigma
    <2>4. QED
      BY <2>1, <2>2, <2>3
  <1>10. Follows(X, R, S, x, delta, sigma)
    BY <1>1, <1>2, ChangeFollows
  <1>11. Balanced(Y, S) /\ Tree(Y)
    <2> HIDE DEF x, delta, sigma
    <2>1. Balanced(Y, S)
      BY <1>1, <1>2, <1>3, <1>4, <1>8, <1>9, <1>10, ChargeBalanced
    <2>2. QED
      BY <1>1, <1>2, <1>4, <2>1, ChargeTree DEF Chargeables
  <1>12. Lifecycles(Y, S)
    <2> HIDE DEF x, delta, sigma
    <2>1. \A b \in Account :
           /\ Y[b].lineage = X[b].lineage /\ X[b].lineage \subseteq Account
           /\ Y[b].phase = "Closed" <=> X[b].phase = "Closed"
           /\ Y[b].phase = "Absent" <=> X[b].phase = "Absent"
           /\ X[b].phase \in {"Faulted", "Closed"} => Y[b].phase \in {"Faulted", "Closed"}
      BY <1>1, <1>2, <1>4, ChargeCloses, FieldTypes
    <2>2. \A a \in Account :
            Y[a].phase # "Closed" => \A b \in Y[a].lineage : Y[b].phase # "Closed"
      BY <1>1, <2>1 DEF Lifecycles
    <2>3. ASSUME NEW j \in DOMAIN S
          PROVE  /\ Y[S[j].budget].phase # "Absent"
                 /\ Live(S[j]) => Y[S[j].budget].phase # "Closed"
                 /\ S[j].phase = "OverrunFaulted" =>
                      \A b \in Y[S[j].budget].lineage : Y[b].phase \in {"Faulted", "Closed"}
      <3>1. R[j].budget \in Account /\ S[j].budget = R[j].budget /\ j \in DOMAIN R
        BY <1>1, <1>2, <1>3, <2>3, AttemptTypes
      <3>2. X[R[j].budget].phase # "Absent"
        BY <1>1, <3>1 DEF Lifecycles
      <3>3. CASE j = i
        <4>1. X[R[j].budget].phase # "Closed"
          BY <1>1, <1>2, <3>1, <3>3 DEF Lifecycles
        <4>2. S[j].phase = "OverrunFaulted" =>
                \A b \in Y[S[j].budget].lineage : Y[b].phase \in {"Faulted", "Closed"}
          BY <1>2, <1>3, <2>1, <3>1, <3>3 DEF x
        <4>3. QED
          BY <2>1, <3>1, <3>2, <4>1, <4>2
      <3>4. CASE j # i
        <4>1. S[j] = R[j]
          BY <1>3, <3>1, <3>4
        <4>2. /\ Live(R[j]) => X[R[j].budget].phase # "Closed"
              /\ R[j].phase = "OverrunFaulted" =>
                   \A b \in X[R[j].budget].lineage : X[b].phase \in {"Faulted", "Closed"}
          BY <1>1, <3>1 DEF Lifecycles
        <4>3. QED
          BY <2>1, <3>1, <3>2, <4>1, <4>2
      <3>5. QED
        BY <3>3, <3>4
    <2>4. QED
      BY <2>2, <2>3 DEF Lifecycles
  <1>13. Attempts(S)
    <2>1. \A action \in Action : Tries(S, action) = Tries(R, action)
      BY <1>2, <1>3 DEF Tries
    <2>2. RetryCharges(S) = RetryCharges(R)
      BY <1>2, <1>3 DEF RetryCharges
    <2>3. \A j \in DOMAIN R : Live(S[j]) => Live(R[j])
      BY <1>2, <1>3
    <2>4. \A action \in Action : Tries(R, action) \subseteq DOMAIN R
      BY DEF Tries
    <2>5. QED
      BY <1>1, <2>1, <2>2, <2>3, <2>4 DEF Attempts
  <1>14. QED
    BY <1>3, <1>5, <1>6, <1>11, <1>12, <1>13 DEF LedgerInv

LEMMA BeginsInv ==
  ASSUME NEW X, NEW R, NEW Y, NEW S, NEW s,
         LedgerInv(X, R), Begins(X, R, Y, S, s)
  PROVE  LedgerInv(Y, S)
  <1> DEFINE x == s.budget
             i == Len(R) + 1
  <1>1. /\ X \in Accts /\ R \in Seq(Attempt) /\ Tree(X) /\ Lifecycles(X, R)
        /\ Balanced(X, R) /\ Records(R) /\ Attempts(R)
    BY DEF LedgerInv
  <1>2. /\ s \in Attempt /\ RecordValidates(s) /\ s.phase # "OverrunFaulted"
        /\ s.finality = None
        /\ s.observed = Zero /\ Outstanding(s) = s.reserve
        /\ \A j \in Tries(R, s.action) : ~Live(R[j])
        /\ s.consume_now["Retries"] = IF Tries(R, s.action) = {} THEN 0 ELSE 1
        /\ S = Append(R, s)
        /\ X[x].phase = "Open" /\ \A b \in X[x].lineage : X[b].phase = "Open"
        /\ Charge(X, Y, x, s.consume_now, s.reserve)
    BY DEF Begins
  <1>3. /\ S \in Seq(Attempt) /\ DOMAIN S = DOMAIN R \cup {i} /\ S[i] = s
        /\ i \notin DOMAIN R /\ \A j \in DOMAIN R : S[j] = R[j]
    BY <1>1, <1>2
  <1>4. /\ x \in Account /\ s.consume_now \in Amounts /\ s.reserve \in Amounts
        /\ s.reserve \in [Dimension -> Int]
    BY <1>2 DEF Attempt, Amounts
  <1>5. Chargeables(X, x)
    BY <1>2 DEF Chargeables
  <1>6. Y \in Accts
    BY <1>2 DEF Charge
  <1>7. Records(S)
    BY <1>1, <1>2, <1>3 DEF Records
  <1>8. Balanced(Y, S)
    <2>1. Follows(X, R, S, x, s.consume_now, s.reserve)
      BY <1>1, <1>2, AppendFollows
    <2>2. \A d \in Dimension : s.consume_now[d] + s.reserve[d] <=
            X[x].limits[d] - X[x].consumed[d] - X[x].operation_reserved[d]
              - X[x].child_delegated_remaining[d]
      BY DEF Begins
    <2> HIDE DEF x
    <2>3. QED
      BY <1>1, <1>2, <1>3, <1>4, <1>5, <2>1, <2>2, ChargeBalanced
  <1>9. Tree(Y)
    BY <1>1, <1>2, <1>4, ChargeTree
  <1>10. Lifecycles(Y, S)
    <2>1. \A b \in Account :
           /\ Y[b].lineage = X[b].lineage /\ X[b].lineage \subseteq Account
           /\ Y[b].phase = "Closed" <=> X[b].phase = "Closed"
           /\ Y[b].phase = "Absent" <=> X[b].phase = "Absent"
           /\ X[b].phase \in {"Faulted", "Closed"} => Y[b].phase \in {"Faulted", "Closed"}
      BY <1>1, <1>2, <1>4, <1>5, ChargeCloses, FieldTypes
    <2>2. \A a \in Account :
            Y[a].phase # "Closed" => \A b \in Y[a].lineage : Y[b].phase # "Closed"
      BY <1>1, <2>1 DEF Lifecycles
    <2>3. ASSUME NEW j \in DOMAIN S
          PROVE  /\ Y[S[j].budget].phase # "Absent"
                 /\ Live(S[j]) => Y[S[j].budget].phase # "Closed"
                 /\ S[j].phase = "OverrunFaulted" =>
                      \A b \in Y[S[j].budget].lineage : Y[b].phase \in {"Faulted", "Closed"}
      <3>1. CASE j = i
        <4>1. S[j] = s
          BY <1>3, <3>1
        <4>2. Y[x].phase # "Absent" /\ Y[x].phase # "Closed"
          BY <1>2, <1>4, <2>1
        <4>3. QED
          BY <1>2, <4>1, <4>2
      <3>2. CASE j # i
        <4>1. S[j] = R[j] /\ j \in DOMAIN R /\ R[j].budget \in Account
          BY <1>1, <1>3, <2>3, <3>2, AttemptTypes
        <4>2. /\ X[R[j].budget].phase # "Absent"
              /\ Live(R[j]) => X[R[j].budget].phase # "Closed"
              /\ R[j].phase = "OverrunFaulted" =>
                   \A b \in X[R[j].budget].lineage : X[b].phase \in {"Faulted", "Closed"}
          BY <1>1, <4>1 DEF Lifecycles
        <4>3. QED
          BY <2>1, <4>1, <4>2
      <3>3. QED
        BY <3>1, <3>2
    <2>4. QED
      BY <2>2, <2>3 DEF Lifecycles
  <1>11. Attempts(S)
    <2> SUFFICES ASSUME NEW action \in Action
                 PROVE  /\ \A j, k \in Tries(S, action) : Live(S[j]) /\ Live(S[k]) => j = k
                        /\ Tries(S, action) # {} =>
                             SumFunctionOnSet(RetryCharges(S), Tries(S, action))
                               = Cardinality(Tries(S, action)) - 1
      BY DEF Attempts
    <2> DEFINE T == Tries(R, action)
               f == RetryCharges(R)
               e == RetryCharges(S)
    <2>1. /\ \A j, k \in T : Live(R[j]) /\ Live(R[k]) => j = k
          /\ T # {} => SumFunctionOnSet(f, T) = Cardinality(T) - 1
          /\ T \subseteq DOMAIN R /\ i \notin T
      BY <1>1, <1>3 DEF Attempts, Tries
    <2>2. Tries(S, action) = IF s.action = action THEN T \cup {i} ELSE T
      BY <1>3 DEF Tries
    <2>3. IsFiniteSet(T) /\ Cardinality(T) \in Nat
      <3>1. IsFiniteSet(DOMAIN R)
        BY <1>1, AttemptTypes
      <3>2. QED
        BY <2>1, <3>1, FS_Subset, FS_CardinalityType
    <2>4. \A j \in T : f[j] = e[j] /\ e[j] \in Int
      <3>1. \A j \in DOMAIN R : RetryCharges(R)[j] \in Nat
        <4>1. "Attempts" \in Dimension
          BY DEF Dimension
        <4>2. QED
          BY <1>1, <4>1, AttemptTypes
      <3>2. \A j \in DOMAIN R : f[j] = e[j]
        BY <1>3 DEF RetryCharges
      <3>3. QED
        BY <2>1, <3>1, <3>2
    <2>5. e[i] = s.consume_now["Retries"]
      BY <1>3 DEF RetryCharges
    <2>6. \A j, k \in Tries(S, action) : Live(S[j]) /\ Live(S[k]) => j = k
      BY <1>2, <1>3, <2>1, <2>2
    <2> HIDE DEF T, f, e, i
    <2>7. SumFunctionOnSet(e, T) = SumFunctionOnSet(f, T)
      BY <2>3, <2>4, SumSame
    <2>8. CASE s.action # action
      BY <2>1, <2>2, <2>6, <2>7, <2>8 DEF e
    <2>9. CASE s.action = action
      <3>1. s.consume_now["Retries"] = IF T = {} THEN 0 ELSE 1
        BY <1>2, <2>9 DEF T
      <3>2. Cardinality(T \cup {i}) = Cardinality(T) + 1
        BY <2>1, <2>3, FS_AddElement
      <3>3. SumFunctionOnSet(e, T \cup {i}) = e[i] + SumFunctionOnSet(e, T)
        <4>1. \A j \in T \cup {i} : e[j] \in Int
          BY <2>4, <2>5, <3>1
        <4>2. QED
          BY <2>1, <2>3, <4>1, SumAdd
      <3>4. SumFunctionOnSet(e, T \cup {i}) = Cardinality(T \cup {i}) - 1
        <4>1. CASE T = {}
          <5>1. SumFunctionOnSet(e, T) = 0 /\ Cardinality(T) = 0
            BY <4>1, SumEmpty, FS_EmptySet
          <5>2. QED
            BY <2>5, <3>1, <3>2, <3>3, <4>1, <5>1
        <4>2. CASE T # {}
          BY <2>1, <2>3, <2>5, <2>7, <3>1, <3>2, <3>3, <4>2
        <4>3. QED
          BY <4>1, <4>2
      <3>5. QED
        BY <2>2, <2>6, <2>9, <3>4 DEF e
    <2>10. QED
      BY <2>8, <2>9
  <1>12. QED
    BY <1>3, <1>6, <1>7, <1>8, <1>9, <1>10, <1>11 DEF LedgerInv

------------------------------------------------------------------------------
(* Opening, sealing and closing accounts *)

Allocates(X, Y, c, p, limits) ==
  /\ X[c].phase = "Absent"
  /\ X[p].phase = "Open" /\ \A b \in X[p].lineage : X[b].phase = "Open"
  /\ \A d \in Dimension : limits[d] <=
       X[p].limits[d] - X[p].consumed[d] - X[p].operation_reserved[d]
         - X[p].child_delegated_remaining[d]
  /\ Y \in Accts
  /\ \A b \in Account \ {c, p} : Y[b] = X[b]
  /\ Y[c] = NewAccount(p, X[p].lineage \cup {c}, limits)
  /\ Y[p] = [X[p] EXCEPT !.child_delegated_remaining =
                           Plus(X[p].child_delegated_remaining, limits)]

LEMMA AllocatesFields ==
  ASSUME NEW X \in Accts, NEW Y, NEW c \in Account, NEW p \in Account,
         NEW limits \in Amounts, Tree(X), Allocates(X, Y, c, p, limits)
  PROVE  /\ c # p /\ Y \in Accts
         /\ X[c] = NoAccount
         /\ \A b \in Account : c \notin X[b].lineage /\ X[b].parent # c
         /\ \A b \in Account \ {c} :
              /\ Y[b].phase = X[b].phase /\ Y[b].parent = X[b].parent
              /\ Y[b].lineage = X[b].lineage /\ Y[b].limits = X[b].limits
         /\ Y[c].phase = "Open" /\ Y[c].parent = p
         /\ Y[c].lineage = X[p].lineage \cup {c} /\ Y[c].limits = limits
  <1>1. c # p /\ Y \in Accts
    BY DEF Allocates
  <1>2. X[c] = NoAccount
    BY DEF Allocates, Tree
  <1>3. \A b \in Account : c \notin X[b].lineage /\ X[b].parent # c
    BY BudgetAssumption DEF Allocates, Tree
  <1>4. /\ Y[c].phase = "Open" /\ Y[c].parent = p
        /\ Y[c].lineage = X[p].lineage \cup {c} /\ Y[c].limits = limits
    BY DEF Allocates, NewAccount
  <1>5. /\ Y[p].phase = X[p].phase /\ Y[p].parent = X[p].parent
        /\ Y[p].lineage = X[p].lineage /\ Y[p].limits = X[p].limits
    <2>1. X[p] \in AccountRecord
      BY DEF Accts
    <2>2. QED
      BY <2>1 DEF Allocates, AccountRecord
  <1>6. \A b \in Account \ {c, p} : Y[b] = X[b]
    BY DEF Allocates
  <1>7. QED
    BY <1>1, <1>2, <1>3, <1>4, <1>5, <1>6

LEMMA AllocatesAmounts ==
  ASSUME NEW X \in Accts, NEW Y, NEW c \in Account, NEW p \in Account,
         NEW limits \in Amounts, Tree(X), Allocates(X, Y, c, p, limits)
  PROVE  /\ \A b \in Account :
              /\ Y[b].consumed = X[b].consumed
              /\ Y[b].operation_reserved = X[b].operation_reserved
              /\ b # p => Y[b].child_delegated_remaining = X[b].child_delegated_remaining
         /\ \A d \in Dimension :
              /\ limits[d] \in Nat
              /\ Y[p].child_delegated_remaining[d]
                   = X[p].child_delegated_remaining[d] + limits[d]
  <1>1. X[c] = NoAccount /\ c # p
    BY DEF Allocates, Tree
  <1>2. /\ Y[c].consumed = Zero /\ Y[c].operation_reserved = Zero
        /\ Y[c].child_delegated_remaining = Zero
    BY DEF Allocates, NewAccount
  <1>3. /\ X[c].consumed = Zero /\ X[c].operation_reserved = Zero
        /\ X[c].child_delegated_remaining = Zero
    BY <1>1 DEF NoAccount, NewAccount
  <1>4. /\ Y[p].consumed = X[p].consumed
        /\ Y[p].operation_reserved = X[p].operation_reserved
        /\ Y[p].child_delegated_remaining = Plus(X[p].child_delegated_remaining, limits)
    <2>1. X[p] \in AccountRecord
      BY DEF Accts
    <2>2. QED
      BY <2>1 DEF Allocates, AccountRecord
  <1>5. \A b \in Account \ {c, p} : Y[b] = X[b]
    BY DEF Allocates
  <1>6. \A d \in Dimension :
              /\ limits[d] \in Nat
              /\ Y[p].child_delegated_remaining[d]
                   = X[p].child_delegated_remaining[d] + limits[d]
    BY <1>4 DEF Plus, Amounts
  <1>7. QED
    BY <1>2, <1>3, <1>4, <1>5, <1>6

LEMMA AllocatesInv ==
  ASSUME NEW X, NEW R, NEW Y, NEW c \in Account, NEW p \in Account,
         NEW limits \in Amounts, LedgerInv(X, R), Allocates(X, Y, c, p, limits)
  PROVE  LedgerInv(Y, R)
  <1>1. /\ X \in Accts /\ R \in Seq(Attempt) /\ Tree(X) /\ Lifecycles(X, R)
        /\ Balanced(X, R) /\ Records(R) /\ Attempts(R)
    BY DEF LedgerInv
  <1>2. /\ c # p /\ Y \in Accts
        /\ X[c] = NoAccount
        /\ \A b \in Account : c \notin X[b].lineage /\ X[b].parent # c
        /\ \A b \in Account \ {c} :
             /\ Y[b].phase = X[b].phase /\ Y[b].parent = X[b].parent
             /\ Y[b].lineage = X[b].lineage /\ Y[b].limits = X[b].limits
        /\ Y[c].phase = "Open" /\ Y[c].parent = p
        /\ Y[c].lineage = X[p].lineage \cup {c} /\ Y[c].limits = limits
    BY <1>1, AllocatesFields
  <1>3. /\ \A b \in Account :
              /\ Y[b].consumed = X[b].consumed
              /\ Y[b].operation_reserved = X[b].operation_reserved
              /\ b # p => Y[b].child_delegated_remaining = X[b].child_delegated_remaining
        /\ \A d \in Dimension :
              /\ limits[d] \in Nat
              /\ Y[p].child_delegated_remaining[d]
                   = X[p].child_delegated_remaining[d] + limits[d]
    BY <1>1, AllocatesAmounts
  <1>4. /\ X[p].phase = "Open" /\ \A b \in X[p].lineage : X[b].phase = "Open"
        /\ \A b \in Account \ {c, p} : Y[b] = X[b]
    BY DEF Allocates
  <1>5. \A b \in Account : X[b].lineage \subseteq Account
                             /\ X[b].parent \in Account \cup {None}
    BY <1>1, FieldTypes
  <1>6. Tree(Y)
    <2> SUFFICES ASSUME NEW a \in Account
                 PROVE  /\ Y[a].phase = "Absent" => Y[a] = NoAccount
                        /\ Y[a].phase # "Absent" => a \in Y[a].lineage
                        /\ Y[a].parent # None =>
                             /\ Y[Y[a].parent].phase # "Absent"
                             /\ a \notin Y[Y[a].parent].lineage
                             /\ Y[a].lineage = Y[Y[a].parent].lineage \cup {a}
                        /\ \A b \in Y[a].lineage :
                             /\ Y[b].phase # "Absent"
                             /\ Y[b].lineage \subseteq Y[a].lineage
                             /\ Y[b].parent # a
                             /\ b # a => \E e \in Y[a].lineage : Y[e].parent = b
                             /\ \A e \in Y[a].lineage : Y[b].parent = Y[e].parent => b = e
      BY DEF Tree
    <2>1. \A b \in X[p].lineage : b \in Account \ {c}
      BY <1>2, <1>5
    <2>2. p \in X[p].lineage
      BY <1>1, <1>4 DEF Tree
    <2>3. CASE a = c
      <3>1. /\ Y[a].parent = p /\ Y[p].phase # "Absent" /\ Y[p].lineage = X[p].lineage
            /\ c \notin X[p].lineage /\ Y[a].phase = "Open"
        BY <1>2, <1>4, <2>3
      <3>2. ASSUME NEW b \in Y[a].lineage
            PROVE  /\ Y[b].phase # "Absent"
                   /\ Y[b].lineage \subseteq Y[a].lineage
                   /\ Y[b].parent # a
                   /\ b # a => \E e \in Y[a].lineage : Y[e].parent = b
                   /\ \A e \in Y[a].lineage : Y[b].parent = Y[e].parent => b = e
        <4>1. CASE b = c
          <5>1. \A e \in X[p].lineage : X[e].parent # p
            BY <1>1 DEF Tree
          <5>2. \A e \in Y[a].lineage : Y[b].parent = Y[e].parent => b = e
            BY <1>2, <2>1, <2>3, <4>1, <5>1
          <5>3. QED
            BY <1>2, <2>3, <4>1, <5>2
        <4>2. CASE b \in X[p].lineage
          <5>1. /\ X[b].phase # "Absent" /\ X[b].lineage \subseteq X[p].lineage
                /\ X[b].parent # p /\ b # c /\ b \in Account
                /\ b # p => \E e \in X[p].lineage : X[e].parent = b
                /\ \A e \in X[p].lineage : X[b].parent = X[e].parent => b = e
            BY <1>1, <2>1, <4>2 DEF Tree
          <5>2. Y[b].phase = X[b].phase /\ Y[b].lineage = X[b].lineage
                  /\ Y[b].parent = X[b].parent
            BY <1>2, <5>1
          <5>3. \E e \in Y[a].lineage : Y[e].parent = b
            <6>1. CASE b = p
              BY <1>2, <2>3, <6>1
            <6>2. CASE b # p
              <7>1. PICK e \in X[p].lineage : X[e].parent = b
                BY <5>1, <6>2
              <7>2. e \in Y[a].lineage /\ Y[e].parent = b
                BY <1>2, <2>1, <2>3, <7>1
              <7>3. QED
                BY <7>2
            <6>3. QED
              BY <6>1, <6>2
          <5>4. \A e \in Y[a].lineage : Y[b].parent = Y[e].parent => b = e
            BY <1>2, <2>1, <2>3, <5>1, <5>2
          <5>5. QED
            BY <1>2, <2>3, <5>1, <5>2, <5>3, <5>4
        <4>3. QED
          BY <1>2, <2>3, <4>1, <4>2
      <3>3. QED
        BY <1>2, <2>3, <3>1, <3>2
    <2>4. CASE a # c
      <3>1. /\ Y[a].phase = X[a].phase /\ Y[a].parent = X[a].parent
            /\ Y[a].lineage = X[a].lineage /\ X[a].parent # c
        BY <1>2, <2>4
      <3>2. Y[a].phase = "Absent" => Y[a] = NoAccount
        <4>1. X[a].phase = "Absent" => X[a] = NoAccount
          BY <1>1 DEF Tree
        <4>2. a # p => Y[a] = X[a]
          BY <1>4, <2>4
        <4>3. a = p => Y[a].phase # "Absent"
          BY <1>4, <3>1
        <4>4. QED
          BY <3>1, <4>1, <4>2, <4>3
      <3>3. Y[a].parent # None =>
               /\ Y[Y[a].parent].phase # "Absent"
               /\ a \notin Y[Y[a].parent].lineage
               /\ Y[a].lineage = Y[Y[a].parent].lineage \cup {a}
        <4> SUFFICES ASSUME X[a].parent # None
                     PROVE  /\ Y[X[a].parent].phase # "Absent"
                            /\ a \notin Y[X[a].parent].lineage
                            /\ X[a].lineage = Y[X[a].parent].lineage \cup {a}
          BY <3>1
        <4>1. X[a].parent \in Account \ {c}
          BY <1>5, <3>1
        <4>2. /\ X[X[a].parent].phase # "Absent"
              /\ a \notin X[X[a].parent].lineage
              /\ X[a].lineage = X[X[a].parent].lineage \cup {a}
          BY <1>1 DEF Tree
        <4>3. QED
          BY <1>2, <4>1, <4>2
      <3>4. \A b \in X[a].lineage : b \in Account /\ b # c
        BY <1>2, <1>5
      <3>5. \A b \in X[a].lineage : /\ Y[b].phase = X[b].phase /\ Y[b].lineage = X[b].lineage
                                    /\ Y[b].parent = X[b].parent
        BY <1>2, <3>4
      <3>6. \A b \in X[a].lineage :
               /\ X[b].phase # "Absent"
               /\ X[b].lineage \subseteq X[a].lineage
               /\ X[b].parent # a
               /\ b # a => \E e \in X[a].lineage : X[e].parent = b
               /\ \A e \in X[a].lineage : X[b].parent = X[e].parent => b = e
        BY <1>1 DEF Tree
      <3>7. X[a].phase # "Absent" => a \in X[a].lineage
        BY <1>1 DEF Tree
      <3>8. QED
        BY <3>1, <3>2, <3>3, <3>5, <3>6, <3>7
    <2>5. QED
      BY <2>3, <2>4
  <1>7. \A j \in DOMAIN R : R[j].budget \in Account /\ R[j].budget # c
    <2>1. \A j \in DOMAIN R : R[j].budget \in Account /\ X[R[j].budget].phase # "Absent"
      BY <1>1, AttemptTypes DEF Lifecycles
    <2>2. QED
      BY <2>1 DEF Allocates
  <1>8. Lifecycles(Y, R)
    <2>1. ASSUME NEW a \in Account, Y[a].phase # "Closed", NEW b \in Y[a].lineage
          PROVE  Y[b].phase # "Closed"
      <3>1. CASE a = c
        BY <1>2, <1>4, <1>5, <2>1, <3>1
      <3>2. CASE a # c
        <4>1. Y[a].phase = X[a].phase /\ Y[a].lineage = X[a].lineage
          BY <1>2, <3>2
        <4>2. b \in Account \ {c} /\ X[b].phase # "Closed"
          BY <1>1, <1>2, <1>5, <2>1, <4>1 DEF Lifecycles
        <4>3. QED
          BY <1>2, <4>2
      <3>3. QED
        BY <3>1, <3>2
    <2>2. ASSUME NEW j \in DOMAIN R
          PROVE  /\ Y[R[j].budget].phase # "Absent"
                 /\ Live(R[j]) => Y[R[j].budget].phase # "Closed"
                 /\ R[j].phase = "OverrunFaulted" =>
                      \A b \in Y[R[j].budget].lineage : Y[b].phase \in {"Faulted", "Closed"}
      <3>1. /\ Y[R[j].budget].phase = X[R[j].budget].phase
            /\ Y[R[j].budget].lineage = X[R[j].budget].lineage
        BY <1>2, <1>7
      <3>2. \A b \in X[R[j].budget].lineage : Y[b].phase = X[b].phase
        BY <1>2, <1>5, <1>7
      <3>3. QED
        BY <1>1, <3>1, <3>2 DEF Lifecycles
    <2>3. QED
      BY <2>1, <2>2 DEF Lifecycles
  <1>9. Balanced(Y, R)
    <2> SUFFICES ASSUME NEW a \in Account, NEW d \in Dimension
                 PROVE  /\ Y[a].child_delegated_remaining[d]
                             = SumFunctionOnSet(Unspent(Y, d), OpenChildren(Y, a))
                        /\ Y[a].operation_reserved[d] = SumFunctionOnSet(Held(R, d), Work(R, a))
                        /\ Y[a].consumed[d] = SumFunctionOnSet(Spent(R, d), Below(Y, R, a))
                        /\ Y[a].consumed[d] + Y[a].operation_reserved[d]
                             + Y[a].child_delegated_remaining[d] <= Y[a].limits[d]
      BY DEF Balanced
    <2>1. /\ X[a].child_delegated_remaining[d]
               = SumFunctionOnSet(Unspent(X, d), OpenChildren(X, a))
          /\ X[a].operation_reserved[d] = SumFunctionOnSet(Held(R, d), Work(R, a))
          /\ X[a].consumed[d] = SumFunctionOnSet(Spent(R, d), Below(X, R, a))
          /\ X[a].consumed[d] + X[a].operation_reserved[d]
               + X[a].child_delegated_remaining[d] <= X[a].limits[d]
      BY <1>1 DEF Balanced
    <2>2. Below(Y, R, a) = Below(X, R, a)
      BY <1>2, <1>7 DEF Below
    <2> DEFINE w == OpenChildren(X, a)
               f == Unspent(X, d)
               e == Unspent(Y, d)
    <2>3. OpenChildren(Y, a) = IF a = p THEN w \cup {c} ELSE w
      <3>1. \A b \in Account \ {c} : /\ Y[b].parent = X[b].parent
                                     /\ Y[b].phase = X[b].phase
        BY <1>2
      <3>2. X[c].parent # a
        <4>1. X[c].parent = None
          BY <1>2 DEF NoAccount, NewAccount
        <4>2. QED
          BY <4>1, BudgetAssumption
      <3>3. QED
        BY <1>2, <3>1, <3>2 DEF OpenChildren
    <2>4. IsFiniteSet(w) /\ w \subseteq Account /\ c \notin w
      <3>1. X[c].parent # a
        <4>1. X[c].parent = None
          BY <1>2 DEF NoAccount, NewAccount
        <4>2. QED
          BY <4>1, BudgetAssumption
      <3>2. QED
        BY <3>1, ChildrenFinite DEF OpenChildren
    <2>5. \A b \in Account \ {c} : e[b] = f[b]
      BY <1>2, <1>3 DEF Unspent
    <2>6. \A b \in Account : e[b] \in Int
      <3> SUFFICES ASSUME NEW b \in Account
                   PROVE  e[b] \in Int
        OBVIOUS
      <3>1. Y[b].limits[d] \in Nat /\ Y[b].consumed[d] \in Nat
        BY <1>2, FieldTypes
      <3>2. QED
        BY <3>1 DEF Unspent
    <2>7. e[c] = limits[d]
      <3>1. Y[c].limits[d] = limits[d]
        BY <1>2
      <3>2. Y[c].consumed[d] = 0
        <4>1. X[c].consumed = Zero
          BY <1>2 DEF NoAccount, NewAccount
        <4>2. QED
          BY <1>3, <4>1 DEF Zero
      <3>3. limits[d] \in Nat
        BY <1>3
      <3>4. QED
        BY <3>1, <3>2, <3>3 DEF Unspent
    <2> HIDE DEF w, f, e
    <2>8. SumFunctionOnSet(e, w) = SumFunctionOnSet(f, w) /\ SumFunctionOnSet(e, w) \in Int
      <3>1. \A b \in w : f[b] = e[b] /\ e[b] \in Int
        BY <2>4, <2>5, <2>6
      <3>2. QED
        BY <2>4, <3>1, SumSame, SumType
    <2>9. SumFunctionOnSet(e, w \cup {c}) = limits[d] + SumFunctionOnSet(e, w)
      <3>1. \A b \in w \cup {c} : e[b] \in Int
        BY <2>4, <2>6
      <3>2. QED
        BY <2>4, <2>7, <3>1, SumAdd
    <2>10. Y[a].child_delegated_remaining[d]
             = SumFunctionOnSet(Unspent(Y, d), OpenChildren(Y, a))
      <3>1. CASE a = p
        <4>1. Y[p].child_delegated_remaining[d]
                = X[p].child_delegated_remaining[d] + limits[d]
          BY <1>3
        <4>2. limits[d] \in Nat
          BY <1>3
        <4>3. QED
          BY <2>1, <2>3, <2>8, <2>9, <3>1, <4>1, <4>2 DEF w, f, e
      <3>2. CASE a # p
        BY <1>3, <2>1, <2>3, <2>8, <3>2 DEF w, f, e
      <3>3. QED
        BY <3>1, <3>2
    <2>11. Y[a].consumed[d] + Y[a].operation_reserved[d]
             + Y[a].child_delegated_remaining[d] <= Y[a].limits[d]
      <3>0. /\ X[a].limits[d] \in Nat /\ X[a].consumed[d] \in Nat
            /\ X[a].operation_reserved[d] \in Nat /\ X[a].child_delegated_remaining[d] \in Nat
            /\ limits[d] \in Nat
        BY <1>1, <1>3, FieldTypes
      <3>1. CASE a = p
        <4>1. /\ Y[a].child_delegated_remaining[d]
                   = X[a].child_delegated_remaining[d] + limits[d]
              /\ Y[a].consumed[d] = X[a].consumed[d]
              /\ Y[a].operation_reserved[d] = X[a].operation_reserved[d]
              /\ Y[a].limits[d] = X[a].limits[d]
          BY <1>2, <1>3, <3>1
        <4>2. limits[d] <= X[a].limits[d] - X[a].consumed[d] - X[a].operation_reserved[d]
                             - X[a].child_delegated_remaining[d]
          BY <3>1 DEF Allocates
        <4>3. QED
          BY <3>0, <4>1, <4>2
      <3>2. CASE a = c
        <4>1. /\ Y[a].child_delegated_remaining[d] = 0
              /\ Y[a].consumed[d] = 0 /\ Y[a].operation_reserved[d] = 0
              /\ Y[a].limits[d] = limits[d]
          BY <1>2, <1>3, <3>2 DEF NoAccount, NewAccount, Zero
        <4>2. QED
          BY <3>0, <4>1
      <3>3. CASE a # p /\ a # c
        BY <1>4, <2>1, <3>3
      <3>4. QED
        BY <3>1, <3>2, <3>3
    <2>12. QED
      BY <1>3, <2>1, <2>2, <2>10, <2>11
  <1>10. QED
    BY <1>1, <1>2, <1>6, <1>8, <1>9 DEF LedgerInv

\* a is sealed.
Seals(X, Y, a) ==
  X[a].phase = "Open" /\ Y = [X EXCEPT ![a] = [X[a] EXCEPT !.phase = "Draining"]]

LEMMA SealsInv ==
  ASSUME NEW X, NEW R, NEW Y, NEW a \in Account, LedgerInv(X, R), Seals(X, Y, a)
  PROVE  LedgerInv(Y, R)
  <1>1. /\ X \in Accts /\ R \in Seq(Attempt) /\ Tree(X) /\ Lifecycles(X, R)
        /\ Balanced(X, R) /\ Records(R) /\ Attempts(R)
    BY DEF LedgerInv
  <1>2. Y \in Accts /\ \A b \in Account :
          /\ Y[b].parent = X[b].parent /\ Y[b].lineage = X[b].lineage
          /\ Y[b].limits = X[b].limits /\ Y[b].consumed = X[b].consumed
          /\ Y[b].operation_reserved = X[b].operation_reserved
          /\ Y[b].child_delegated_remaining = X[b].child_delegated_remaining
          /\ b # a => Y[b] = X[b]
          /\ b = a => Y[b].phase = "Draining" /\ X[b].phase = "Open"
    <2>1. X[a] \in AccountRecord
      BY <1>1 DEF Accts
    <2>2. [X[a] EXCEPT !.phase = "Draining"] \in AccountRecord
      BY <2>1 DEF AccountRecord, AccountPhase
    <2>3. /\ Y \in Accts /\ \A b \in Account \ {a} : Y[b] = X[b]
          /\ Y[a] = [X[a] EXCEPT !.phase = "Draining"]
      BY <1>1, <2>2 DEF Seals, Accts
    <2>4. X[a].phase = "Open"
      BY DEF Seals
    <2>5. QED
      BY <2>1, <2>3, <2>4 DEF AccountRecord
  <1>3. \A b \in Account : /\ Y[b].phase = "Closed" <=> X[b].phase = "Closed"
                           /\ Y[b].phase = "Absent" <=> X[b].phase = "Absent"
                           /\ X[b].phase = "Absent" => Y[b] = X[b]
                           /\ X[b].phase \in {"Faulted", "Closed"} => Y[b].phase = X[b].phase
    BY <1>2
  <1>4. \A b \in Account : X[b].lineage \subseteq Account
                             /\ X[b].parent \in Account \cup {None}
    BY <1>1, FieldTypes
  <1>5. \A j \in DOMAIN R : R[j].budget \in Account
    BY <1>1, AttemptTypes
  <1>6. Tree(Y)
    <2>1. ASSUME NEW b \in Account
          PROVE  /\ Y[b].phase = "Absent" => Y[b] = NoAccount
                 /\ Y[b].phase # "Absent" => b \in Y[b].lineage
      <3>1. /\ X[b].phase = "Absent" => X[b] = NoAccount
            /\ X[b].phase # "Absent" => b \in X[b].lineage
        BY <1>1 DEF Tree
      <3>2. QED
        BY <1>2, <1>3, <3>1
    <2>2. ASSUME NEW b \in Account, Y[b].parent # None
          PROVE  /\ Y[Y[b].parent].phase # "Absent"
                 /\ b \notin Y[Y[b].parent].lineage
                 /\ Y[b].lineage = Y[Y[b].parent].lineage \cup {b}
      <3>1. /\ X[X[b].parent].phase # "Absent"
            /\ b \notin X[X[b].parent].lineage
            /\ X[b].lineage = X[X[b].parent].lineage \cup {b}
        BY <1>1, <1>2, <2>2 DEF Tree
      <3>2. X[b].parent \in Account /\ Y[b].parent = X[b].parent
        BY <1>2, <1>4, <2>2
      <3>3. QED
        BY <1>2, <1>3, <3>1, <3>2
    <2>3. ASSUME NEW b \in Account, NEW c \in Y[b].lineage
          PROVE  /\ Y[c].phase # "Absent"
                 /\ Y[c].lineage \subseteq Y[b].lineage
                 /\ Y[c].parent # b
                 /\ c # b => \E e \in Y[b].lineage : Y[e].parent = c
                 /\ \A e \in Y[b].lineage : Y[c].parent = Y[e].parent => c = e
      <3>1. /\ X[c].phase # "Absent"
            /\ X[c].lineage \subseteq X[b].lineage
            /\ X[c].parent # b
            /\ c # b => \E e \in X[b].lineage : X[e].parent = c
            /\ \A e \in X[b].lineage : X[c].parent = X[e].parent => c = e
        BY <1>1, <1>2, <2>3 DEF Tree
      <3>2. /\ c \in Account /\ Y[b].lineage = X[b].lineage
            /\ \A e \in X[b].lineage : e \in Account /\ Y[e].parent = X[e].parent
        BY <1>2, <1>4, <2>3
      <3>3. QED
        BY <1>2, <1>3, <3>1, <3>2
    <2>4. QED
      BY <2>1, <2>2, <2>3 DEF Tree
  <1>7. Lifecycles(Y, R)
    <2>1. ASSUME NEW b \in Account, Y[b].phase # "Closed", NEW c \in Y[b].lineage
          PROVE  Y[c].phase # "Closed"
      <3>1. X[b].phase # "Closed" /\ c \in X[b].lineage /\ c \in Account
        BY <1>2, <1>3, <1>4, <2>1
      <3>2. X[c].phase # "Closed"
        BY <1>1, <3>1 DEF Lifecycles
      <3>3. QED
        BY <1>3, <3>1, <3>2
    <2>2. ASSUME NEW j \in DOMAIN R
          PROVE  /\ Y[R[j].budget].phase # "Absent"
                 /\ Live(R[j]) => Y[R[j].budget].phase # "Closed"
                 /\ R[j].phase = "OverrunFaulted" =>
                      \A b \in Y[R[j].budget].lineage : Y[b].phase \in {"Faulted", "Closed"}
      <3>1. /\ X[R[j].budget].phase # "Absent"
            /\ Live(R[j]) => X[R[j].budget].phase # "Closed"
            /\ R[j].phase = "OverrunFaulted" =>
                 \A b \in X[R[j].budget].lineage : X[b].phase \in {"Faulted", "Closed"}
        BY <1>1 DEF Lifecycles
      <3>2. /\ R[j].budget \in Account
            /\ Y[R[j].budget].lineage = X[R[j].budget].lineage
            /\ X[R[j].budget].lineage \subseteq Account
        BY <1>2, <1>4, <1>5
      <3>3. QED
        BY <1>3, <3>1, <3>2
    <2>3. QED
      BY <2>1, <2>2 DEF Lifecycles
  <1>8. Balanced(Y, R)
    <2> SUFFICES ASSUME NEW c \in Account, NEW d \in Dimension
                 PROVE  /\ Y[c].child_delegated_remaining[d]
                             = SumFunctionOnSet(Unspent(Y, d), OpenChildren(Y, c))
                        /\ Y[c].operation_reserved[d] = SumFunctionOnSet(Held(R, d), Work(R, c))
                        /\ Y[c].consumed[d] = SumFunctionOnSet(Spent(R, d), Below(Y, R, c))
                        /\ Y[c].consumed[d] + Y[c].operation_reserved[d]
                             + Y[c].child_delegated_remaining[d] <= Y[c].limits[d]
      BY DEF Balanced
    <2>1. Unspent(Y, d) = Unspent(X, d)
      BY <1>2 DEF Unspent
    <2>2. OpenChildren(Y, c) = OpenChildren(X, c)
      BY <1>2, <1>3 DEF OpenChildren
    <2>3. Below(Y, R, c) = Below(X, R, c)
      BY <1>2, <1>5 DEF Below
    <2>4. QED
      BY <1>1, <1>2, <2>1, <2>2, <2>3 DEF Balanced
  <1>9. QED
    BY <1>1, <1>2, <1>6, <1>7, <1>8 DEF LedgerInv

\* a ends, and its parent takes back what a did not spend.
Closes(X, R, Y, a) ==
  /\ X[a].phase \in {"Draining", "Faulted"}
  /\ \A i \in DOMAIN R : R[i].budget = a => ~Live(R[i])
  /\ \A b \in Account : X[b].parent = a => X[b].phase = "Closed"
  /\ Y \in Accts
  /\ \A b \in Account :
       /\ Y[b].parent = X[b].parent /\ Y[b].lineage = X[b].lineage
       /\ Y[b].limits = X[b].limits /\ Y[b].consumed = X[b].consumed
       /\ Y[b].operation_reserved = X[b].operation_reserved
       /\ Y[b].phase = IF b = a THEN "Closed" ELSE X[b].phase
       /\ b # a /\ b # X[a].parent => Y[b] = X[b]
       /\ b # X[a].parent =>
            Y[b].child_delegated_remaining = X[b].child_delegated_remaining
       /\ b = X[a].parent =>
            \A d \in Dimension :
              Y[b].child_delegated_remaining[d]
                = X[b].child_delegated_remaining[d] - (X[a].limits[d] - X[a].consumed[d])

LEMMA ClosesInv ==
  ASSUME NEW X, NEW R, NEW Y, NEW a \in Account, LedgerInv(X, R), Closes(X, R, Y, a)
  PROVE  LedgerInv(Y, R)
  <1>1. /\ X \in Accts /\ R \in Seq(Attempt) /\ Tree(X) /\ Lifecycles(X, R)
        /\ Balanced(X, R) /\ Records(R) /\ Attempts(R)
    BY DEF LedgerInv
  <1>2. Y \in Accts /\ \A b \in Account :
          /\ Y[b].parent = X[b].parent /\ Y[b].lineage = X[b].lineage
          /\ Y[b].limits = X[b].limits /\ Y[b].consumed = X[b].consumed
          /\ Y[b].operation_reserved = X[b].operation_reserved
          /\ Y[b].phase = IF b = a THEN "Closed" ELSE X[b].phase
    BY DEF Closes
  <1>3. \A b \in Account : /\ Y[b].phase = "Closed" <=> (X[b].phase = "Closed" \/ b = a)
                           /\ Y[b].phase = "Absent" <=> X[b].phase = "Absent"
                           /\ X[b].phase \in {"Faulted", "Closed"} =>
                                Y[b].phase \in {"Faulted", "Closed"}
    BY <1>2 DEF Closes
  <1>4. \A b \in Account : X[b].phase = "Absent" => Y[b] = X[b]
    <2> SUFFICES ASSUME NEW b \in Account, X[b].phase = "Absent"
                 PROVE  Y[b] = X[b]
      OBVIOUS
    <2>1. b # a /\ b # X[a].parent
      BY <1>1, BudgetAssumption DEF Closes, Tree
    <2>2. QED
      BY <2>1 DEF Closes
  <1>5. \A b \in Account : X[b].lineage \subseteq Account
                             /\ X[b].parent \in Account \cup {None}
    BY <1>1, FieldTypes
  <1>6. \A j \in DOMAIN R : R[j].budget \in Account
    BY <1>1, AttemptTypes
  <1>7. Tree(Y)
    BY <1>1, <1>2, <1>3, <1>4, <1>5, BudgetAssumption DEF Tree
  <1>8. Lifecycles(Y, R)
    <2>1. ASSUME NEW b \in Account, Y[b].phase # "Closed", NEW c \in Y[b].lineage
          PROVE  Y[c].phase # "Closed"
      <3>1. X[b].phase # "Closed" /\ c \in X[b].lineage /\ c \in Account /\ b # a
        BY <1>2, <1>3, <1>5, <2>1
      <3>2. \A e \in X[b].lineage : X[e].phase # "Closed"
        BY <1>1, <3>1 DEF Lifecycles
      <3>3. c # a
        <4>1. SUFFICES ASSUME a \in X[b].lineage
                       PROVE  FALSE
          BY <3>1
        <4>2. PICK e \in X[b].lineage : X[e].parent = a
          BY <1>1, <3>1, <4>1 DEF Tree
        <4>3. e \in Account
          BY <1>5
        <4>4. QED
          BY <3>2, <4>2, <4>3 DEF Closes
      <3>4. QED
        BY <1>3, <3>1, <3>2, <3>3
    <2>2. ASSUME NEW j \in DOMAIN R
          PROVE  /\ Y[R[j].budget].phase # "Absent"
                 /\ Live(R[j]) => Y[R[j].budget].phase # "Closed"
                 /\ R[j].phase = "OverrunFaulted" =>
                      \A b \in Y[R[j].budget].lineage : Y[b].phase \in {"Faulted", "Closed"}
      <3>1. /\ X[R[j].budget].phase # "Absent"
            /\ Live(R[j]) => X[R[j].budget].phase # "Closed" /\ R[j].budget # a
            /\ R[j].phase = "OverrunFaulted" =>
                 \A b \in X[R[j].budget].lineage : X[b].phase \in {"Faulted", "Closed"}
        BY <1>1 DEF Lifecycles, Closes
      <3>2. /\ R[j].budget \in Account
            /\ Y[R[j].budget].lineage = X[R[j].budget].lineage
            /\ X[R[j].budget].lineage \subseteq Account
        BY <1>2, <1>5, <1>6
      <3>3. QED
        BY <1>3, <3>1, <3>2
    <2>3. QED
      BY <2>1, <2>2 DEF Lifecycles
  <1>9. Balanced(Y, R)
    <2> SUFFICES ASSUME NEW c \in Account, NEW d \in Dimension
                 PROVE  /\ Y[c].child_delegated_remaining[d]
                             = SumFunctionOnSet(Unspent(Y, d), OpenChildren(Y, c))
                        /\ Y[c].operation_reserved[d] = SumFunctionOnSet(Held(R, d), Work(R, c))
                        /\ Y[c].consumed[d] = SumFunctionOnSet(Spent(R, d), Below(Y, R, c))
                        /\ Y[c].consumed[d] + Y[c].operation_reserved[d]
                             + Y[c].child_delegated_remaining[d] <= Y[c].limits[d]
      BY DEF Balanced
    <2> DEFINE w == OpenChildren(X, c)
               f == Unspent(X, d)
    <2>1. /\ X[c].child_delegated_remaining[d] = SumFunctionOnSet(f, w)
          /\ X[c].operation_reserved[d] = SumFunctionOnSet(Held(R, d), Work(R, c))
          /\ X[c].consumed[d] = SumFunctionOnSet(Spent(R, d), Below(X, R, c))
          /\ X[c].consumed[d] + X[c].operation_reserved[d]
               + X[c].child_delegated_remaining[d] <= X[c].limits[d]
      BY <1>1 DEF Balanced
    <2>2. Unspent(Y, d) = f
      BY <1>2 DEF Unspent
    <2>3. OpenChildren(Y, c) = w \ {a}
      BY <1>2, <1>3 DEF OpenChildren
    <2>4. Below(Y, R, c) = Below(X, R, c)
      BY <1>2, <1>6 DEF Below
    <2>5. IsFiniteSet(w) /\ w \subseteq Account /\ (a \in w <=> c = X[a].parent)
      <3>1. X[a].phase # "Closed"
        BY DEF Closes
      <3>2. a \in w <=> c = X[a].parent
        BY <3>1 DEF OpenChildren
      <3>3. QED
        BY <3>2, ChildrenFinite
    <2>6. \A b \in Account : f[b] \in Int /\ f[b] >= 0
      <3> SUFFICES ASSUME NEW b \in Account
                   PROVE  f[b] \in Int /\ f[b] >= 0
        OBVIOUS
      <3>1. /\ X[b].limits[d] \in Nat /\ X[b].consumed[d] \in Nat
            /\ X[b].operation_reserved[d] \in Nat /\ X[b].child_delegated_remaining[d] \in Nat
        BY <1>1, FieldTypes
      <3>2. X[b].consumed[d] + X[b].operation_reserved[d] + X[b].child_delegated_remaining[d]
              <= X[b].limits[d]
        BY <1>1 DEF Balanced
      <3>3. X[b].limits[d] - X[b].consumed[d] \in Int /\ X[b].limits[d] - X[b].consumed[d] >= 0
        BY <3>1, <3>2
      <3>4. QED
        BY <3>3 DEF Unspent
    <2>7. f[a] = X[a].limits[d] - X[a].consumed[d]
      BY DEF Unspent
    <2>8. /\ X[c].limits[d] \in Nat /\ X[c].consumed[d] \in Nat
          /\ X[c].operation_reserved[d] \in Nat /\ X[c].child_delegated_remaining[d] \in Nat
      BY <1>1, FieldTypes
    <2> HIDE DEF w, f
    <2>9. CASE c = X[a].parent
      <3>1. SumFunctionOnSet(f, w) = f[a] + SumFunctionOnSet(f, w \ {a})
        BY <2>5, <2>6, <2>9, SumRemove
      <3>2. SumFunctionOnSet(f, w \ {a}) \in Int
        <4>1. IsFiniteSet(w \ {a}) /\ \A b \in w \ {a} : f[b] \in Int
          BY <2>5, <2>6, FS_RemoveElement
        <4>2. QED
          BY <4>1, SumType
      <3>3. Y[c].child_delegated_remaining[d] = X[c].child_delegated_remaining[d] - f[a]
        BY <2>7, <2>9 DEF Closes
      <3>4. f[a] \in Int /\ f[a] >= 0
        BY <2>6
      <3>5. Y[c].child_delegated_remaining[d] = SumFunctionOnSet(f, w \ {a})
        BY <2>1, <3>1, <3>2, <3>3, <3>4
      <3>6. Y[c].child_delegated_remaining[d] <= X[c].child_delegated_remaining[d]
              /\ Y[c].child_delegated_remaining[d] \in Int
        BY <2>8, <3>3, <3>4
      <3>7. Y[c].consumed[d] + Y[c].operation_reserved[d]
               + Y[c].child_delegated_remaining[d] <= Y[c].limits[d]
        <4>1. /\ Y[c].consumed[d] = X[c].consumed[d]
              /\ Y[c].operation_reserved[d] = X[c].operation_reserved[d]
              /\ Y[c].limits[d] = X[c].limits[d]
          BY <1>2
        <4>2. \A k, o, l \in Nat, m, n \in Int : k + o + m <= l /\ n <= m => k + o + n <= l
          OBVIOUS
        <4>3. QED
          BY <2>1, <2>8, <3>6, <4>1, <4>2
      <3>8. QED
        BY <1>2, <2>1, <2>2, <2>3, <2>4, <3>5, <3>7
    <2>10. CASE c # X[a].parent
      <3>1. w \ {a} = w
        BY <2>5, <2>10
      <3>2. Y[c].child_delegated_remaining = X[c].child_delegated_remaining
        BY <2>10 DEF Closes
      <3>3. QED
        BY <1>2, <2>1, <2>2, <2>3, <2>4, <3>1, <3>2
    <2>11. QED
      BY <2>9, <2>10
  <1>10. QED
    BY <1>1, <1>2, <1>7, <1>8, <1>9 DEF LedgerInv

------------------------------------------------------------------------------
(* The accounting primitives are charges *)

LEMMA ChargeThenCharge ==
  ASSUME NEW X \in Accts, NEW Y, NEW Z, NEW x \in Account,
         NEW d1 \in Amounts, NEW s1 \in [Dimension -> Int],
         NEW d2 \in Amounts, NEW s2 \in [Dimension -> Int], NEW delta, NEW sigma,
         Charge(X, Y, x, d1, s1), Charge(Y, Z, x, d2, s2),
         \A d \in Dimension : delta[d] = d1[d] + d2[d] /\ sigma[d] = s1[d] + s2[d]
  PROVE  Charge(X, Z, x, delta, sigma)
  <1>1. Z \in Accts /\ Y \in Accts
    BY DEF Charge
  <1>2. Y[x].lineage = X[x].lineage
    BY DEF Charge
  <1>3. ASSUME NEW b \in Account
        PROVE  /\ Z[b].parent = X[b].parent
               /\ Z[b].lineage = X[b].lineage
               /\ Z[b].limits = X[b].limits
               /\ Z[b].phase = X[b].phase \/ (b \in X[x].lineage /\ Z[b].phase = "Faulted")
               /\ b \notin X[x].lineage => Z[b] = X[b]
    BY <1>2 DEF Charge
  <1>4. ASSUME NEW b \in Account, NEW d \in Dimension
        PROVE  /\ Z[b].consumed[d] = X[b].consumed[d]
                                       + IF b \in X[x].lineage THEN delta[d] ELSE 0
               /\ Z[b].operation_reserved[d] = X[b].operation_reserved[d]
                                                 + IF b = x THEN sigma[d] ELSE 0
               /\ Z[b].child_delegated_remaining[d] =
                    X[b].child_delegated_remaining[d]
                      - IF b \in X[x].lineage \ {x} THEN delta[d] ELSE 0
    <2>1. /\ Y[b].consumed[d] = X[b].consumed[d] + IF b \in X[x].lineage THEN d1[d] ELSE 0
          /\ Y[b].operation_reserved[d] = X[b].operation_reserved[d] + IF b = x THEN s1[d] ELSE 0
          /\ Y[b].child_delegated_remaining[d] =
               X[b].child_delegated_remaining[d]
                 - IF b \in X[x].lineage \ {x} THEN d1[d] ELSE 0
      BY DEF Charge
    <2>2. /\ Z[b].consumed[d] = Y[b].consumed[d] + IF b \in X[x].lineage THEN d2[d] ELSE 0
          /\ Z[b].operation_reserved[d] = Y[b].operation_reserved[d] + IF b = x THEN s2[d] ELSE 0
          /\ Z[b].child_delegated_remaining[d] =
               Y[b].child_delegated_remaining[d]
                 - IF b \in X[x].lineage \ {x} THEN d2[d] ELSE 0
      BY <1>2 DEF Charge
    <2>3. /\ X[b].consumed[d] \in Nat /\ X[b].operation_reserved[d] \in Nat
          /\ X[b].child_delegated_remaining[d] \in Nat
          /\ d1[d] \in Nat /\ d2[d] \in Nat /\ s1[d] \in Int /\ s2[d] \in Int
      BY FieldTypes DEF Amounts
    <2>4. delta[d] = d1[d] + d2[d] /\ sigma[d] = s1[d] + s2[d]
      OBVIOUS
    <2>5. \A p, q, r \in Int : (p + q) + r = p + (q + r) /\ (p - q) - r = p - (q + r)
      OBVIOUS
    <2>6. Z[b].consumed[d] = X[b].consumed[d] + IF b \in X[x].lineage THEN delta[d] ELSE 0
      BY <2>1, <2>2, <2>3, <2>4, <2>5
    <2>7. Z[b].operation_reserved[d] = X[b].operation_reserved[d]
                                         + IF b = x THEN sigma[d] ELSE 0
      BY <2>1, <2>2, <2>3, <2>4, <2>5
    <2>8. Z[b].child_delegated_remaining[d] =
            X[b].child_delegated_remaining[d]
              - IF b \in X[x].lineage \ {x} THEN delta[d] ELSE 0
      BY <2>1, <2>2, <2>3, <2>4, <2>5
    <2>9. QED
      BY <2>6, <2>7, <2>8
  <1>5. QED
    BY <1>1, <1>3, <1>4 DEF Charge

Freed(amount) == [d \in Dimension |-> 0 - amount[d]]

LEMMA SigmaTypes ==
  /\ Zero \in [Dimension -> Int]
  /\ \A a \in Amounts : a \in [Dimension -> Int] /\ Freed(a) \in [Dimension -> Int]
  /\ \A d \in Dimension : Zero[d] = 0
  BY DEF Zero, Amounts, Freed

\* An empty charge on top of a charge adds nothing to it.
LEMMA ChargeThenNothing ==
  ASSUME NEW X \in Accts, NEW Y, NEW Z, NEW x \in Account,
         NEW delta \in Amounts, NEW sigma \in [Dimension -> Int],
         Charge(X, Y, x, delta, sigma), Charge(Y, Z, x, Zero, Zero)
  PROVE  Charge(X, Z, x, delta, sigma)
  <1>1. ASSUME NEW z \in Amounts, NEW w \in [Dimension -> Int], z = Zero, w = Zero
        PROVE  Charge(X, Z, x, delta, sigma)
    <2>1. Charge(Y, Z, x, z, w)
      BY <1>1
    <2>2. \A d \in Dimension : delta[d] = delta[d] + z[d] /\ sigma[d] = sigma[d] + w[d]
      <3>1. \A d \in Dimension : z[d] = 0 /\ w[d] = 0 /\ delta[d] \in Int /\ sigma[d] \in Int
        BY <1>1, SigmaTypes
      <3>2. QED
        BY <3>1
    <2>3. QED
      BY <2>1, <2>2, ChargeThenCharge
  <1>2. Zero \in Amounts /\ Zero \in [Dimension -> Int]
    BY AmountFacts, SigmaTypes
  <1>3. QED
    BY <1>1, <1>2

LEMMA ReleasedCharge ==
  ASSUME NEW X \in Accts, NEW a \in Account, NEW amount \in Amounts,
         a \in X[a].lineage, FitsWithin(amount, X[a].operation_reserved)
  PROVE  Charge(X, Released(X, a, amount), a, Zero, Freed(amount))
  <1> DEFINE Y == Released(X, a, amount)
  <1>1. /\ Y \in Accts
        /\ \A b \in Account \ {a} : Y[b] = X[b]
        /\ Y[a].phase = X[a].phase /\ Y[a].parent = X[a].parent
        /\ Y[a].lineage = X[a].lineage /\ Y[a].limits = X[a].limits
        /\ Y[a].consumed = X[a].consumed
        /\ Y[a].operation_reserved = Minus(X[a].operation_reserved, amount)
        /\ Y[a].child_delegated_remaining = X[a].child_delegated_remaining
    BY ReleasedFields
  <1>2. ASSUME NEW b \in Account
        PROVE  /\ Y[b].parent = X[b].parent /\ Y[b].lineage = X[b].lineage
               /\ Y[b].limits = X[b].limits /\ Y[b].phase = X[b].phase
               /\ b \notin X[a].lineage => Y[b] = X[b]
               /\ Y[b].consumed = X[b].consumed
               /\ Y[b].child_delegated_remaining = X[b].child_delegated_remaining
               /\ b # a => Y[b].operation_reserved = X[b].operation_reserved
    BY <1>1
  <1>3. ASSUME NEW b \in Account, NEW d \in Dimension
        PROVE  /\ Y[b].consumed[d] = X[b].consumed[d] + IF b \in X[a].lineage THEN Zero[d] ELSE 0
               /\ Y[b].operation_reserved[d] = X[b].operation_reserved[d]
                                                 + IF b = a THEN Freed(amount)[d] ELSE 0
               /\ Y[b].child_delegated_remaining[d] = X[b].child_delegated_remaining[d]
                      - IF b \in X[a].lineage \ {a} THEN Zero[d] ELSE 0
    <2>1. /\ X[b].consumed[d] \in Nat /\ X[b].operation_reserved[d] \in Nat
          /\ X[b].child_delegated_remaining[d] \in Nat /\ amount[d] \in Nat
      BY FieldTypes DEF Amounts
    <2>2. Freed(amount)[d] = 0 - amount[d] /\ Zero[d] = 0
      BY DEF Freed, Zero
    <2>3. b = a => Y[b].operation_reserved[d] = X[b].operation_reserved[d] - amount[d]
      BY <1>1 DEF Minus
    <2> HIDE DEF Y
    <2>4. QED
      BY <1>2, <2>1, <2>2, <2>3
  <1> HIDE DEF Y
  <1>4. Charge(X, Y, a, Zero, Freed(amount))
    BY <1>1, <1>2, <1>3 DEF Charge
  <1>5. QED
    BY <1>4 DEF Y

LEMMA ChargedCharge ==
  ASSUME NEW X \in Accts, NEW a \in Account, NEW amount \in Amounts,
         a \in X[a].lineage,
         \A b \in X[a].lineage \ {a} : FitsWithin(amount, X[b].child_delegated_remaining)
  PROVE  Charge(X, Charged(X, a, amount), a, amount, Zero)
  <1> DEFINE Y == Charged(X, a, amount)
  <1>1. /\ Y \in Accts
        /\ \A b \in Account :
             /\ Y[b].phase = X[b].phase /\ Y[b].parent = X[b].parent
             /\ Y[b].lineage = X[b].lineage /\ Y[b].limits = X[b].limits
             /\ Y[b].operation_reserved = X[b].operation_reserved
             /\ Y[b].consumed = IF b = a \/ b \in X[a].lineage
                                THEN Plus(X[b].consumed, amount) ELSE X[b].consumed
             /\ Y[b].child_delegated_remaining =
                  IF b \in X[a].lineage \ {a}
                  THEN Minus(X[b].child_delegated_remaining, amount)
                  ELSE X[b].child_delegated_remaining
             /\ b # a /\ b \notin X[a].lineage => Y[b] = X[b]
    BY ChargedFields
  <1>2. ASSUME NEW b \in Account, NEW d \in Dimension
        PROVE  /\ Y[b].consumed[d] = X[b].consumed[d]
                                       + IF b \in X[a].lineage THEN amount[d] ELSE 0
               /\ Y[b].operation_reserved[d] = X[b].operation_reserved[d]
                                                 + IF b = a THEN Zero[d] ELSE 0
               /\ Y[b].child_delegated_remaining[d] = X[b].child_delegated_remaining[d]
                      - IF b \in X[a].lineage \ {a} THEN amount[d] ELSE 0
    <2>1. /\ X[b].consumed[d] \in Nat /\ X[b].operation_reserved[d] \in Nat
          /\ X[b].child_delegated_remaining[d] \in Nat /\ amount[d] \in Nat
      BY FieldTypes DEF Amounts
    <2>2. Zero[d] = 0
      BY DEF Zero
    <2>3. /\ Plus(X[b].consumed, amount)[d] = X[b].consumed[d] + amount[d]
          /\ Minus(X[b].child_delegated_remaining, amount)[d]
               = X[b].child_delegated_remaining[d] - amount[d]
      BY DEF Plus, Minus
    <2> HIDE DEF Y
    <2>4. QED
      BY <1>1, <2>1, <2>2, <2>3
  <1> HIDE DEF Y
  <1>3. Charge(X, Y, a, amount, Zero)
    BY <1>1, <1>2 DEF Charge
  <1>4. QED
    BY <1>3 DEF Y

LEMMA FaultedCharge ==
  ASSUME NEW X \in Accts, NEW a \in Account
  PROVE  /\ Charge(X, FaultedLineage(X, a), a, Zero, Zero)
         /\ \A b \in X[a].lineage : FaultedLineage(X, a)[b].phase = "Faulted"
  <1> DEFINE Y == FaultedLineage(X, a)
  <1>1. X[a].lineage \subseteq Account
    BY FieldTypes
  <1>2. ASSUME NEW b \in Account
        PROVE  /\ Y[b] \in AccountRecord
               /\ Y[b].parent = X[b].parent /\ Y[b].lineage = X[b].lineage
               /\ Y[b].limits = X[b].limits
               /\ b \in X[a].lineage => Y[b].phase = "Faulted"
               /\ b \notin X[a].lineage => Y[b] = X[b]
               /\ Y[b].consumed = X[b].consumed
               /\ Y[b].operation_reserved = X[b].operation_reserved
               /\ Y[b].child_delegated_remaining = X[b].child_delegated_remaining
    <2>1. X[b] \in AccountRecord
      BY DEF Accts
    <2>2. Y[b] = IF b \in X[a].lineage THEN [X[b] EXCEPT !.phase = "Faulted"] ELSE X[b]
      BY DEF FaultedLineage
    <2> HIDE DEF Y
    <2>3. QED
      BY <2>1, <2>2 DEF AccountRecord, AccountPhase
  <1>3. Y \in Accts
    BY <1>2 DEF FaultedLineage, Accts
  <1>4. ASSUME NEW b \in Account, NEW d \in Dimension
        PROVE  /\ Y[b].consumed[d] = X[b].consumed[d] + IF b \in X[a].lineage THEN Zero[d] ELSE 0
               /\ Y[b].operation_reserved[d] = X[b].operation_reserved[d]
                                                 + IF b = a THEN Zero[d] ELSE 0
               /\ Y[b].child_delegated_remaining[d] = X[b].child_delegated_remaining[d]
                      - IF b \in X[a].lineage \ {a} THEN Zero[d] ELSE 0
    <2>1. /\ X[b].consumed[d] \in Nat /\ X[b].operation_reserved[d] \in Nat
          /\ X[b].child_delegated_remaining[d] \in Nat
      BY FieldTypes
    <2>2. Zero[d] = 0
      BY DEF Zero
    <2> HIDE DEF Y
    <2>3. QED
      BY <1>2, <2>1, <2>2
  <1> HIDE DEF Y
  <1>5. \A b \in Account : Y[b].phase = X[b].phase
                             \/ (b \in X[a].lineage /\ Y[b].phase = "Faulted")
    BY <1>2
  <1>6. Charge(X, Y, a, Zero, Zero)
    BY <1>2, <1>3, <1>4, <1>5 DEF Charge
  <1>7. \A b \in X[a].lineage : Y[b].phase = "Faulted"
    BY <1>1, <1>2
  <1>8. QED
    BY <1>6, <1>7 DEF Y

LEMMA ReservedCharge ==
  ASSUME NEW X \in Accts, NEW a \in Account, NEW amount \in Amounts, a \in X[a].lineage
  PROVE  Charge(X, [X EXCEPT ![a].operation_reserved = Plus(@, amount)], a, Zero, amount)
  <1> DEFINE Y == [X EXCEPT ![a].operation_reserved = Plus(@, amount)]
             more == Plus(X[a].operation_reserved, amount)
  <1>1. X[a] \in AccountRecord
    BY DEF Accts
  <1>2. more \in Amounts
    BY <1>1, AmountFacts DEF AccountRecord
  <1>3. Y = [X EXCEPT ![a] = [X[a] EXCEPT !.operation_reserved = more]]
    BY <1>1 DEF Accts, AccountRecord
  <1> HIDE DEF more, Y
  <1>4. [X[a] EXCEPT !.operation_reserved = more] \in AccountRecord
    BY <1>1, <1>2 DEF AccountRecord
  <1>5. /\ Y \in Accts
        /\ \A b \in Account \ {a} : Y[b] = X[b]
        /\ Y[a] = [X[a] EXCEPT !.operation_reserved = more]
    BY <1>3, <1>4 DEF Accts
  <1>6. ASSUME NEW b \in Account
        PROVE  /\ Y[b].parent = X[b].parent /\ Y[b].lineage = X[b].lineage
               /\ Y[b].limits = X[b].limits /\ Y[b].phase = X[b].phase
               /\ b \notin X[a].lineage => Y[b] = X[b]
               /\ Y[b].consumed = X[b].consumed
               /\ Y[b].child_delegated_remaining = X[b].child_delegated_remaining
               /\ b # a => Y[b].operation_reserved = X[b].operation_reserved
               /\ b = a => Y[b].operation_reserved = more
    BY <1>1, <1>5 DEF AccountRecord
  <1>7. ASSUME NEW b \in Account, NEW d \in Dimension
        PROVE  /\ Y[b].consumed[d] = X[b].consumed[d] + IF b \in X[a].lineage THEN Zero[d] ELSE 0
               /\ Y[b].operation_reserved[d] = X[b].operation_reserved[d]
                                                 + IF b = a THEN amount[d] ELSE 0
               /\ Y[b].child_delegated_remaining[d] = X[b].child_delegated_remaining[d]
                      - IF b \in X[a].lineage \ {a} THEN Zero[d] ELSE 0
    <2>1. /\ X[b].consumed[d] \in Nat /\ X[b].operation_reserved[d] \in Nat
          /\ X[b].child_delegated_remaining[d] \in Nat /\ amount[d] \in Nat
      BY FieldTypes DEF Amounts
    <2>2. Zero[d] = 0
      BY DEF Zero
    <2>3. b = a => Y[b].operation_reserved[d] = X[b].operation_reserved[d] + amount[d]
      <3>1. more[d] = X[a].operation_reserved[d] + amount[d]
        BY DEF more, Plus
      <3>2. b = a => Y[b].operation_reserved = more
        BY <1>6
      <3>3. QED
        BY <3>1, <3>2
    <2>4. QED
      BY <1>6, <2>1, <2>2, <2>3
  <1>8. Charge(X, Y, a, Zero, amount)
    BY <1>5, <1>6, <1>7 DEF Charge
  <1>9. QED
    BY <1>8 DEF Y

------------------------------------------------------------------------------
(* The commands on attempts *)

Ledger == LedgerInv(accounts, reservations)

LEMMA LedgerParts ==
  ASSUME Ledger
  PROVE  /\ accounts \in Accts /\ reservations \in Seq(Attempt)
         /\ Tree(accounts) /\ Lifecycles(accounts, reservations)
         /\ Balanced(accounts, reservations) /\ Records(reservations)
         /\ Attempts(reservations)
  BY DEF Ledger, LedgerInv

\* Release an amount and charge another, as a settlement does.
LEMMA SpendCharge ==
  ASSUME NEW X \in Accts, NEW a \in Account, NEW m \in Amounts, NEW delta \in Amounts,
         a \in X[a].lineage, FitsWithin(m, X[a].operation_reserved),
         \A b \in X[a].lineage \ {a} : FitsWithin(delta, X[b].child_delegated_remaining)
  PROVE  Charge(X, Charged(Released(X, a, m), a, delta), a, delta, Freed(m))
  <1> DEFINE Y == Released(X, a, m)
  <1>1. Charge(X, Y, a, Zero, Freed(m))
    BY ReleasedCharge
  <1>2. /\ Y \in Accts /\ a \in Y[a].lineage
        /\ \A b \in Y[a].lineage \ {a} : FitsWithin(delta, Y[b].child_delegated_remaining)
    <2>1. Y \in Accts /\ Y[a].lineage = X[a].lineage /\ \A b \in Account \ {a} : Y[b] = X[b]
      BY ReleasedFields
    <2>2. X[a].lineage \subseteq Account
      BY FieldTypes
    <2>3. QED
      BY <2>1, <2>2
  <1> HIDE DEF Y
  <1>3. Charge(Y, Charged(Y, a, delta), a, delta, Zero)
    BY <1>2, ChargedCharge
  <1>4. Zero \in Amounts /\ Freed(m) \in [Dimension -> Int] /\ Zero \in [Dimension -> Int]
    BY AmountFacts, SigmaTypes
  <1>5. \A d \in Dimension : delta[d] = Zero[d] + delta[d]
                               /\ Freed(m)[d] = Freed(m)[d] + Zero[d]
    <2> SUFFICES ASSUME NEW d \in Dimension
                 PROVE  delta[d] = Zero[d] + delta[d] /\ Freed(m)[d] = Freed(m)[d] + Zero[d]
      OBVIOUS
    <2>1. delta[d] \in Int /\ Freed(m)[d] \in Int /\ Zero[d] = 0
      BY <1>4, SigmaTypes DEF Amounts
    <2>2. QED
      BY <2>1
  <1>6. Charge(X, Charged(Y, a, delta), a, delta, Freed(m))
    BY <1>1, <1>3, <1>4, <1>5, ChargeThenCharge
  <1>7. QED
    BY <1>6 DEF Y

LEMMA LiveAttempt ==
  ASSUME Ledger, NEW i \in DOMAIN reservations, Live(reservations[i])
  PROVE  /\ reservations[i] \in Attempt
         /\ reservations[i].budget \in Account
         /\ reservations[i].budget \in accounts[reservations[i].budget].lineage
         /\ reservations[i].reserve \in Amounts /\ reservations[i].observed \in Amounts
         /\ FitsWithin(reservations[i].observed, reservations[i].reserve)
         /\ RecordValidates(reservations[i]) /\ reservations[i].finality = None
         /\ Outstanding(reservations[i]) \in Amounts
         /\ Outstanding(reservations[i]) = Minus(reservations[i].reserve, reservations[i].observed)
         /\ FitsWithin(Outstanding(reservations[i]),
                       accounts[reservations[i].budget].operation_reserved)
  <1> DEFINE r == reservations[i]
  <1>1. r \in Attempt /\ r.budget \in Account /\ FitsWithin(r.observed, r.reserve)
          /\ Outstanding(r) \in Amounts
    BY LedgerParts, AttemptTypes
  <1>2. r.reserve \in Amounts /\ r.observed \in Amounts
    BY <1>1 DEF Attempt
  <1>3. accounts[r.budget].phase # "Absent" /\ RecordValidates(r) /\ r.finality = None
    BY LedgerParts DEF Lifecycles, Records
  <1>4. r.budget \in accounts[r.budget].lineage
    BY <1>1, <1>3, LedgerParts DEF Tree
  <1>5. FitsWithin(Outstanding(r), accounts[r.budget].operation_reserved)
    BY LedgerParts, CeilingHeld
  <1>6. Outstanding(r) = Minus(r.reserve, r.observed)
    BY DEF Outstanding
  <1>7. QED
    BY <1>1, <1>2, <1>3, <1>4, <1>5, <1>6

Settling(i) == Settles(accounts, reservations, accounts', reservations', i, reservations'[i])

LEMMA ActivateSettles ==
  ASSUME Ledger, NEW i \in DOMAIN reservations, NEW e \in Evidence,
         Activate(i, e), ~Repeats(i, e)
  PROVE  /\ Settling(i)
         /\ reservations'[i].activation_evidence # None /\ Live(reservations'[i])
         /\ accounts' = accounts
  <1> DEFINE r == reservations[i]
             s == [r EXCEPT !.phase = "Active", !.activation_evidence = e]
  <1>1. /\ r.phase = "Held" /\ accounts' = accounts
        /\ reservations' = [reservations EXCEPT ![i] = s]
    BY DEF Activate
  <1>2. Live(r)
    BY <1>1 DEF Live
  <1>3. /\ r \in Attempt /\ r.budget \in Account /\ r.reserve \in Amounts
        /\ r.observed \in Amounts /\ FitsWithin(r.observed, r.reserve)
        /\ RecordValidates(r) /\ r.finality = None
    BY <1>2, LiveAttempt
  <1>4. reservations'[i] = s
    BY <1>1, LedgerParts
  <1>5. e # None
    BY BudgetAssumption
  <1>6. /\ s \in Attempt /\ s.phase = "Active" /\ s.activation_evidence = e
        /\ s.budget = r.budget /\ s.action = r.action /\ s.consume_now = r.consume_now
        /\ s.reserve = r.reserve /\ s.observed = r.observed
        /\ s.observation_evidence = r.observation_evidence
        /\ s.final_evidence = r.final_evidence /\ s.finality = r.finality
    BY <1>3 DEF Attempt, ReservationPhase
  <1> HIDE DEF s
  <1>7. r.observed = Zero /\ r.final_evidence = None
    BY <1>1, <1>3 DEF RecordValidates
  <1>8. RecordValidates(s)
    BY <1>3, <1>5, <1>6, <1>7 DEF RecordValidates
  <1>9. FitsWithin(r.observed, s.observed)
    BY <1>3, <1>6 DEF FitsWithin, Amounts
  <1>10. Advance(r, s)
    BY <1>3, <1>5, <1>6, <1>8, <1>9 DEF Advance
  <1>11. Outstanding(s) = Outstanding(r)
    BY <1>1, <1>6 DEF Outstanding, Live
  <1>12. \A a \in Amounts : Minus(a, a) = Zero
    BY DEF Minus, Zero, Amounts
  <1>13. Minus(s.observed, r.observed) = Zero /\ Minus(Outstanding(s), Outstanding(r)) = Zero
    BY <1>2, <1>3, <1>6, <1>11, <1>12, LiveAttempt
  <1>14. Charge(accounts, accounts', r.budget, Zero, Zero)
    <2>1. ASSUME NEW b \in Account, NEW d \in Dimension
          PROVE  /\ accounts[b].consumed[d] \in Nat
                 /\ accounts[b].operation_reserved[d] \in Nat
                 /\ accounts[b].child_delegated_remaining[d] \in Nat
                 /\ Zero[d] = 0
      BY LedgerParts, FieldTypes DEF Zero
    <2>2. QED
      BY <1>1, <2>1, LedgerParts DEF Charge
  <1>15. Settling(i)
    BY <1>1, <1>2, <1>4, <1>6, <1>10, <1>13, <1>14 DEF Settling, Settles
  <1>16. QED
    BY <1>1, <1>4, <1>5, <1>6, <1>15 DEF Live

LEMMA AcceptableLive ==
  ASSUME Ledger, NEW i \in DOMAIN reservations, NEW u \in Amounts, NEW e \in Evidence,
         Acceptable(i, u, e)
  PROVE  /\ reservations[i].phase = "Active" /\ Live(reservations[i])
         /\ FitsWithin(reservations[i].observed, u)
         /\ reservations[i].activation_evidence # None
         /\ reservations[i].final_evidence = None
         /\ Delta(i, u) \in Amounts /\ e # None
  <1>1. /\ reservations[i].phase = "Active" /\ Live(reservations[i])
        /\ FitsWithin(reservations[i].observed, u)
    BY DEF Acceptable, Live
  <1>2. reservations[i].observed \in Amounts /\ RecordValidates(reservations[i])
    BY <1>1, LiveAttempt
  <1>3. QED
    BY <1>1, <1>2, AmountFacts, BudgetAssumption DEF Delta, RecordValidates

LEMMA ObserveInterimSettles ==
  ASSUME Ledger, NEW i \in DOMAIN reservations, NEW u \in Amounts, NEW e \in Evidence,
         ObserveInterim(i, u, e)
  PROVE  Settling(i)
  <1> DEFINE r == reservations[i]
             s == [r EXCEPT !.observed = u, !.observation_evidence = e]
             delta == Delta(i, u)
             x == r.budget
  <1>1. /\ Acceptable(i, u, e) /\ FitsWithin(u, r.reserve) /\ Chargeable(x, delta)
        /\ accounts' = Charged(Released(accounts, x, delta), x, delta)
        /\ reservations' = [reservations EXCEPT ![i] = s]
    BY DEF ObserveInterim
  <1>2. /\ r.phase = "Active" /\ Live(r) /\ FitsWithin(r.observed, u)
        /\ r.activation_evidence # None /\ r.final_evidence = None
        /\ delta \in Amounts /\ e # None
    BY <1>1, AcceptableLive
  <1>3. /\ r \in Attempt /\ r.finality = None /\ x \in Account /\ x \in accounts[x].lineage
        /\ r.reserve \in Amounts /\ r.observed \in Amounts
        /\ Outstanding(r) = Minus(r.reserve, r.observed)
        /\ FitsWithin(Outstanding(r), accounts[x].operation_reserved)
    BY <1>2, LiveAttempt
  <1>4. reservations'[i] = s
    BY <1>1, LedgerParts
  <1>5. /\ s \in Attempt /\ s.phase = "Active" /\ s.observed = u
        /\ s.activation_evidence = r.activation_evidence
        /\ s.budget = r.budget /\ s.action = r.action /\ s.consume_now = r.consume_now
        /\ s.reserve = r.reserve /\ s.observation_evidence = e
        /\ s.final_evidence = r.final_evidence /\ s.finality = r.finality
    BY <1>2, <1>3 DEF Attempt
  <1>6. delta = Minus(s.observed, r.observed)
    BY <1>5 DEF Delta
  <1> HIDE DEF s, delta
  <1>7. RecordValidates(s)
    BY <1>1, <1>2, <1>5 DEF RecordValidates
  <1>8. Advance(r, s)
    BY <1>2, <1>3, <1>5, <1>7 DEF Advance
  <1>9. Minus(Outstanding(s), Outstanding(r)) = Freed(delta)
    <2>1. Outstanding(s) = Minus(r.reserve, u)
      BY <1>5 DEF Outstanding, Live
    <2>2. ASSUME NEW d \in Dimension
          PROVE  Outstanding(s)[d] - Outstanding(r)[d] = 0 - delta[d]
      <3>1. /\ Outstanding(s)[d] = r.reserve[d] - u[d]
            /\ Outstanding(r)[d] = r.reserve[d] - r.observed[d]
            /\ delta[d] = u[d] - r.observed[d]
        BY <1>3, <1>5, <1>6, <2>1 DEF Minus
      <3>2. r.reserve[d] \in Int /\ u[d] \in Int /\ r.observed[d] \in Int
        BY <1>3 DEF Amounts
      <3>3. \A p, q, o \in Int : (p - q) - (p - o) = 0 - (q - o)
        OBVIOUS
      <3>4. QED
        BY <3>1, <3>2, <3>3
    <2>3. QED
      BY <2>2 DEF Minus, Freed
  <1>10. FitsWithin(delta, accounts[x].operation_reserved)
    <2> SUFFICES ASSUME NEW d \in Dimension
                 PROVE  delta[d] <= accounts[x].operation_reserved[d]
      BY DEF FitsWithin
    <2>1. /\ Outstanding(r)[d] = r.reserve[d] - r.observed[d]
          /\ delta[d] = u[d] - r.observed[d]
      BY <1>3, <1>5, <1>6 DEF Minus
    <2>2. /\ u[d] <= r.reserve[d] /\ Outstanding(r)[d] <= accounts[x].operation_reserved[d]
      BY <1>1, <1>3 DEF FitsWithin
    <2>3. r.reserve[d] \in Int /\ u[d] \in Int /\ r.observed[d] \in Int
            /\ accounts[x].operation_reserved[d] \in Int
      BY <1>3, LedgerParts, FieldTypes DEF Amounts
    <2>4. \A p, q, o, m \in Int : p - o <= m /\ q <= p => q - o <= m
      OBVIOUS
    <2>5. r.reserve[d] - r.observed[d] <= accounts[x].operation_reserved[d]
      BY <2>1, <2>2
    <2>6. u[d] - r.observed[d] <= accounts[x].operation_reserved[d]
      BY <2>2, <2>3, <2>4, <2>5
    <2>7. QED
      BY <2>1, <2>6
  <1>11. Charge(accounts, accounts', x, delta, Freed(delta))
    <2> HIDE DEF x
    <2>1. \A b \in accounts[x].lineage \ {x} :
            FitsWithin(delta, accounts[b].child_delegated_remaining)
      BY <1>1 DEF Chargeable
    <2>2. Charge(accounts, Charged(Released(accounts, x, delta), x, delta), x, delta,
                 Freed(delta))
      BY <1>2, <1>3, <1>10, <2>1, LedgerParts, SpendCharge
    <2>3. QED
      BY <1>1, <2>2
  <1>12. QED
    BY <1>1, <1>2, <1>4, <1>5, <1>6, <1>8, <1>9, <1>11 DEF Settling, Settles

\* Zero is what an attempt that is over still holds.
LEMMA SettledHoldsNothing ==
  ASSUME NEW r, NEW s, Outstanding(r) \in Amounts, ~Live(s)
  PROVE  Minus(Outstanding(s), Outstanding(r)) = Freed(Outstanding(r))
  <1>1. Outstanding(s) = Zero
    BY DEF Outstanding
  <1>2. \A d \in Dimension : Outstanding(s)[d] = 0
    BY <1>1 DEF Zero
  <1>3. QED
    BY <1>2 DEF Minus, Freed

LEMMA ObserveFinalSettles ==
  ASSUME Ledger, NEW i \in DOMAIN reservations, NEW u \in Amounts, NEW e \in Evidence,
         ObserveFinal(i, u, e)
  PROVE  /\ Settling(i)
         /\ reservations'[i].phase = "SettledFinal" /\ reservations'[i].finality = "Final"
  <1> DEFINE r == reservations[i]
             s == [r EXCEPT !.observed = u, !.observation_evidence = e,
                            !.phase = "SettledFinal", !.final_evidence = e,
                            !.final_reported = u, !.finality = "Final"]
             delta == Delta(i, u)
             rest == Minus(r.reserve, u)
             x == r.budget
  <1>1. /\ Acceptable(i, u, e) /\ FitsWithin(u, r.reserve) /\ Chargeable(x, delta)
        /\ accounts' = Released(Charged(Released(accounts, x, delta), x, delta), x, rest)
        /\ reservations' = [reservations EXCEPT ![i] = s]
    BY DEF ObserveFinal
  <1>2. /\ r.phase = "Active" /\ Live(r) /\ FitsWithin(r.observed, u)
        /\ r.activation_evidence # None /\ r.final_evidence = None
        /\ delta \in Amounts /\ e # None
    BY <1>1, AcceptableLive
  <1>3. /\ r \in Attempt /\ x \in Account /\ x \in accounts[x].lineage
        /\ r.reserve \in Amounts /\ r.observed \in Amounts
        /\ Outstanding(r) = Minus(r.reserve, r.observed)
        /\ Outstanding(r) \in Amounts
        /\ FitsWithin(Outstanding(r), accounts[x].operation_reserved)
    BY <1>2, LiveAttempt
  <1>4. reservations'[i] = s
    BY <1>1, LedgerParts
  <1>5. /\ s \in Attempt /\ s.phase = "SettledFinal" /\ s.observed = u
        /\ s.activation_evidence = r.activation_evidence
        /\ s.budget = r.budget /\ s.action = r.action /\ s.consume_now = r.consume_now
        /\ s.reserve = r.reserve /\ s.observation_evidence = e
        /\ s.final_evidence = e /\ s.final_reported = u /\ s.finality = "Final"
    BY <1>2, <1>3 DEF Attempt, ReservationPhase
  <1>6. delta = Minus(s.observed, r.observed) /\ rest \in Amounts
    BY <1>1, <1>3, <1>5, AmountFacts DEF Delta
  <1>7. ASSUME NEW d \in Dimension
        PROVE  /\ delta[d] = u[d] - r.observed[d] /\ rest[d] = r.reserve[d] - u[d]
               /\ Outstanding(r)[d] = r.reserve[d] - r.observed[d]
               /\ Outstanding(r)[d] <= accounts[x].operation_reserved[d]
               /\ r.reserve[d] \in Nat /\ u[d] \in Nat /\ r.observed[d] \in Nat
               /\ accounts[x].operation_reserved[d] \in Nat
               /\ r.observed[d] <= u[d] /\ u[d] <= r.reserve[d]
    <2>1. delta[d] = u[d] - r.observed[d] /\ rest[d] = r.reserve[d] - u[d]
            /\ Outstanding(r)[d] = r.reserve[d] - r.observed[d]
      BY <1>3, <1>5, <1>6 DEF Minus
    <2>2. /\ Outstanding(r)[d] <= accounts[x].operation_reserved[d]
          /\ r.observed[d] <= u[d] /\ u[d] <= r.reserve[d]
      BY <1>1, <1>2, <1>3 DEF FitsWithin
    <2>3. r.reserve[d] \in Nat /\ u[d] \in Nat /\ r.observed[d] \in Nat
            /\ accounts[x].operation_reserved[d] \in Nat
      BY <1>3, LedgerParts, FieldTypes DEF Amounts
    <2>4. QED
      BY <2>1, <2>2, <2>3
  <1> HIDE DEF s, delta, rest
  <1>8. RecordValidates(s)
    BY <1>1, <1>2, <1>5 DEF RecordValidates
  <1>9. Advance(r, s)
    BY <1>2, <1>5, <1>8 DEF Advance, Live
  <1>10. FitsWithin(delta, accounts[x].operation_reserved)
    <2>1. \A p, q, o, m \in Nat : p - o <= m /\ q <= p => q - o <= m
      OBVIOUS
    <2>2. ASSUME NEW d \in Dimension
          PROVE  delta[d] <= accounts[x].operation_reserved[d]
      <3>1. r.reserve[d] - r.observed[d] <= accounts[x].operation_reserved[d]
        BY <1>7
      <3>2. u[d] - r.observed[d] <= accounts[x].operation_reserved[d]
        BY <1>7, <2>1, <3>1
      <3>3. QED
        BY <1>7, <3>2
    <2>3. QED
      BY <2>2 DEF FitsWithin
  <1> DEFINE Y == Charged(Released(accounts, x, delta), x, delta)
  <1>11. Charge(accounts, Y, x, delta, Freed(delta))
    <2> HIDE DEF x
    <2>1. \A b \in accounts[x].lineage \ {x} :
            FitsWithin(delta, accounts[b].child_delegated_remaining)
      BY <1>1 DEF Chargeable
    <2>2. QED
      BY <1>2, <1>3, <1>10, <2>1, LedgerParts, SpendCharge
  <1> HIDE DEF Y
  <1>12. /\ Y \in Accts /\ x \in Y[x].lineage
         /\ \A d \in Dimension : Y[x].operation_reserved[d]
                                   = accounts[x].operation_reserved[d] + Freed(delta)[d]
    BY <1>3, <1>11 DEF Charge
  <1>13. FitsWithin(rest, Y[x].operation_reserved)
    <2>1. \A p, q, o, m \in Nat : p - o <= m => p - q <= m + (0 - (q - o))
      OBVIOUS
    <2>2. ASSUME NEW d \in Dimension
          PROVE  rest[d] <= Y[x].operation_reserved[d]
      <3>1. r.reserve[d] - r.observed[d] <= accounts[x].operation_reserved[d]
        BY <1>7
      <3>2. r.reserve[d] - u[d] <= accounts[x].operation_reserved[d]
                                     + (0 - (u[d] - r.observed[d]))
        BY <1>7, <2>1, <3>1
      <3>3. Freed(delta)[d] = 0 - (u[d] - r.observed[d])
        BY <1>7 DEF Freed
      <3>4. QED
        BY <1>7, <1>12, <3>2, <3>3
    <2>3. QED
      BY <2>2 DEF FitsWithin
  <1>14. Charge(Y, accounts', x, Zero, Freed(rest))
    BY <1>1, <1>3, <1>6, <1>12, <1>13, ReleasedCharge DEF Y
  <1>15. Charge(accounts, accounts', x, delta, Freed(Outstanding(r)))
    <2>1. \A d \in Dimension : delta[d] = delta[d] + Zero[d]
            /\ Freed(Outstanding(r))[d] = Freed(delta)[d] + Freed(rest)[d]
      <3>1. \A p, q, o \in Nat : 0 - (p - o) = (0 - (q - o)) + (0 - (p - q))
        OBVIOUS
      <3> SUFFICES ASSUME NEW d \in Dimension
                   PROVE  delta[d] = delta[d] + Zero[d]
                          /\ Freed(Outstanding(r))[d] = Freed(delta)[d] + Freed(rest)[d]
        OBVIOUS
      <3>2. /\ Freed(Outstanding(r))[d] = 0 - (r.reserve[d] - r.observed[d])
            /\ Freed(delta)[d] = 0 - (u[d] - r.observed[d])
            /\ Freed(rest)[d] = 0 - (r.reserve[d] - u[d])
        BY <1>7 DEF Freed
      <3>3. delta[d] \in Nat /\ Zero[d] = 0
        BY <1>2 DEF Amounts, Zero
      <3>4. 0 - (r.reserve[d] - r.observed[d])
              = (0 - (u[d] - r.observed[d])) + (0 - (r.reserve[d] - u[d]))
        BY <1>7, <3>1
      <3>5. QED
        BY <3>2, <3>3, <3>4
    <2>2. Freed(delta) \in [Dimension -> Int] /\ Freed(rest) \in [Dimension -> Int]
            /\ Zero \in Amounts
      BY <1>2, <1>6, SigmaTypes, AmountFacts
    <2> HIDE DEF x
    <2>3. QED
      BY <1>2, <1>3, <1>11, <1>14, <2>1, <2>2, LedgerParts, ChargeThenCharge
  <1>16. Minus(Outstanding(s), Outstanding(r)) = Freed(Outstanding(r))
    BY <1>3, <1>5, SettledHoldsNothing DEF Live
  <1>17. Settling(i)
    BY <1>1, <1>2, <1>4, <1>5, <1>6, <1>9, <1>15, <1>16 DEF Settling, Settles
  <1>18. QED
    BY <1>4, <1>5, <1>17

\* The whole ceiling is spent: overruns and settlements without a report.
LEMMA CeilingSpent ==
  ASSUME Ledger, NEW i \in DOMAIN reservations, Live(reservations[i]),
         Chargeable(reservations[i].budget, Outstanding(reservations[i]))
  PROVE  Charge(accounts,
                Charged(Released(accounts, reservations[i].budget, Outstanding(reservations[i])),
                        reservations[i].budget, Outstanding(reservations[i])),
                reservations[i].budget, Outstanding(reservations[i]),
                Freed(Outstanding(reservations[i])))
  <1> DEFINE x == reservations[i].budget
             m == Outstanding(reservations[i])
  <1>1. /\ x \in Account /\ x \in accounts[x].lineage
        /\ m \in Amounts /\ FitsWithin(m, accounts[x].operation_reserved)
    BY LiveAttempt
  <1>2. \A b \in accounts[x].lineage \ {x} :
          FitsWithin(m, accounts[b].child_delegated_remaining)
    BY DEF Chargeable
  <1> HIDE DEF x, m
  <1>3. Charge(accounts, Charged(Released(accounts, x, m), x, m), x, m, Freed(m))
    BY <1>1, <1>2, LedgerParts, SpendCharge
  <1>4. QED
    BY <1>3 DEF x, m

LEMMA ObserveOverrunSettles ==
  ASSUME Ledger, NEW i \in DOMAIN reservations, NEW u \in Amounts, NEW e \in Evidence,
         NEW finality \in {"Interim", "Final"}, ObserveOverrun(i, u, e, finality)
  PROVE  /\ Settling(i)
         /\ reservations'[i].phase = "OverrunFaulted" /\ reservations'[i].finality = finality
  <1> DEFINE r == reservations[i]
             s == [r EXCEPT !.observed = r.reserve, !.observation_evidence = e,
                            !.phase = "OverrunFaulted", !.final_evidence = e,
                            !.final_reported = u, !.finality = finality]
             m == Outstanding(r)
             x == r.budget
  <1>1. /\ Acceptable(i, u, e) /\ ~FitsWithin(u, r.reserve) /\ Chargeable(x, m)
        /\ accounts' = FaultedLineage(Charged(Released(accounts, x, m), x, m), x)
        /\ reservations' = [reservations EXCEPT ![i] = s]
    BY DEF ObserveOverrun
  <1>2. /\ r.phase = "Active" /\ Live(r)
        /\ r.activation_evidence # None /\ e # None
    BY <1>1, AcceptableLive
  <1>3. /\ r \in Attempt /\ x \in Account /\ r.reserve \in Amounts /\ r.observed \in Amounts
        /\ m = Minus(r.reserve, r.observed) /\ m \in Amounts
        /\ FitsWithin(r.observed, r.reserve)
    BY <1>2, LiveAttempt
  <1>4. reservations'[i] = s
    BY <1>1, LedgerParts
  <1>5. /\ s \in Attempt /\ s.phase = "OverrunFaulted" /\ s.observed = r.reserve
        /\ s.activation_evidence = r.activation_evidence
        /\ s.budget = r.budget /\ s.action = r.action /\ s.consume_now = r.consume_now
        /\ s.reserve = r.reserve /\ s.observation_evidence = e
        /\ s.final_evidence = e /\ s.final_reported = u /\ s.finality = finality
    BY <1>2, <1>3 DEF Attempt, ReservationPhase
  <1> HIDE DEF s
  <1>6. m = Minus(s.observed, r.observed)
    BY <1>3, <1>5
  <1>7. RecordValidates(s)
    <2>1. FitsWithin(s.observed, s.reserve)
      BY <1>3, <1>5 DEF FitsWithin, Amounts
    <2>2. s.finality # None
      BY <1>5, BudgetAssumption
    <2>3. QED
      BY <1>1, <1>2, <1>5, <2>1, <2>2 DEF RecordValidates
  <1>8. Advance(r, s)
    BY <1>2, <1>3, <1>5, <1>7 DEF Advance, Live
  <1> DEFINE Y == Charged(Released(accounts, x, m), x, m)
  <1>9. Charge(accounts, Y, x, m, Freed(m))
    BY <1>1, <1>2, CeilingSpent
  <1> HIDE DEF Y
  <1>10. Y \in Accts /\ Y[x].lineage = accounts[x].lineage
    BY <1>3, <1>9 DEF Charge
  <1>11. /\ Charge(Y, accounts', x, Zero, Zero)
         /\ \A b \in accounts[x].lineage : accounts'[b].phase = "Faulted"
    BY <1>1, <1>3, <1>10, FaultedCharge DEF Y
  <1>12. Charge(accounts, accounts', x, m, Freed(m))
    <2>1. m \in Amounts /\ Freed(m) \in [Dimension -> Int] /\ accounts \in Accts
      BY <1>3, SigmaTypes, LedgerParts
    <2>2. x \in Account /\ Charge(Y, accounts', x, Zero, Zero)
      BY <1>3, <1>11
    <2> HIDE DEF x, m
    <2>3. QED
      BY <1>9, <2>1, <2>2, ChargeThenNothing
  <1>13. Minus(Outstanding(s), Outstanding(r)) = Freed(m)
    BY <1>3, <1>5, SettledHoldsNothing DEF Live
  <1>14. Settling(i)
    BY <1>1, <1>2, <1>4, <1>6, <1>8, <1>11, <1>12, <1>13 DEF Settling, Settles
  <1>15. QED
    BY <1>4, <1>5, <1>14

LEMMA FinalizeSettles ==
  ASSUME Ledger, NEW i \in DOMAIN reservations, NEW e \in Evidence,
         NEW phase \in {"SettledExact", "SettledAmbiguous"}, Finalize(i, e, phase)
  PROVE  /\ Settling(i) \/ UNCHANGED ledger
         /\ reservations'[i].phase = phase
  <1> DEFINE r == reservations[i]
             s == [r EXCEPT !.observed = r.reserve, !.phase = phase, !.final_evidence = e]
             m == Outstanding(r)
             x == r.budget
  <1>1. CASE r.phase = phase /\ UNCHANGED ledger
    BY <1>1 DEF ledger
  <1>2. CASE /\ r.phase = "Active" /\ Chargeable(x, m)
             /\ accounts' = Charged(Released(accounts, x, m), x, m)
             /\ reservations' = [reservations EXCEPT ![i] = s]
    <2>1. Live(r)
      BY <1>2 DEF Live
    <2>2. /\ r \in Attempt /\ x \in Account /\ r.reserve \in Amounts /\ r.observed \in Amounts
          /\ m = Minus(r.reserve, r.observed) /\ m \in Amounts
          /\ FitsWithin(r.observed, r.reserve) /\ RecordValidates(r)
      BY <2>1, LiveAttempt
    <2>3. reservations'[i] = s
      BY <1>2, LedgerParts
    <2>4. /\ s \in Attempt /\ s.phase = phase /\ s.observed = r.reserve
          /\ s.activation_evidence = r.activation_evidence
          /\ s.budget = r.budget /\ s.action = r.action /\ s.consume_now = r.consume_now
          /\ s.reserve = r.reserve /\ s.final_evidence = e
          /\ s.finality = r.finality
      BY <2>2 DEF Attempt, ReservationPhase
    <2> HIDE DEF s
    <2>5. m = Minus(s.observed, r.observed)
      BY <2>2, <2>4
    <2>6. RecordValidates(s)
      <3>1. FitsWithin(s.observed, s.reserve)
        BY <2>2, <2>4 DEF FitsWithin, Amounts
      <3>2. e # None /\ r.activation_evidence # None
        BY <1>2, <2>2, BudgetAssumption DEF RecordValidates
      <3>3. s.finality = None
        BY <2>1, <2>4, LedgerParts DEF Records
      <3>4. QED
        BY <2>4, <3>1, <3>2, <3>3 DEF RecordValidates
    <2>7. Advance(r, s)
      BY <2>2, <2>4, <2>6 DEF Advance, Live
    <2>8. Charge(accounts, accounts', x, m, Freed(m))
      BY <1>2, <2>1, CeilingSpent
    <2>9. Minus(Outstanding(s), Outstanding(r)) = Freed(m)
      BY <2>2, <2>4, SettledHoldsNothing DEF Live
    <2>10. Settling(i)
      BY <1>2, <2>1, <2>3, <2>4, <2>5, <2>7, <2>8, <2>9 DEF Settling, Settles
    <2>11. QED
      BY <2>3, <2>4, <2>10
  <1>3. QED
    BY <1>1, <1>2 DEF Finalize

LEMMA CancelSettles ==
  ASSUME Ledger, NEW i \in DOMAIN reservations, NEW e \in Evidence, CancelHeld(i, e)
  PROVE  /\ Settling(i) \/ UNCHANGED ledger
         /\ reservations'[i].phase = "CancelledHeld"
  <1> DEFINE r == reservations[i]
             s == [r EXCEPT !.phase = "CancelledHeld", !.final_evidence = e]
             x == r.budget
  <1>1. CASE r.phase = "CancelledHeld" /\ UNCHANGED ledger
    BY <1>1 DEF ledger
  <1>2. CASE /\ r.phase = "Held"
             /\ accounts' = Released(accounts, x, r.reserve)
             /\ reservations' = [reservations EXCEPT ![i] = s]
    <2>1. Live(r)
      BY <1>2 DEF Live
    <2>2. /\ r \in Attempt /\ x \in Account /\ x \in accounts[x].lineage
          /\ r.reserve \in Amounts /\ r.observed \in Amounts
          /\ Outstanding(r) = Minus(r.reserve, r.observed) /\ Outstanding(r) \in Amounts
          /\ FitsWithin(r.observed, r.reserve) /\ RecordValidates(r)
          /\ FitsWithin(Outstanding(r), accounts[x].operation_reserved)
      BY <2>1, LiveAttempt
    <2>3. reservations'[i] = s
      BY <1>2, LedgerParts
    <2>4. /\ s \in Attempt /\ s.phase = "CancelledHeld" /\ s.observed = r.observed
          /\ s.activation_evidence = r.activation_evidence
          /\ s.observation_evidence = r.observation_evidence
          /\ s.budget = r.budget /\ s.action = r.action /\ s.consume_now = r.consume_now
          /\ s.reserve = r.reserve /\ s.final_evidence = e
      BY <2>2 DEF Attempt, ReservationPhase
    <2> HIDE DEF s
    <2>5. /\ r.observed = Zero /\ r.activation_evidence = None
          /\ r.observation_evidence = None
      BY <1>2, <2>2 DEF RecordValidates
    <2>6. Outstanding(r) = r.reserve
      <3>1. \A m \in Amounts : Minus(m, Zero) = m
        BY DEF Minus, Zero, Amounts
      <3>2. QED
        BY <2>2, <2>5, <3>1
    <2>7. Minus(s.observed, r.observed) = Zero
      <3>1. \A m \in Amounts : Minus(m, m) = Zero
        BY DEF Minus, Zero, Amounts
      <3>2. QED
        BY <2>2, <2>4, <3>1
    <2>8. RecordValidates(s)
      <3>1. FitsWithin(s.observed, s.reserve)
        BY <2>2, <2>4
      <3>2. e # None
        BY BudgetAssumption
      <3>3. QED
        BY <2>4, <2>5, <3>1, <3>2 DEF RecordValidates
    <2>9. FitsWithin(r.observed, s.observed)
      BY <2>2, <2>4 DEF FitsWithin, Amounts
    <2>10. Advance(r, s)
      BY <2>4, <2>5, <2>8, <2>9 DEF Advance, Live
    <2>11. Charge(accounts, accounts', x, Zero, Freed(r.reserve))
      <3>1. FitsWithin(r.reserve, accounts[x].operation_reserved)
        BY <2>2, <2>6
      <3>2. QED
        BY <1>2, <2>2, <3>1, LedgerParts, ReleasedCharge
    <2>12. Minus(Outstanding(s), Outstanding(r)) = Freed(r.reserve)
      <3>1. Minus(Outstanding(s), Outstanding(r)) = Freed(Outstanding(r))
        BY <2>2, <2>4, SettledHoldsNothing DEF Live
      <3>2. QED
        BY <2>6, <3>1
    <2>13. Settling(i)
      BY <1>2, <2>1, <2>3, <2>4, <2>7, <2>10, <2>11, <2>12 DEF Settling, Settles
    <2>14. QED
      BY <2>3, <2>4, <2>13
  <1>3. QED
    BY <1>1, <1>2 DEF CancelHeld

\* What a report to attempt i does.
LEMMA ObserveSettles ==
  ASSUME Ledger, NEW i \in DOMAIN reservations, NEW u \in Usage, NEW e \in Evidence,
         NEW finality \in {"Interim", "Final"}, Observe(i, u, e, finality)
  PROVE  /\ Settling(i) \/ UNCHANGED ledger
         /\ finality = "Final" =>
              /\ reservations'[i].phase \in {"SettledFinal", "OverrunFaulted"}
              /\ reservations'[i].finality = "Final"
  <1>1. u \in Amounts
    BY UsageType
  <1>2. CASE finality = "Interim" /\ ObserveInterim(i, u, e)
    BY <1>1, <1>2, ObserveInterimSettles
  <1>3. CASE finality = "Final" /\ ObserveFinal(i, u, e)
    BY <1>1, <1>3, ObserveFinalSettles
  <1>4. CASE ObserveOverrun(i, u, e, finality)
    BY <1>1, <1>4, ObserveOverrunSettles
  <1>5. CASE ObserveReplay(i, u, e, finality)
    BY <1>5 DEF ObserveReplay, ledger
  <1>6. QED
    BY <1>2, <1>3, <1>4, <1>5 DEF Observe

Beginning ==
  /\ Len(reservations) < MaxReservations
  /\ Begins(accounts, reservations, accounts', reservations',
            reservations'[Len(reservations) + 1])

LEMMA BeginBegins ==
  ASSUME Ledger, NEW a \in Account, NEW action \in Action, NEW request \in Request,
         NEW retry \in BOOLEAN, Begin(a, action, request, retry)
  PROVE  Beginning
  <1> DEFINE now == Plus(Metered(request.now), AttemptCharge(retry))
             reserve == Metered(request.ceiling)
             s == NewReservation(a, action, now, reserve)
             Y == Charged(accounts, a, now)
  <1>1. /\ Len(reservations) < MaxReservations
        /\ OpenLineage(a) /\ Resolved(action) /\ RetryTruth(action, retry)
        /\ FitsWithin(Plus(now, reserve), Available(a))
        /\ Chargeable(a, now)
        /\ accounts' = [Y EXCEPT ![a].operation_reserved = Plus(@, reserve)]
        /\ reservations' = Append(reservations, s)
    BY DEF Begin
  <1>2. now \in Amounts /\ reserve \in Amounts /\ now["Retries"] = IF retry THEN 1 ELSE 0
    BY RequestType
  <1> HIDE DEF now, reserve
  <1>3. /\ s.budget = a /\ s.action = action /\ s.consume_now = now /\ s.reserve = reserve
        /\ s.observed = Zero /\ s.finality = None
        /\ s.phase = IF reserve = Zero THEN "SettledExact" ELSE "Held"
        /\ s.activation_evidence = None /\ s.observation_evidence = None
        /\ s.final_evidence = None
    BY DEF NewReservation
  <1>4. s \in Attempt
    BY <1>2, AmountFacts DEF NewReservation, Attempt, ReservationPhase
  <1> HIDE DEF s
  <1>5. reservations'[Len(reservations) + 1] = s
    BY <1>1, LedgerParts
  <1>6. FitsWithin(Zero, reserve)
    BY <1>2 DEF FitsWithin, Zero, Amounts
  <1>7. RecordValidates(s)
    BY <1>3, <1>6 DEF RecordValidates
  <1>8. Outstanding(s) = s.reserve
    <2>1. \A m \in Amounts : Minus(m, Zero) = m
      BY DEF Minus, Zero, Amounts
    <2>2. QED
      BY <1>2, <1>3, <2>1 DEF Outstanding, Live
  <1>9. \A j \in Tries(reservations, s.action) : ~Live(reservations[j])
    BY <1>1, <1>3 DEF Resolved, Prior, Tries
  <1>10. s.consume_now["Retries"] = IF Tries(reservations, s.action) = {} THEN 0 ELSE 1
    BY <1>1, <1>2, <1>3 DEF RetryTruth, Prior, Tries
  <1>11. /\ accounts[a].phase = "Open"
         /\ \A b \in accounts[a].lineage : accounts[b].phase = "Open"
    BY <1>1 DEF OpenLineage
  <1>12. a \in accounts[a].lineage
    BY <1>11, LedgerParts DEF Tree
  <1>13. ASSUME NEW d \in Dimension
         PROVE  now[d] + reserve[d] <=
                  accounts[a].limits[d] - accounts[a].consumed[d]
                    - accounts[a].operation_reserved[d]
                    - accounts[a].child_delegated_remaining[d]
    BY <1>1 DEF FitsWithin, Plus, Minus, Available
  <1>14. Charge(accounts, accounts', a, now, reserve)
    <2>1. Charge(accounts, Y, a, now, Zero)
      <3>1. \A b \in accounts[a].lineage \ {a} :
              FitsWithin(now, accounts[b].child_delegated_remaining)
        BY <1>1 DEF Chargeable
      <3>2. QED
        BY <1>2, <1>12, <3>1, LedgerParts, ChargedCharge
    <2> HIDE DEF Y
    <2>2. Y \in Accts /\ a \in Y[a].lineage
      BY <1>12, <2>1 DEF Charge
    <2>3. Charge(Y, accounts', a, Zero, reserve)
      BY <1>1, <1>2, <2>2, ReservedCharge
    <2>4. ASSUME NEW z, z = Zero
          PROVE  Charge(accounts, accounts', a, now, reserve)
      <3>1. /\ Charge(Y, accounts', a, z, reserve) /\ z \in Amounts
            /\ Zero \in [Dimension -> Int] /\ reserve \in [Dimension -> Int]
        BY <1>2, <2>3, <2>4, AmountFacts, SigmaTypes
      <3>2. \A d \in Dimension : now[d] = now[d] + z[d] /\ reserve[d] = Zero[d] + reserve[d]
        <4>1. \A d \in Dimension : now[d] \in Int /\ reserve[d] \in Int /\ z[d] = 0
          BY <1>2, <2>4, SigmaTypes DEF Amounts
        <4>2. QED
          BY <2>4, <4>1
      <3>3. QED
        BY <1>2, <2>1, <3>1, <3>2, LedgerParts, ChargeThenCharge
    <2>5. QED
      BY <2>4
  <1>15. Begins(accounts, reservations, accounts', reservations', s)
    <2>1. s.phase # "OverrunFaulted"
      BY <1>3
    <2>2. QED
      BY <1>1, <1>3, <1>4, <1>7, <1>8, <1>9, <1>10, <1>11, <1>13, <1>14, <2>1 DEF Begins
  <1>16. QED
    BY <1>1, <1>3, <1>5, <1>15 DEF Beginning

------------------------------------------------------------------------------
(* The commands on accounts *)

LEMMA AllocateAllocates ==
  ASSUME Ledger, NEW c \in Account, NEW p \in Account, NEW limits \in Limits,
         AllocateChild(c, p, limits)
  PROVE  /\ Allocates(accounts, accounts', c, p, limits)
         /\ limits \in Amounts /\ reservations' = reservations
  <1> DEFINE more == Plus(accounts[p].child_delegated_remaining, limits)
             new == NewAccount(p, accounts[p].lineage \cup {c}, limits)
  <1>1. /\ accounts[c].phase = "Absent" /\ OpenLineage(p)
        /\ FitsWithin(limits, Available(p))
        /\ reservations' = reservations
        /\ accounts' = [accounts EXCEPT
                          ![p].child_delegated_remaining = Plus(@, limits), ![c] = new]
    BY DEF AllocateChild
  <1>2. limits \in Amounts
    BY BudgetAssumption
  <1>3. c # p
    BY <1>1 DEF OpenLineage
  <1>4. accounts[p] \in AccountRecord /\ accounts[p].lineage \subseteq Account
          /\ accounts \in [Account -> AccountRecord]
    BY LedgerParts, FieldTypes DEF Accts
  <1>5. more \in Amounts
    BY <1>2, <1>4, AmountFacts DEF AccountRecord
  <1>6. new \in AccountRecord
    BY <1>2, <1>4, AmountFacts DEF NewAccount, AccountRecord, AccountPhase
  <1>7. /\ accounts'[c] = new
        /\ accounts'[p] = [accounts[p] EXCEPT !.child_delegated_remaining = more]
        /\ \A b \in Account \ {c, p} : accounts'[b] = accounts[b]
        /\ DOMAIN accounts' = Account
        /\ accounts' = [b \in Account |-> accounts'[b]]
    BY <1>1, <1>3, <1>4 DEF AccountRecord
  <1> HIDE DEF more, new
  <1>8. accounts' \in Accts
    <2>1. [accounts[p] EXCEPT !.child_delegated_remaining = more] \in AccountRecord
      BY <1>4, <1>5 DEF AccountRecord
    <2>2. \A b \in Account : accounts'[b] \in AccountRecord
      BY <1>4, <1>6, <1>7, <2>1
    <2>3. QED
      BY <1>7, <2>2 DEF Accts
  <1>9. /\ accounts[p].phase = "Open"
        /\ \A b \in accounts[p].lineage : accounts[b].phase = "Open"
    BY <1>1 DEF OpenLineage
  <1>10. ASSUME NEW d \in Dimension
         PROVE  limits[d] <=
                  accounts[p].limits[d] - accounts[p].consumed[d]
                    - accounts[p].operation_reserved[d]
                    - accounts[p].child_delegated_remaining[d]
    BY <1>1 DEF FitsWithin, Minus, Available
  <1>11. QED
    BY <1>1, <1>2, <1>7, <1>8, <1>9, <1>10 DEF Allocates, more, new

LEMMA SealSeals ==
  ASSUME Ledger, NEW a \in Account, Seal(a)
  PROVE  Seals(accounts, accounts', a) /\ reservations' = reservations
  <1>1. accounts[a] \in AccountRecord /\ accounts \in [Account -> AccountRecord]
    BY LedgerParts DEF Accts
  <1>2. accounts' = [accounts EXCEPT ![a].phase = "Draining"]
    BY DEF Seal
  <1>3. accounts' = [accounts EXCEPT ![a] = [accounts[a] EXCEPT !.phase = "Draining"]]
    BY <1>1, <1>2 DEF AccountRecord
  <1>4. QED
    BY <1>3 DEF Seal, Seals, Sealable

LEMMA CloseCloses ==
  ASSUME Ledger, NEW a \in Account, Close(a)
  PROVE  Closes(accounts, reservations, accounts', a) /\ reservations' = reservations
  <1> DEFINE p == accounts[a].parent
             unused == Unused(a)
             less == Minus(accounts[p].child_delegated_remaining, unused)
             closed == [accounts EXCEPT ![a].phase = "Closed"]
  <1>1. /\ accounts[a].phase \in {"Draining", "Faulted"}
        /\ ~HasLiveWork(a) /\ reservations' = reservations
        /\ p # None => FitsWithin(unused, accounts[p].child_delegated_remaining)
        /\ accounts' = IF p = None THEN closed
                       ELSE [closed EXCEPT ![p].child_delegated_remaining = Minus(@, unused)]
    BY DEF Close
  <1>2. /\ \A i \in DOMAIN reservations : reservations[i].budget = a => ~Live(reservations[i])
        /\ \A b \in Account : accounts[b].parent = a => accounts[b].phase = "Closed"
    BY <1>1 DEF HasLiveWork
  <1>3. /\ accounts[a] \in AccountRecord /\ accounts \in [Account -> AccountRecord]
        /\ p \in Account \cup {None} /\ \A b \in Account : accounts[b] \in AccountRecord
    BY LedgerParts, FieldTypes DEF Accts
  <1>4. p # a
    BY LedgerParts, <1>1, BudgetAssumption DEF Tree
  <1>5. [accounts[a] EXCEPT !.phase = "Closed"] \in AccountRecord
    BY <1>3 DEF AccountRecord, AccountPhase
  <1>6. /\ closed = [accounts EXCEPT ![a] = [accounts[a] EXCEPT !.phase = "Closed"]]
        /\ closed \in [Account -> AccountRecord]
    BY <1>3, <1>5 DEF AccountRecord
  <1> HIDE DEF closed
  <1>7. unused \in Amounts
    <2>1. ASSUME NEW d \in Dimension
          PROVE  accounts[a].limits[d] - accounts[a].consumed[d] \in Nat
      <3>1. /\ accounts[a].limits[d] \in Nat /\ accounts[a].consumed[d] \in Nat
            /\ accounts[a].operation_reserved[d] \in Nat
            /\ accounts[a].child_delegated_remaining[d] \in Nat
        BY LedgerParts, FieldTypes
      <3>2. accounts[a].consumed[d] + accounts[a].operation_reserved[d]
              + accounts[a].child_delegated_remaining[d] <= accounts[a].limits[d]
        BY LedgerParts DEF Balanced
      <3>3. QED
        BY <3>1, <3>2
    <2>2. QED
      BY <2>1 DEF Unused, Minus, Amounts
  <1>8. CASE p = None
    <2>1. /\ accounts' \in Accts
          /\ \A b \in Account \ {a} : accounts'[b] = accounts[b]
          /\ accounts'[a] = [accounts[a] EXCEPT !.phase = "Closed"]
      BY <1>1, <1>3, <1>6, <1>8 DEF Accts
    <2>2. \A b \in Account :
            /\ accounts'[b].parent = accounts[b].parent
            /\ accounts'[b].lineage = accounts[b].lineage
            /\ accounts'[b].limits = accounts[b].limits
            /\ accounts'[b].consumed = accounts[b].consumed
            /\ accounts'[b].operation_reserved = accounts[b].operation_reserved
            /\ accounts'[b].child_delegated_remaining = accounts[b].child_delegated_remaining
            /\ accounts'[b].phase = IF b = a THEN "Closed" ELSE accounts[b].phase
      BY <1>3, <2>1 DEF AccountRecord
    <2>3. \A b \in Account : b # p
      BY <1>8, BudgetAssumption
    <2>4. QED
      BY <1>1, <1>2, <2>1, <2>2, <2>3 DEF Closes
  <1>9. CASE p # None
    <2>1. p \in Account
      BY <1>3, <1>9
    <2>2. less \in Amounts
      BY <1>1, <1>3, <1>7, <1>9, <2>1, AmountFacts DEF AccountRecord
    <2>3. closed[p] = accounts[p] /\ closed[a] = [accounts[a] EXCEPT !.phase = "Closed"]
            /\ \A b \in Account \ {a} : closed[b] = accounts[b]
      BY <1>3, <1>4, <1>6, <2>1
    <2>4. accounts' = [closed EXCEPT ![p] =
                         [accounts[p] EXCEPT !.child_delegated_remaining = less]]
      <3>1. accounts' = [closed EXCEPT ![p].child_delegated_remaining = Minus(@, unused)]
        BY <1>1, <1>9
      <3>2. QED
        BY <1>6, <2>1, <2>3, <3>1 DEF AccountRecord
    <2> HIDE DEF less
    <2>5. [accounts[p] EXCEPT !.child_delegated_remaining = less] \in AccountRecord
      BY <1>3, <2>1, <2>2 DEF AccountRecord
    <2>6. /\ accounts' \in Accts
          /\ accounts'[p] = [accounts[p] EXCEPT !.child_delegated_remaining = less]
          /\ accounts'[a] = [accounts[a] EXCEPT !.phase = "Closed"]
          /\ \A b \in Account \ {a, p} : accounts'[b] = accounts[b]
      BY <1>4, <1>6, <2>1, <2>3, <2>4, <2>5 DEF Accts
    <2>7. \A b \in Account :
            /\ accounts'[b].parent = accounts[b].parent
            /\ accounts'[b].lineage = accounts[b].lineage
            /\ accounts'[b].limits = accounts[b].limits
            /\ accounts'[b].consumed = accounts[b].consumed
            /\ accounts'[b].operation_reserved = accounts[b].operation_reserved
            /\ accounts'[b].phase = IF b = a THEN "Closed" ELSE accounts[b].phase
            /\ b # p => accounts'[b].child_delegated_remaining
                          = accounts[b].child_delegated_remaining
            /\ b = p => accounts'[b].child_delegated_remaining = less
      BY <1>3, <1>4, <2>1, <2>6 DEF AccountRecord
    <2>8. \A d \in Dimension :
            less[d] = accounts[p].child_delegated_remaining[d]
                        - (accounts[a].limits[d] - accounts[a].consumed[d])
      BY DEF less, Unused, Minus
    <2>9. QED
      BY <1>1, <1>2, <2>1, <2>6, <2>7, <2>8 DEF Closes
  <1>10. QED
    BY <1>8, <1>9

------------------------------------------------------------------------------
(* Every command keeps the ledger *)

Allocating == \E c, p \in Account, limits \in Amounts :
                Allocates(accounts, accounts', c, p, limits) /\ reservations' = reservations
Sealing == \E a \in Account : Seals(accounts, accounts', a) /\ reservations' = reservations
Closing == \E a \in Account :
             Closes(accounts, reservations, accounts', a) /\ reservations' = reservations

\* The ways in which a command may change the ledger.
LedgerStep ==
  \/ UNCHANGED ledger
  \/ \E i \in DOMAIN reservations : Settling(i)
  \/ Beginning
  \/ Allocating \/ Sealing \/ Closing

LEMMA ActivateStep ==
  ASSUME Ledger, NEW i \in DOMAIN reservations, NEW e \in Evidence, Activate(i, e)
  PROVE  /\ Settling(i) \/ UNCHANGED ledger
         /\ reservations'[i].activation_evidence # None
         /\ Live(reservations[i]) /\ Live(reservations'[i])
  <1>1. CASE Repeats(i, e) /\ UNCHANGED reservations
    BY <1>1, BudgetAssumption DEF Activate, Repeats, ledger, Live
  <1>2. CASE ~Repeats(i, e)
    <2>1. reservations[i].phase = "Held"
      BY <1>2 DEF Activate
    <2>2. Live(reservations[i])
      BY <2>1 DEF Live
    <2>3. QED
      BY <1>2, <2>2, ActivateSettles
  <1>3. CASE Repeats(i, e) /\ ~UNCHANGED reservations
    <2>1. reservations[i].phase = "Active" /\ reservations[i].phase = "Held"
      BY <1>3 DEF Activate, Repeats
    <2>2. QED
      BY <2>1
  <1>4. QED
    BY <1>1, <1>2, <1>3

LEMMA NextSteps ==
  ASSUME Ledger, Next
  PROVE  LedgerStep
  <1>1. ASSUME NEW c \in Account, NEW p \in Account, NEW limits \in Limits,
               AllocateChild(c, p, limits)
        PROVE  LedgerStep
    BY <1>1, AllocateAllocates DEF LedgerStep, Allocating
  <1>2. ASSUME NEW a \in Account, Seal(a)
        PROVE  LedgerStep
    BY <1>2, SealSeals DEF LedgerStep, Sealing
  <1>3. ASSUME NEW a \in Account, Close(a)
        PROVE  LedgerStep
    BY <1>3, CloseCloses DEF LedgerStep, Closing
  <1>4. ASSUME NEW i \in DOMAIN reservations, NEW e \in Evidence, SettleExact(i, e)
        PROVE  LedgerStep
    BY <1>4, FinalizeSettles DEF LedgerStep, SettleExact
  <1>5. ASSUME NEW a \in Account, NEW action \in Action, NEW request \in Request,
               NEW retry \in BOOLEAN, Begin(a, action, request, retry)
        PROVE  LedgerStep
    BY <1>5, BeginBegins DEF LedgerStep
  <1>6. ASSUME NEW i \in DOMAIN reservations, NEW e \in Evidence, Activate(i, e)
        PROVE  LedgerStep
    BY <1>6, ActivateStep DEF LedgerStep
  <1>7. ASSUME NEW i \in DOMAIN reservations, NEW e \in Evidence, FinalizeAmbiguous(i, e)
        PROVE  LedgerStep
    BY <1>7, FinalizeSettles DEF LedgerStep, FinalizeAmbiguous
  <1>8. ASSUME NEW i \in DOMAIN reservations, NEW e \in Evidence, CancelHeld(i, e)
        PROVE  LedgerStep
    BY <1>8, CancelSettles DEF LedgerStep
  <1>9. ASSUME NEW i \in DOMAIN reservations, NEW e \in Evidence, NEW u \in Usage,
               NEW finality \in {"Interim", "Final"}, Observe(i, u, e, finality)
        PROVE  LedgerStep
    BY <1>9, ObserveSettles DEF LedgerStep
  <1>10. QED
    BY <1>1, <1>2, <1>3, <1>4, <1>5, <1>6, <1>7, <1>8, <1>9 DEF Next, Administer, Operate

LEMMA StepInv ==
  ASSUME Ledger, LedgerStep
  PROVE  Ledger'
  <1>1. CASE UNCHANGED ledger
    BY <1>1 DEF ledger, Ledger
  <1>2. ASSUME NEW i \in DOMAIN reservations, Settling(i)
        PROVE  LedgerInv(accounts', reservations')
    BY <1>2, SettlesInv DEF Ledger, Settling
  <1>3. CASE Beginning
    BY <1>3, BeginsInv DEF Ledger, Beginning
  <1>4. CASE Allocating
    <2>1. PICK c \in Account, p \in Account, limits \in Amounts :
            Allocates(accounts, accounts', c, p, limits) /\ reservations' = reservations
      BY <1>4 DEF Allocating
    <2>2. LedgerInv(accounts', reservations)
      BY <2>1, AllocatesInv DEF Ledger
    <2>3. QED
      BY <2>1, <2>2 DEF Ledger
  <1>5. CASE Sealing
    <2>1. PICK a \in Account :
            Seals(accounts, accounts', a) /\ reservations' = reservations
      BY <1>5 DEF Sealing
    <2>2. LedgerInv(accounts', reservations)
      BY <2>1, SealsInv DEF Ledger
    <2>3. QED
      BY <2>1, <2>2 DEF Ledger
  <1>6. CASE Closing
    <2>1. PICK a \in Account :
            Closes(accounts, reservations, accounts', a) /\ reservations' = reservations
      BY <1>6 DEF Closing
    <2>2. LedgerInv(accounts', reservations)
      BY <2>1, ClosesInv DEF Ledger
    <2>3. QED
      BY <2>1, <2>2 DEF Ledger
  <1>7. QED
    BY <1>1, <1>2, <1>3, <1>4, <1>5, <1>6 DEF LedgerStep, Ledger

LEMMA InitLedger ==
  ASSUME Init
  PROVE  Ledger
  <1>1. PICK limits \in Limits :
          accounts = [a \in Account |->
                        IF a = Root THEN NewAccount(None, {Root}, limits) ELSE NoAccount]
    BY DEF Init
  <1>2. reservations = <<>>
    BY DEF Init
  <1>3. /\ limits \in Amounts /\ Zero \in Amounts /\ \A d \in Dimension : Zero[d] = 0
        /\ Root \in Account
    BY BudgetAssumption, AmountFacts, SigmaTypes
  <1>4. /\ NewAccount(None, {Root}, limits) \in AccountRecord /\ NoAccount \in AccountRecord
        /\ NoAccount.phase = "Absent" /\ NoAccount.parent = None /\ NoAccount.lineage = {}
        /\ NoAccount.limits = Zero /\ NoAccount.consumed = Zero
        /\ NoAccount.operation_reserved = Zero
        /\ NoAccount.child_delegated_remaining = Zero
    BY <1>3 DEF NewAccount, NoAccount, AccountRecord, AccountPhase
  <1>5. accounts \in Accts
    BY <1>1, <1>4 DEF Accts
  <1>6. /\ accounts[Root].phase = "Open" /\ accounts[Root].parent = None
        /\ accounts[Root].lineage = {Root} /\ accounts[Root].limits = limits
        /\ accounts[Root].consumed = Zero /\ accounts[Root].operation_reserved = Zero
        /\ accounts[Root].child_delegated_remaining = Zero
    BY <1>1, <1>3 DEF NewAccount
  <1>7. \A a \in Account \ {Root} : accounts[a] = NoAccount
    BY <1>1
  <1>8. \A a \in Account : accounts[a].parent = None
    BY <1>4, <1>6, <1>7
  <1>9. Tree(accounts)
    <2> HIDE DEF NoAccount
    <2> SUFFICES ASSUME NEW a \in Account
                 PROVE  /\ accounts[a].phase = "Absent" => accounts[a] = NoAccount
                        /\ accounts[a].phase # "Absent" => a \in accounts[a].lineage
                        /\ accounts[a].parent = None
                        /\ \A b \in accounts[a].lineage :
                             /\ accounts[b].phase # "Absent"
                             /\ accounts[b].lineage \subseteq accounts[a].lineage
                             /\ accounts[b].parent # a
                             /\ b = a
                             /\ \A c \in accounts[a].lineage : b = c
      BY DEF Tree
    <2>1. a # None
      BY BudgetAssumption
    <2>2. CASE a = Root
      BY <1>6, <2>1, <2>2
    <2>3. CASE a # Root
      BY <1>4, <1>7, <2>3
    <2>4. QED
      BY <2>2, <2>3
  <1>10. Lifecycles(accounts, reservations)
    <2>1. \A a \in Account : accounts[a].phase # "Closed"
      BY <1>4, <1>6, <1>7
    <2>2. DOMAIN reservations = {}
      BY <1>2
    <2>3. \A a \in Account : accounts[a].lineage \subseteq Account
      BY <1>5, FieldTypes
    <2>4. QED
      BY <2>1, <2>2, <2>3 DEF Lifecycles
  <1>11. Balanced(accounts, reservations)
    <2> SUFFICES ASSUME NEW a \in Account, NEW d \in Dimension
                 PROVE  /\ accounts[a].child_delegated_remaining[d]
                             = SumFunctionOnSet(Unspent(accounts, d), OpenChildren(accounts, a))
                        /\ accounts[a].operation_reserved[d]
                             = SumFunctionOnSet(Held(reservations, d), Work(reservations, a))
                        /\ accounts[a].consumed[d]
                             = SumFunctionOnSet(Spent(reservations, d),
                                                Below(accounts, reservations, a))
                        /\ accounts[a].consumed[d] + accounts[a].operation_reserved[d]
                             + accounts[a].child_delegated_remaining[d] <= accounts[a].limits[d]
      BY DEF Balanced
    <2>1. OpenChildren(accounts, a) = {}
      BY <1>8, BudgetAssumption DEF OpenChildren
    <2>2. Work(reservations, a) = {} /\ Below(accounts, reservations, a) = {}
      BY <1>2 DEF Work, Below
    <2>3. /\ accounts[a].child_delegated_remaining[d] = 0
          /\ accounts[a].operation_reserved[d] = 0 /\ accounts[a].consumed[d] = 0
      BY <1>3, <1>4, <1>6, <1>7
    <2>4. accounts[a].limits[d] \in Nat
      BY <1>5, FieldTypes
    <2>5. /\ SumFunctionOnSet(Unspent(accounts, d), {}) = 0
          /\ SumFunctionOnSet(Held(reservations, d), {}) = 0
          /\ SumFunctionOnSet(Spent(reservations, d), {}) = 0
      BY SumEmpty
    <2>6. QED
      BY <2>1, <2>2, <2>3, <2>4, <2>5
  <1>12. /\ reservations \in Seq(Attempt) /\ Records(reservations) /\ Attempts(reservations)
    BY <1>2 DEF Records, Attempts, Tries
  <1>13. QED
    BY <1>5, <1>9, <1>10, <1>11, <1>12 DEF Ledger, LedgerInv

------------------------------------------------------------------------------
(* The agent's handle *)

HandleInv == Handled(reservations, handle)

\* How a command leaves the attempts that were there.
LEMMA StepAttempts ==
  ASSUME Ledger, LedgerStep
  PROVE  /\ DOMAIN reservations \subseteq DOMAIN reservations'
         /\ \A i \in DOMAIN reservations :
              \/ reservations'[i] = reservations[i]
              \/ Live(reservations[i]) /\ Advance(reservations[i], reservations'[i])
         /\ \/ Len(reservations') = Len(reservations)
            \/ /\ Beginning /\ Len(reservations') = Len(reservations) + 1
               /\ DOMAIN reservations' = DOMAIN reservations \cup {Len(reservations) + 1}
               /\ Len(reservations) + 1 \notin DOMAIN reservations
  <1>1. CASE reservations' = reservations
    BY <1>1
  <1>2. ASSUME NEW i \in DOMAIN reservations, Settling(i)
        PROVE  /\ DOMAIN reservations' = DOMAIN reservations
               /\ \A j \in DOMAIN reservations :
                    \/ reservations'[j] = reservations[j]
                    \/ Live(reservations[j]) /\ Advance(reservations[j], reservations'[j])
               /\ Len(reservations') = Len(reservations)
    <2>1. /\ Live(reservations[i]) /\ Advance(reservations[i], reservations'[i])
          /\ reservations' = [reservations EXCEPT ![i] = reservations'[i]]
      BY <1>2 DEF Settling, Settles
    <2>2. reservations \in Seq(Attempt)
      BY LedgerParts
    <2> DEFINE s == reservations'[i]
    <2>3. reservations' = [reservations EXCEPT ![i] = s]
      BY <2>1
    <2> HIDE DEF s
    <2>4. /\ DOMAIN reservations' = DOMAIN reservations
          /\ Len(reservations') = Len(reservations)
          /\ \A j \in DOMAIN reservations \ {i} : reservations'[j] = reservations[j]
      BY <2>2, <2>3
    <2>5. QED
      BY <2>1, <2>4
  <1>3. CASE Beginning
    <2> DEFINE s == reservations'[Len(reservations) + 1]
    <2>1. reservations' = Append(reservations, s)
      BY <1>3 DEF Beginning, Begins
    <2> HIDE DEF s
    <2>2. reservations \in Seq(Attempt)
      BY LedgerParts
    <2>3. /\ DOMAIN reservations' = DOMAIN reservations \cup {Len(reservations) + 1}
          /\ Len(reservations') = Len(reservations) + 1
          /\ Len(reservations) + 1 \notin DOMAIN reservations
          /\ \A j \in DOMAIN reservations : reservations'[j] = reservations[j]
      BY <2>1, <2>2
    <2>4. QED
      BY <1>3, <2>3
  <1>4. CASE Allocating \/ Sealing \/ Closing \/ UNCHANGED ledger
    BY <1>1, <1>4 DEF Allocating, Sealing, Closing, ledger
  <1>5. QED
    BY <1>2, <1>3, <1>4 DEF LedgerStep

\* A handle stays true of its attempt, whatever another client does.
LEMMA HandleStands ==
  ASSUME Ledger, HandleInv, LedgerStep, NEW i \in DOMAIN reservations
  PROVE  /\ handle[i] = "Active" => reservations'[i].activation_evidence # None
         /\ handle[i] = "Settled" =>
              /\ reservations'[i].phase \in {"SettledFinal", "OverrunFaulted"}
              /\ reservations'[i].finality = "Final"
         /\ handle[i] = "Cancelled" => reservations'[i].phase = "CancelledHeld"
         /\ handle[i] = "Indeterminate" => reservations'[i].phase = "SettledAmbiguous"
  <1>1. \/ reservations'[i] = reservations[i]
        \/ Live(reservations[i]) /\ Advance(reservations[i], reservations'[i])
    BY StepAttempts
  <1>2. QED
    BY <1>1 DEF HandleInv, Handled, Advance, Live

\* What a handle in state h claims of the attempt r.
Claims(h, r) ==
  /\ h = "Active" => r.activation_evidence # None
  /\ h = "Settled" => r.phase \in {"SettledFinal", "OverrunFaulted"} /\ r.finality = "Final"
  /\ h = "Cancelled" => r.phase = "CancelledHeld"
  /\ h = "Indeterminate" => r.phase = "SettledAmbiguous"

LEMMA StepLength ==
  ASSUME Ledger, HandleInv, LedgerStep
  PROVE  /\ Len(reservations') <= MaxReservations
         /\ reservations \in Seq(Attempt) /\ reservations' \in Seq(Attempt)
         /\ DOMAIN reservations = 1..Len(reservations)
         /\ DOMAIN reservations' = 1..Len(reservations')
         /\ DOMAIN reservations \subseteq DOMAIN reservations'
         /\ DOMAIN reservations' \subseteq Handles
         /\ \A i \in DOMAIN reservations' \ DOMAIN reservations : i = Len(reservations) + 1
         /\ \A i \in DOMAIN reservations' \ DOMAIN reservations :
              handle[i] = "None"
  <1>1. reservations \in Seq(Attempt) /\ reservations' \in Seq(Attempt)
    BY StepInv, LedgerParts DEF Ledger, LedgerInv
  <1>2. /\ DOMAIN reservations = 1..Len(reservations) /\ Len(reservations) \in Nat
        /\ DOMAIN reservations' = 1..Len(reservations') /\ Len(reservations') \in Nat
    BY <1>1
  <1>3. Len(reservations) <= MaxReservations /\ MaxReservations \in Nat
    BY BudgetAssumption DEF HandleInv, Handled
  <1>4. \/ Len(reservations') = Len(reservations)
        \/ /\ Len(reservations') = Len(reservations) + 1
           /\ Len(reservations) < MaxReservations
    BY StepAttempts DEF Beginning
  <1>5. /\ Len(reservations') <= MaxReservations
        /\ DOMAIN reservations \subseteq DOMAIN reservations'
        /\ DOMAIN reservations' \subseteq Handles
        /\ \A i \in DOMAIN reservations' \ DOMAIN reservations : i = Len(reservations) + 1
    <2> DEFINE n == Len(reservations)  k == Len(reservations')
    <2>1. n \in Nat /\ k \in Nat /\ MaxReservations \in Nat /\ n <= MaxReservations
            /\ (k = n \/ (k = n + 1 /\ n < MaxReservations))
      BY <1>2, <1>3, <1>4
    <2> HIDE DEF n, k
    <2>2. /\ k <= MaxReservations /\ 1..n \subseteq 1..k /\ 1..k \subseteq 1..MaxReservations
          /\ \A i \in 1..k : i \notin 1..n => i = n + 1
      BY <2>1
    <2>3. QED
      BY <1>2, <2>2 DEF Handles, n, k
  <1>6. \A i \in DOMAIN reservations' \ DOMAIN reservations : handle[i] = "None"
    BY <1>5 DEF HandleInv, Handled
  <1>7. QED
    BY <1>1, <1>2, <1>5, <1>6

LEMMA HandleUnmoved ==
  ASSUME Ledger, HandleInv, LedgerStep, handle' = handle
  PROVE  HandleInv'
  <1>1. ASSUME NEW i \in DOMAIN reservations'
        PROVE  Claims(handle[i], reservations'[i])
    <2>1. CASE i \in DOMAIN reservations
      BY <2>1, HandleStands DEF Claims
    <2>2. CASE i \notin DOMAIN reservations
      BY <1>1, <2>2, StepLength DEF Claims
    <2>3. QED
      BY <2>1, <2>2
  <1>2. \A i \in Handles \ DOMAIN reservations' : handle[i] = "None"
    BY StepLength DEF HandleInv, Handled
  <1>3. QED
    BY <1>1, <1>2, StepLength DEF HandleInv, Handled, Claims

LEMMA HandleMoved ==
  ASSUME Ledger, HandleInv, LedgerStep, NEW i \in DOMAIN reservations', NEW h \in HandleState,
         Claims(h, reservations'[i]), handle' = [handle EXCEPT ![i] = h]
  PROVE  HandleInv'
  <1>1. /\ i \in Handles /\ handle \in [Handles -> HandleState]
        /\ handle' \in [Handles -> HandleState] /\ handle'[i] = h
        /\ \A j \in Handles \ {i} : handle'[j] = handle[j]
    BY StepLength DEF HandleInv, Handled
  <1>2. ASSUME NEW j \in DOMAIN reservations'
        PROVE  Claims(handle'[j], reservations'[j])
    <2>1. CASE j = i
      BY <1>1, <2>1
    <2>2. CASE j # i /\ j \in DOMAIN reservations
      BY <1>1, <2>2, HandleStands, StepLength DEF Claims
    <2>3. CASE j # i /\ j \notin DOMAIN reservations
      BY <1>1, <1>2, <2>3, StepLength DEF Claims
    <2>4. QED
      BY <2>1, <2>2, <2>3
  <1>3. \A j \in Handles \ DOMAIN reservations' : handle'[j] = "None"
    BY <1>1, StepLength DEF HandleInv, Handled
  <1>4. QED
    BY <1>1, <1>2, <1>3, StepLength DEF HandleInv, Handled, Claims

\* What a handle becomes active over is live before and after.
Activating ==
  \A i \in DOMAIN reservations :
    handle[i] # "Active" /\ handle'[i] = "Active" =>
      Live(reservations[i]) /\ Live(reservations'[i])

\* A receipt that claims the truth, lost or received.
LEMMA ReceivedKeeps ==
  ASSUME Ledger, HandleInv, LedgerStep, NEW i \in DOMAIN reservations', NEW h \in HandleState,
         Claims(h, reservations'[i]),
         h = "Active" =>
           handle[i] = "Active"
             \/ (i \in DOMAIN reservations => Live(reservations[i]) /\ Live(reservations'[i])),
         handle' = handle \/ handle' = [handle EXCEPT ![i] = h]
  PROVE  HandleInv' /\ Activating
  <1>1. CASE handle' = handle
    BY <1>1, HandleUnmoved DEF Activating
  <1>2. CASE handle' = [handle EXCEPT ![i] = h]
    <2>1. /\ handle \in [Handles -> HandleState] /\ i \in Handles
          /\ handle'[i] = h /\ \A j \in Handles \ {i} : handle'[j] = handle[j]
          /\ DOMAIN reservations \subseteq Handles
      BY <1>2, StepLength DEF HandleInv, Handled
    <2>2. HandleInv'
      BY <1>2, HandleMoved
    <2>3. Activating
      BY <2>1 DEF Activating
    <2>4. QED
      BY <2>2, <2>3
  <1>3. QED
    BY <1>1, <1>2

LEMMA AgentSteps ==
  ASSUME Ledger, HandleInv, AgentNext
  PROVE  LedgerStep /\ HandleInv' /\ Activating
  <1>1. ASSUME NEW i \in DOMAIN reservations, Settling(i) \/ UNCHANGED ledger
        PROVE  LedgerStep /\ i \in DOMAIN reservations'
    BY <1>1, StepLength DEF LedgerStep
  <1>2. ASSUME NEW a \in Account, NEW action \in Action, NEW request \in AgentPlan,
               NEW retry \in BOOLEAN, AgentBegin(a, action, request, retry)
        PROVE  LedgerStep /\ HandleInv' /\ Activating
    <2> DEFINE n == Len(reservations) + 1
    <2>1. /\ Begin(a, action, request, retry) /\ request \in Request
          /\ handle' = handle \/ handle' = [handle EXCEPT ![n] = "Held"]
      BY <1>2 DEF AgentBegin, Received, AgentPlan
    <2>2. Beginning
      BY <2>1, BeginBegins
    <2>3. LedgerStep
      BY <2>2 DEF LedgerStep
    <2>4. n \in DOMAIN reservations'
      <3> DEFINE s == reservations'[n]
      <3>1. reservations' = Append(reservations, s)
        BY <2>2 DEF Beginning, Begins
      <3> HIDE DEF s
      <3>2. QED
        BY <3>1, LedgerParts
    <2>5. Claims("Held", reservations'[n])
      BY DEF Claims
    <2>6. "Held" \in HandleState
      BY DEF HandleState
    <2> HIDE DEF n
    <2>7. QED
      BY <2>1, <2>3, <2>4, <2>5, <2>6, ReceivedKeeps
  <1>3. ASSUME NEW i \in DOMAIN reservations, NEW e \in Evidence, AgentActivate(i, e)
        PROVE  LedgerStep /\ HandleInv' /\ Activating
    <2>1. /\ Activate(i, e)
          /\ handle' = handle \/ handle' = [handle EXCEPT ![i] = "Active"]
      BY <1>3 DEF AgentActivate, Received
    <2>2. /\ Settling(i) \/ UNCHANGED ledger
          /\ reservations'[i].activation_evidence # None
          /\ Live(reservations[i]) /\ Live(reservations'[i])
      BY <2>1, ActivateStep
    <2>3. LedgerStep /\ i \in DOMAIN reservations'
      BY <1>1, <2>2
    <2>4. Claims("Active", reservations'[i]) /\ "Active" \in HandleState
      BY <2>2 DEF Claims, HandleState
    <2>5. QED
      BY <2>1, <2>2, <2>3, <2>4, ReceivedKeeps
  <1>4. ASSUME NEW i \in DOMAIN reservations, NEW e \in Evidence, AgentFinalizeAmbiguous(i, e)
        PROVE  LedgerStep /\ HandleInv' /\ Activating
    <2>1. /\ Finalize(i, e, "SettledAmbiguous")
          /\ handle' = handle \/ handle' = [handle EXCEPT ![i] = "Indeterminate"]
      BY <1>4 DEF AgentFinalizeAmbiguous, Received, FinalizeAmbiguous
    <2>2. /\ Settling(i) \/ UNCHANGED ledger
          /\ reservations'[i].phase = "SettledAmbiguous"
      BY <2>1, FinalizeSettles
    <2>3. LedgerStep /\ i \in DOMAIN reservations'
      BY <1>1, <2>2
    <2>4. Claims("Indeterminate", reservations'[i]) /\ "Indeterminate" \in HandleState
      BY <2>2 DEF Claims, HandleState
    <2>5. QED
      BY <2>1, <2>3, <2>4, ReceivedKeeps
  <1>5. ASSUME NEW i \in DOMAIN reservations, NEW e \in Evidence, AgentCancelHeld(i, e)
        PROVE  LedgerStep /\ HandleInv' /\ Activating
    <2>1. /\ CancelHeld(i, e)
          /\ handle' = handle \/ handle' = [handle EXCEPT ![i] = "Cancelled"]
      BY <1>5 DEF AgentCancelHeld, Received
    <2>2. /\ Settling(i) \/ UNCHANGED ledger
          /\ reservations'[i].phase = "CancelledHeld"
      BY <2>1, CancelSettles
    <2>3. LedgerStep /\ i \in DOMAIN reservations'
      BY <1>1, <2>2
    <2>4. Claims("Cancelled", reservations'[i]) /\ "Cancelled" \in HandleState
      BY <2>2 DEF Claims, HandleState
    <2>5. QED
      BY <2>1, <2>3, <2>4, ReceivedKeeps
  <1>6. ASSUME NEW i \in DOMAIN reservations, NEW e \in Evidence, NEW u \in Usage,
               NEW finality \in {"Interim", "Final"}, AgentObserve(i, u, e, finality)
        PROVE  LedgerStep /\ HandleInv' /\ Activating
    <2> DEFINE h == IF finality = "Final" THEN "Settled" ELSE "Active"
    <2>1. /\ Observe(i, u, e, finality) /\ handle[i] = "Active"
          /\ handle' = handle \/ handle' = [handle EXCEPT ![i] = h]
      BY <1>6 DEF AgentObserve, Received
    <2>2. /\ Settling(i) \/ UNCHANGED ledger
          /\ finality = "Final" =>
               /\ reservations'[i].phase \in {"SettledFinal", "OverrunFaulted"}
               /\ reservations'[i].finality = "Final"
      BY <2>1, ObserveSettles
    <2>3. LedgerStep /\ i \in DOMAIN reservations'
      BY <1>1, <2>2
    <2>4. reservations'[i].activation_evidence # None
      BY <2>1, <2>3, HandleStands
    <2>5. Claims(h, reservations'[i]) /\ h \in HandleState
      BY <2>2, <2>4 DEF Claims, HandleState
    <2> HIDE DEF h
    <2>6. QED
      BY <2>1, <2>3, <2>5, ReceivedKeeps
  <1>7. ASSUME NEW i \in DOMAIN reservations, AgentResume(i)
        PROVE  LedgerStep /\ HandleInv' /\ Activating
    <2>1. /\ UNCHANGED ledger
          /\ handle' = handle \/ handle' = [handle EXCEPT ![i] = "Held"]
      BY <1>7 DEF AgentResume, Received, BeginReplay
    <2>2. LedgerStep /\ i \in DOMAIN reservations'
      BY <1>1, <2>1
    <2>3. Claims("Held", reservations'[i]) /\ "Held" \in HandleState
      BY DEF Claims, HandleState
    <2>4. QED
      BY <2>1, <2>2, <2>3, ReceivedKeeps
  <1>8. ASSUME NEW i \in DOMAIN reservations, Drop(i)
        PROVE  LedgerStep /\ HandleInv' /\ Activating
    <2>1. UNCHANGED ledger /\ handle' = [handle EXCEPT ![i] = "None"]
      BY <1>8 DEF Drop
    <2>2. LedgerStep /\ i \in DOMAIN reservations'
      BY <1>1, <2>1
    <2>3. Claims("None", reservations'[i]) /\ "None" \in HandleState
      BY DEF Claims, HandleState
    <2>4. QED
      BY <2>1, <2>2, <2>3, ReceivedKeeps
  <1>9. CASE Next /\ UNCHANGED handle
    BY <1>9, NextSteps, HandleUnmoved DEF Activating
  <1>10. QED
    BY <1>2, <1>3, <1>4, <1>5, <1>6, <1>7, <1>8, <1>9 DEF AgentNext, AgentStep

\* Every reachable state of the ledger and of the agent's handles is one the
\* invariant describes.
THEOREM LedgerInvariant == AgentSpec => [](Ledger /\ HandleInv)
<1>1. AgentInit => Ledger /\ HandleInv
  <2>1. AgentInit => Ledger
    BY InitLedger DEF AgentInit
  <2>2. AgentInit => HandleInv
    BY BudgetAssumption DEF AgentInit, Init, HandleInv, Handled, HandleState, Handles
  <2>3. QED
    BY <2>1, <2>2
<1>2. Ledger /\ HandleInv /\ [AgentNext]_vars => Ledger' /\ HandleInv'
  <2> SUFFICES ASSUME Ledger, HandleInv, [AgentNext]_vars
               PROVE  Ledger' /\ HandleInv'
    OBVIOUS
  <2>1. CASE AgentNext
    BY <2>1, AgentSteps, StepInv
  <2>2. CASE UNCHANGED vars
    BY <2>2 DEF vars, Ledger, HandleInv
  <2>3. QED
    BY <2>1, <2>2
<1>3. QED
  BY <1>1, <1>2, PTL DEF AgentSpec

------------------------------------------------------------------------------
(* What follows for the sums and the attempts *)

LEMMA TypesHold ==
  ASSUME Ledger
  PROVE  TypeOK
  <1>1. ASSUME NEW a \in Account
        PROVE  /\ accounts[a].phase \in AccountPhase
               /\ accounts[a].parent \in Account \cup {None}
               /\ accounts[a].lineage \subseteq Account
               /\ accounts[a].limits \in Amounts /\ accounts[a].consumed \in Amounts
               /\ accounts[a].operation_reserved \in Amounts
               /\ accounts[a].child_delegated_remaining \in Amounts
    BY LedgerParts, FieldTypes
  <1>2. ASSUME NEW i \in DOMAIN reservations
        PROVE  LET r == reservations[i]
               IN  /\ r.budget \in Account /\ r.action \in Action
                   /\ r.consume_now \in Amounts /\ r.reserve \in Amounts
                   /\ r.observed \in Amounts /\ r.phase \in ReservationPhase
                   /\ {r.activation_evidence, r.observation_evidence, r.final_evidence}
                        \subseteq Evidence \cup {None}
    <2>1. reservations[i] \in Attempt
      BY LedgerParts
    <2>2. QED
      BY <2>1 DEF Attempt
  <1>3. QED
    BY <1>1, <1>2 DEF TypeOK

\* A sum of amounts is the sum in each dimension.
LEMMA TotalIs ==
  ASSUME NEW S, IsFiniteSet(S), NEW f, DOMAIN f = S, NEW g, NEW d \in Dimension,
         \A x \in S : f[x][d] = g[x]
  PROVE  Total(f)[d] = SumFunctionOnSet(g, S)
  <1> DEFINE e == [x \in DOMAIN f |-> f[x][d]]
  <1>1. Total(f)[d] = SumFunctionOnSet(e, S)
    BY DEF Total, SumFunction
  <1>2. \A x \in S : e[x] = g[x]
    OBVIOUS
  <1> HIDE DEF e
  <1>3. SumFunctionOnSet(e, S) = SumFunctionOnSet(g, S)
    BY <1>2, SumSame
  <1>4. QED
    BY <1>1, <1>3

LEMMA TotalEquals ==
  ASSUME NEW amount \in Amounts, NEW f, \A d \in Dimension : amount[d] = Total(f)[d]
  PROVE  amount = Total(f)
  BY DEF Amounts, Total

LEMMA WorkFinite ==
  ASSUME Ledger, NEW S \in SUBSET (DOMAIN reservations)
  PROVE  IsFiniteSet(S)
  BY LedgerParts, AttemptTypes, FS_Subset

LEMMA AccountsHold ==
  ASSUME Ledger
  PROVE  AccountsValidate
  <1> SUFFICES ASSUME NEW a \in Account
               PROVE  LET x == accounts[a]
                          children == {b \in Account : accounts[b].parent = a
                                                         /\ accounts[b].phase # "Closed"}
                          work == {i \in DOMAIN reservations : reservations[i].budget = a}
                          remaining == [b \in children |->
                                          Minus(accounts[b].limits, accounts[b].consumed)]
                          held == [i \in work |-> Outstanding(reservations[i])]
                      IN  /\ FitsWithin(Plus(Plus(x.consumed, x.operation_reserved),
                                             x.child_delegated_remaining), x.limits)
                          /\ x.child_delegated_remaining = Total(remaining)
                          /\ x.operation_reserved = Total(held)
                          /\ x.phase = "Closed" => ~HasLiveWork(a)
    BY DEF AccountsValidate
  <1> DEFINE x == accounts[a]
             children == OpenChildren(accounts, a)
             work == Work(reservations, a)
             remaining == [b \in children |-> Minus(accounts[b].limits, accounts[b].consumed)]
             held == [i \in work |-> Outstanding(reservations[i])]
  <1>1. ASSUME NEW d \in Dimension
        PROVE  x.consumed[d] + x.operation_reserved[d] + x.child_delegated_remaining[d]
                 <= x.limits[d]
    BY LedgerParts DEF Balanced
  <1>2. FitsWithin(Plus(Plus(x.consumed, x.operation_reserved),
                        x.child_delegated_remaining), x.limits)
    BY <1>1 DEF FitsWithin, Plus
  <1>3. x.child_delegated_remaining \in Amounts /\ x.operation_reserved \in Amounts
    BY LedgerParts, FieldTypes
  <1>4. ASSUME NEW d \in Dimension
        PROVE  x.child_delegated_remaining[d] = Total(remaining)[d]
    <2> DEFINE g == Unspent(accounts, d)
    <2>1. IsFiniteSet(children) /\ children \subseteq Account
      BY ChildrenFinite
    <2>2. \A b \in children : remaining[b][d] = g[b]
      BY <2>1 DEF Unspent, Minus
    <2>3. DOMAIN remaining = children
      OBVIOUS
    <2>4. x.child_delegated_remaining[d] = SumFunctionOnSet(g, children)
      BY LedgerParts DEF Balanced
    <2> HIDE DEF g, remaining, children
    <2>5. QED
      BY <2>1, <2>2, <2>3, <2>4, TotalIs
  <1>5. ASSUME NEW d \in Dimension
        PROVE  x.operation_reserved[d] = Total(held)[d]
    <2> DEFINE g == Held(reservations, d)
    <2>1. IsFiniteSet(work) /\ work \subseteq DOMAIN reservations
      BY WorkFinite DEF Work
    <2>2. \A i \in work : held[i][d] = g[i]
      BY <2>1 DEF Held
    <2>3. DOMAIN held = work
      OBVIOUS
    <2>4. x.operation_reserved[d] = SumFunctionOnSet(g, work)
      BY LedgerParts DEF Balanced
    <2> HIDE DEF g, held, work
    <2>5. QED
      BY <2>1, <2>2, <2>3, <2>4, TotalIs
  <1>6. /\ x.child_delegated_remaining = Total(remaining)
        /\ x.operation_reserved = Total(held)
    <2> HIDE DEF x, remaining, held
    <2>1. QED
      BY <1>3, <1>4, <1>5, TotalEquals
  <1>7. x.phase = "Closed" => ~HasLiveWork(a)
    <2> SUFFICES ASSUME accounts[a].phase = "Closed"
                 PROVE  ~HasLiveWork(a)
      OBVIOUS
    <2>1. \A i \in DOMAIN reservations :
            reservations[i].budget = a => ~Live(reservations[i])
      BY LedgerParts DEF Lifecycles
    <2>2. ASSUME NEW b \in Account, accounts[b].parent = a
          PROVE  accounts[b].phase = "Closed"
      <3>1. a \in accounts[b].lineage
        <4>1. /\ accounts[a].phase # "Absent"
              /\ accounts[b].lineage = accounts[a].lineage \cup {b}
          BY <2>2, LedgerParts, BudgetAssumption DEF Tree
        <4>2. a \in accounts[a].lineage
          BY <4>1, LedgerParts DEF Tree
        <4>3. QED
          BY <4>1, <4>2
      <3>2. QED
        BY <3>1, LedgerParts DEF Lifecycles
    <2>3. QED
      BY <2>1, <2>2 DEF HasLiveWork
  <1>8. QED
    BY <1>2, <1>6, <1>7 DEF OpenChildren, Work

LEMMA ConsumptionHolds ==
  ASSUME Ledger
  PROVE  ConsumedIsUsage
  <1> SUFFICES ASSUME NEW a \in Account
               PROVE  LET below == {i \in DOMAIN reservations :
                                      a \in accounts[reservations[i].budget].lineage}
                          spent == [i \in below |-> Plus(reservations[i].consume_now,
                                                         reservations[i].observed)]
                      IN  accounts[a].consumed = Total(spent)
    BY DEF ConsumedIsUsage
  <1> DEFINE below == Below(accounts, reservations, a)
             spent == [i \in below |-> Plus(reservations[i].consume_now,
                                            reservations[i].observed)]
  <1>1. accounts[a].consumed \in Amounts
    BY LedgerParts, FieldTypes
  <1>2. ASSUME NEW d \in Dimension
        PROVE  accounts[a].consumed[d] = Total(spent)[d]
    <2> DEFINE g == Spent(reservations, d)
    <2>1. IsFiniteSet(below) /\ below \subseteq DOMAIN reservations
      BY WorkFinite DEF Below
    <2>2. \A i \in below : spent[i][d] = g[i]
      BY <2>1 DEF Spent, Plus
    <2>3. DOMAIN spent = below
      OBVIOUS
    <2>4. accounts[a].consumed[d] = SumFunctionOnSet(g, below)
      BY LedgerParts DEF Balanced
    <2> HIDE DEF g, spent, below
    <2>5. QED
      BY <2>1, <2>2, <2>3, <2>4, TotalIs
  <1>3. accounts[a].consumed = Total(spent)
    <2> HIDE DEF spent
    <2>1. QED
      BY <1>1, <1>2, TotalEquals
  <1>4. QED
    BY <1>3 DEF Below

\* The sums of the ledger are right in every account of every tree of accounts:
\* what the crate's validate() checks after each command never fails, and each
\* account has consumed exactly what the attempts below it spent and used.
THEOREM SumsStayTrue == AgentSpec => []LedgerTruth
<1>1. Ledger => LedgerTruth
  BY TypesHold, AccountsHold, ConsumptionHolds, LedgerParts
     DEF LedgerTruth, LedgerValidates, Records
<1>2. QED
  BY <1>1, LedgerInvariant, PTL

LEMMA CeilingHolds ==
  ASSUME Ledger
  PROVE  CeilingPayable
  <1> SUFFICES ASSUME NEW i \in DOMAIN reservations, Live(reservations[i])
               PROVE  LET r == reservations[i]
                      IN  /\ accounts[r.budget].phase \in {"Open", "Draining", "Faulted"}
                          /\ FitsWithin(Outstanding(r), accounts[r.budget].operation_reserved)
                          /\ \A b \in accounts[r.budget].lineage \ {r.budget} :
                               /\ accounts[b].phase \in {"Open", "Draining", "Faulted"}
                               /\ FitsWithin(Outstanding(r), accounts[b].child_delegated_remaining)
    BY DEF CeilingPayable
  <1> DEFINE r == reservations[i]
  <1>1. /\ r.budget \in Account
        /\ FitsWithin(Outstanding(r), accounts[r.budget].operation_reserved)
        /\ r.budget \in accounts[r.budget].lineage
    BY LiveAttempt
  <1>2. Chargeables(accounts, r.budget)
    BY SettlesChargeable DEF Ledger
  <1>3. \A b \in accounts[r.budget].lineage \ {r.budget} :
          FitsWithin(Outstanding(r), accounts[b].child_delegated_remaining)
    BY <1>2, LedgerParts, CeilingDelegated
  <1>4. ASSUME NEW b \in accounts[r.budget].lineage
        PROVE  accounts[b].phase \in {"Open", "Draining", "Faulted"}
    <2>1. accounts[b].phase # "Absent"
      BY <1>1, LedgerParts DEF Tree
    <2>2. accounts[b].phase # "Closed"
      BY <1>2 DEF Chargeables
    <2>3. accounts[b].phase \in AccountPhase
      BY <1>1, LedgerParts, FieldTypes
    <2>4. QED
      BY <2>1, <2>2, <2>3 DEF AccountPhase
  <1>5. QED
    BY <1>1, <1>3, <1>4

LEMMA RetriesHold ==
  ASSUME Ledger
  PROVE  OneAttemptAtATime
  <1> SUFFICES ASSUME NEW action \in Action
               PROVE  LET tries == {i \in DOMAIN reservations : reservations[i].action = action}
                          now == [i \in tries |-> reservations[i].consume_now]
                      IN  /\ Cardinality({i \in tries : Live(reservations[i])}) <= 1
                          /\ tries # {} => Total(now)["Retries"] = Cardinality(tries) - 1
    BY DEF OneAttemptAtATime
  <1> DEFINE tries == Tries(reservations, action)
             now == [i \in tries |-> reservations[i].consume_now]
             live == {i \in tries : Live(reservations[i])}
             g == RetryCharges(reservations)
  <1>1. /\ \A i, j \in live : i = j
        /\ tries # {} => SumFunctionOnSet(g, tries) = Cardinality(tries) - 1
    BY LedgerParts DEF Attempts
  <1>2. tries \subseteq DOMAIN reservations /\ IsFiniteSet(tries)
    BY WorkFinite DEF Tries
  <1>3. Cardinality(live) <= 1
    <2> HIDE DEF live
    <2>1. CASE live = {}
      BY <2>1, FS_EmptySet
    <2>2. ASSUME NEW i \in live
          PROVE  Cardinality(live) <= 1
      <3>1. live = {i}
        BY <1>1
      <3>2. QED
        BY <3>1, FS_Singleton
    <2>3. QED
      BY <2>1, <2>2
  <1>4. "Retries" \in Dimension
    BY DEF Dimension
  <1>5. \A i \in tries : now[i]["Retries"] = g[i]
    BY <1>2 DEF RetryCharges
  <1>6. DOMAIN now = tries
    OBVIOUS
  <1>7. Total(now)["Retries"] = SumFunctionOnSet(g, tries)
    <2> HIDE DEF now, g, tries
    <2>1. QED
      BY <1>2, <1>4, <1>5, <1>6, TotalIs
  <1>8. QED
    BY <1>1, <1>3, <1>7 DEF Tries

\* Every attempt can be settled: no ancestor has given away what its settlement
\* charges, an overrun has shut its lineage, attempts of one action do not
\* overlap, and the agent's handle claims nothing the ledger does not hold.
THEOREM AttemptsStaySettleable == AgentSpec => []AttemptTruth
<1>1. Ledger => OverrunShutsLineage
  BY LedgerParts DEF OverrunShutsLineage, Lifecycles
<1>2. HandleInv => HandleTruth
  BY DEF HandleInv, Handled, HandleTruth
<1>3. Ledger /\ HandleInv => AttemptTruth
  BY <1>1, <1>2, CeilingHolds, RetriesHold DEF AttemptTruth
<1>4. QED
  BY <1>3, LedgerInvariant, PTL

------------------------------------------------------------------------------
(* What a step may never do *)

Committed(X, a) ==
  Plus(Plus(X[a].consumed, X[a].operation_reserved), X[a].child_delegated_remaining)

LEMMA ChargeDrains ==
  ASSUME NEW X \in Accts, NEW Y, NEW x \in Account,
         NEW delta \in Amounts, NEW sigma \in [Dimension -> Int],
         x \in X[x].lineage, Charge(X, Y, x, delta, sigma),
         \A d \in Dimension : delta[d] + sigma[d] <= 0,
         NEW a \in Account
  PROVE  FitsWithin(Committed(Y, a), Committed(X, a))
  <1> SUFFICES ASSUME NEW d \in Dimension
               PROVE  Committed(Y, a)[d] <= Committed(X, a)[d]
    BY DEF FitsWithin
  <1>1. /\ Y[a].consumed[d] = X[a].consumed[d] + IF a \in X[x].lineage THEN delta[d] ELSE 0
        /\ Y[a].operation_reserved[d] = X[a].operation_reserved[d] + IF a = x THEN sigma[d] ELSE 0
        /\ Y[a].child_delegated_remaining[d] =
             X[a].child_delegated_remaining[d]
               - IF a \in X[x].lineage \ {x} THEN delta[d] ELSE 0
    BY DEF Charge
  <1>2. /\ X[a].consumed[d] \in Int /\ X[a].operation_reserved[d] \in Int
        /\ X[a].child_delegated_remaining[d] \in Int
        /\ delta[d] \in Int /\ sigma[d] \in Int /\ delta[d] + sigma[d] <= 0
    BY FieldTypes DEF Amounts
  <1>3. /\ Committed(X, a)[d] = (X[a].consumed[d] + X[a].operation_reserved[d])
                                  + X[a].child_delegated_remaining[d]
        /\ Committed(Y, a)[d] = (Y[a].consumed[d] + Y[a].operation_reserved[d])
                                  + Y[a].child_delegated_remaining[d]
    BY DEF Committed, Plus
  <1>4. CASE a = x
    <2>1. /\ Y[a].consumed[d] = X[a].consumed[d] + delta[d]
          /\ Y[a].operation_reserved[d] = X[a].operation_reserved[d] + sigma[d]
          /\ Y[a].child_delegated_remaining[d] = X[a].child_delegated_remaining[d] - 0
      BY <1>1, <1>4
    <2>2. \A k, o, m, u, v \in Int : u + v <= 0 => ((k + u) + (o + v)) + (m - 0) <= (k + o) + m
      OBVIOUS
    <2>3. ((X[a].consumed[d] + delta[d]) + (X[a].operation_reserved[d] + sigma[d]))
              + (X[a].child_delegated_remaining[d] - 0)
            <= (X[a].consumed[d] + X[a].operation_reserved[d])
                 + X[a].child_delegated_remaining[d]
      BY <1>2, <2>2
    <2>4. QED
      BY <1>3, <2>1, <2>3
  <1>5. CASE a # x /\ a \in X[x].lineage
    <2>1. /\ Y[a].consumed[d] = X[a].consumed[d] + delta[d]
          /\ Y[a].operation_reserved[d] = X[a].operation_reserved[d] + 0
          /\ Y[a].child_delegated_remaining[d] = X[a].child_delegated_remaining[d] - delta[d]
      BY <1>1, <1>5
    <2>2. \A k, o, m, u \in Int : ((k + u) + (o + 0)) + (m - u) <= (k + o) + m
      OBVIOUS
    <2>3. ((X[a].consumed[d] + delta[d]) + (X[a].operation_reserved[d] + 0))
              + (X[a].child_delegated_remaining[d] - delta[d])
            <= (X[a].consumed[d] + X[a].operation_reserved[d])
                 + X[a].child_delegated_remaining[d]
      BY <1>2, <2>2
    <2>4. QED
      BY <1>3, <2>1, <2>3
  <1>6. CASE a \notin X[x].lineage
    <2>1. Y[a] = X[a]
      BY <1>6 DEF Charge
    <2>2. Committed(Y, a) = Committed(X, a) /\ Committed(X, a)[d] \in Int
      BY <1>2, <1>3, <2>1 DEF Committed
    <2>3. QED
      BY <2>2
  <1>7. QED
    BY <1>4, <1>5, <1>6

LEMMA CommittedReflexive ==
  ASSUME NEW X \in Accts, NEW a \in Account
  PROVE  FitsWithin(Committed(X, a), Committed(X, a))
  <1> SUFFICES ASSUME NEW d \in Dimension
               PROVE  Committed(X, a)[d] <= Committed(X, a)[d]
    BY DEF FitsWithin
  <1>1. /\ X[a].consumed[d] \in Int /\ X[a].operation_reserved[d] \in Int
        /\ X[a].child_delegated_remaining[d] \in Int
    BY FieldTypes
  <1>2. Committed(X, a)[d] \in Int
    BY <1>1 DEF Committed, Plus
  <1>3. QED
    BY <1>2

\* A shut account does not open, commits no more and gets no new attempt below it.
Drains(a) ==
  /\ accounts'[a].phase \notin {"Open", "Absent"}
  /\ FitsWithin(Committed(accounts', a), Committed(accounts, a))
  /\ \A i \in DOMAIN reservations' \ DOMAIN reservations :
       a \notin accounts[reservations'[i].budget].lineage

LEMMA StepDrains ==
  ASSUME Ledger, LedgerStep, NEW a \in Account,
         accounts[a].phase \in {"Draining", "Faulted", "Closed"}
  PROVE  Drains(a)
  <1>1. accounts \in Accts /\ accounts' \in Accts
    BY StepInv, LedgerParts DEF Ledger, LedgerInv
  <1>2. ASSUME accounts'[a] = accounts[a], DOMAIN reservations' = DOMAIN reservations
        PROVE  Drains(a)
    <2>1. Committed(accounts', a) = Committed(accounts, a)
      BY <1>2 DEF Committed
    <2>2. QED
      BY <1>1, <1>2, <2>1, CommittedReflexive DEF Drains
  <1>3. CASE UNCHANGED ledger
    BY <1>2, <1>3 DEF ledger
  <1>4. ASSUME NEW i \in DOMAIN reservations, Settling(i)
        PROVE  Drains(a)
    <2> DEFINE r == reservations[i]
               s == reservations'[i]
               x == r.budget
               delta == Minus(s.observed, r.observed)
               sigma == Minus(Outstanding(s), Outstanding(r))
    <2>1. /\ Live(r) /\ Charge(accounts, accounts', x, delta, sigma)
          /\ reservations' = [reservations EXCEPT ![i] = s]
      BY <1>4 DEF Settling, Settles
    <2>2. x \in Account /\ x \in accounts[x].lineage
      BY <2>1, LiveAttempt
    <2>3. /\ delta \in Amounts /\ sigma \in [Dimension -> Int]
          /\ \A d \in Dimension : delta[d] + sigma[d] <= 0
      BY <1>4, SettlesFrees DEF Settling, Ledger
    <2> HIDE DEF s
    <2>4. DOMAIN reservations' = DOMAIN reservations
      BY <2>1
    <2> HIDE DEF delta, sigma, x, r
    <2>5. FitsWithin(Committed(accounts', a), Committed(accounts, a))
      BY <1>1, <2>1, <2>2, <2>3, ChargeDrains
    <2>6. accounts'[a].phase \notin {"Open", "Absent"}
      BY <2>1 DEF Charge
    <2>7. QED
      BY <2>4, <2>5, <2>6 DEF Drains
  <1>5. CASE Beginning
    <2> DEFINE n == Len(reservations) + 1
               s == reservations'[n]
    <2>1. /\ accounts[s.budget].phase = "Open"
          /\ \A b \in accounts[s.budget].lineage : accounts[b].phase = "Open"
          /\ Charge(accounts, accounts', s.budget, s.consume_now, s.reserve)
      BY <1>5 DEF Beginning, Begins
    <2>2. a \notin accounts[s.budget].lineage
      BY <2>1
    <2>3. accounts'[a] = accounts[a]
      BY <2>1, <2>2 DEF Charge
    <2>4. \A i \in DOMAIN reservations' \ DOMAIN reservations : i = n
      <3>1. reservations' = Append(reservations, s)
        BY <1>5 DEF Beginning, Begins
      <3> HIDE DEF s
      <3>2. QED
        BY <3>1, LedgerParts
    <2>5. Committed(accounts', a) = Committed(accounts, a)
      BY <2>3 DEF Committed
    <2>6. QED
      BY <1>1, <2>2, <2>3, <2>4, <2>5, CommittedReflexive DEF Drains
  <1>6. CASE Allocating
    <2>1. PICK c \in Account, p \in Account, limits \in Amounts :
            Allocates(accounts, accounts', c, p, limits) /\ reservations' = reservations
      BY <1>6 DEF Allocating
    <2>2. accounts'[a] = accounts[a]
      BY <2>1 DEF Allocates
    <2>3. QED
      BY <1>2, <2>1, <2>2
  <1>7. CASE Sealing
    <2>1. PICK b \in Account : Seals(accounts, accounts', b) /\ reservations' = reservations
      BY <1>7 DEF Sealing
    <2>2. accounts'[a] = accounts[a]
      BY <1>1, <2>1 DEF Seals, Accts
    <2>3. QED
      BY <1>2, <2>1, <2>2
  <1>8. CASE Closing
    <2>1. PICK b \in Account :
            Closes(accounts, reservations, accounts', b) /\ reservations' = reservations
      BY <1>8 DEF Closing
    <2>2. /\ accounts'[a].consumed = accounts[a].consumed
          /\ accounts'[a].operation_reserved = accounts[a].operation_reserved
          /\ accounts'[a].phase = IF a = b THEN "Closed" ELSE accounts[a].phase
      BY <2>1 DEF Closes
    <2>3. ASSUME NEW d \in Dimension
          PROVE  Committed(accounts', a)[d] <= Committed(accounts, a)[d]
      <3>1. /\ accounts[a].consumed[d] \in Int /\ accounts[a].operation_reserved[d] \in Int
            /\ accounts[a].child_delegated_remaining[d] \in Int
        BY <1>1, FieldTypes
      <3>2. accounts[b].limits[d] - accounts[b].consumed[d] \in Int
              /\ accounts[b].limits[d] - accounts[b].consumed[d] >= 0
        <4>1. /\ accounts[b].limits[d] \in Nat /\ accounts[b].consumed[d] \in Nat
              /\ accounts[b].operation_reserved[d] \in Nat
              /\ accounts[b].child_delegated_remaining[d] \in Nat
          BY <1>1, FieldTypes
        <4>2. accounts[b].consumed[d] + accounts[b].operation_reserved[d]
                + accounts[b].child_delegated_remaining[d] <= accounts[b].limits[d]
          BY LedgerParts DEF Balanced
        <4>3. QED
          BY <4>1, <4>2
      <3>3. \/ accounts'[a].child_delegated_remaining[d]
                 = accounts[a].child_delegated_remaining[d]
            \/ accounts'[a].child_delegated_remaining[d]
                 = accounts[a].child_delegated_remaining[d]
                     - (accounts[b].limits[d] - accounts[b].consumed[d])
        BY <2>1 DEF Closes
      <3>4. accounts'[a].child_delegated_remaining[d]
              <= accounts[a].child_delegated_remaining[d]
              /\ accounts'[a].child_delegated_remaining[d] \in Int
        <4>1. \A m, u \in Int : u >= 0 => m - u <= m /\ m <= m /\ m - u \in Int
          OBVIOUS
        <4>2. QED
          BY <3>1, <3>2, <3>3, <4>1
      <3>5. /\ Committed(accounts, a)[d]
                 = (accounts[a].consumed[d] + accounts[a].operation_reserved[d])
                     + accounts[a].child_delegated_remaining[d]
            /\ Committed(accounts', a)[d]
                 = (accounts[a].consumed[d] + accounts[a].operation_reserved[d])
                     + accounts'[a].child_delegated_remaining[d]
        BY <2>2 DEF Committed, Plus
      <3>6. \A k, m, u \in Int : u <= m => k + u <= k + m
        OBVIOUS
      <3>7. QED
        BY <3>1, <3>4, <3>5, <3>6
    <2>4. QED
      BY <2>1, <2>2, <2>3 DEF Drains, FitsWithin
  <1>9. QED
    BY <1>3, <1>4, <1>5, <1>6, <1>7, <1>8 DEF LedgerStep

\* No new work below a sealed, faulted or closed account, whose commitments only
\* shrink; and no handle becomes active over an attempt that is over.
THEOREM ShutMeansShut == AgentSpec => NoLateWork
<1>1. Ledger /\ HandleInv /\ [AgentNext]_vars =>
        [\A a \in Account :
           accounts[a].phase \in {"Draining", "Faulted", "Closed"} =>
             LET committed == Plus(Plus(accounts[a].consumed, accounts[a].operation_reserved),
                                   accounts[a].child_delegated_remaining)
             IN  /\ accounts'[a].phase \notin {"Open", "Absent"}
                 /\ FitsWithin(Plus(Plus(accounts'[a].consumed, accounts'[a].operation_reserved),
                                    accounts'[a].child_delegated_remaining), committed)
                 /\ \A i \in DOMAIN reservations' \ DOMAIN reservations :
                      a \notin accounts[reservations'[i].budget].lineage]_ledger
  <2>1. Ledger /\ HandleInv /\ [AgentNext]_vars =>
          [\A a \in Account :
             accounts[a].phase \in {"Draining", "Faulted", "Closed"} => Drains(a)]_ledger
    BY AgentSteps, StepDrains DEF vars, ledger
  <2>2. QED
    BY <2>1 DEF Drains, Committed
<1>2. Ledger /\ HandleInv /\ [AgentNext]_vars =>
        [\A i \in DOMAIN reservations :
           handle[i] # "Active" /\ handle'[i] = "Active" =>
             Live(reservations[i]) /\ Live(reservations'[i])]_vars
  BY AgentSteps DEF Activating
<1>3. AgentSpec => ShutDrains
  BY <1>1, LedgerInvariant, PTL DEF AgentSpec, ShutDrains
<1>4. AgentSpec => ActivatesLiveWork
  BY <1>2, LedgerInvariant, PTL DEF AgentSpec, ActivatesLiveWork
<1>5. QED
  BY <1>3, <1>4 DEF NoLateWork

\* Consumption and observation never decrease and reach every ancestor.
Grows(a) ==
  /\ FitsWithin(accounts[a].consumed, accounts'[a].consumed)
  /\ accounts[a].phase # "Absent" =>
       /\ accounts'[a].parent = accounts[a].parent
       /\ accounts'[a].limits = accounts[a].limits
  /\ accounts[a].parent # None /\ accounts'[a].consumed # accounts[a].consumed =>
       Minus(accounts'[a].consumed, accounts[a].consumed) =
         Minus(accounts'[accounts[a].parent].consumed,
               accounts[accounts[a].parent].consumed)

Persists(i) ==
  /\ FitsWithin(reservations[i].observed, reservations'[i].observed)
  /\ reservations'[i].consume_now = reservations[i].consume_now
  /\ reservations'[i].reserve = reservations[i].reserve

LEMMA ChargeGrows ==
  ASSUME Ledger, NEW x \in Account, NEW delta \in Amounts, NEW sigma,
         Charge(accounts, accounts', x, delta, sigma), NEW a \in Account
  PROVE  Grows(a)
  <1>1. accounts \in Accts /\ Tree(accounts)
    BY LedgerParts
  <1>2. ASSUME NEW b \in Account, NEW d \in Dimension
        PROVE  /\ accounts'[b].consumed[d] = accounts[b].consumed[d]
                    + IF b \in accounts[x].lineage THEN delta[d] ELSE 0
               /\ accounts[b].consumed[d] \in Nat /\ delta[d] \in Nat
    BY <1>1, FieldTypes DEF Charge, Amounts
  <1>3. FitsWithin(accounts[a].consumed, accounts'[a].consumed)
    <2>1. \A m, u \in Nat : m <= m + u /\ m <= m + 0
      OBVIOUS
    <2>2. QED
      BY <1>2, <2>1 DEF FitsWithin
  <1>4. accounts'[a].parent = accounts[a].parent /\ accounts'[a].limits = accounts[a].limits
    BY DEF Charge
  <1>5. ASSUME accounts[a].parent # None, accounts'[a].consumed # accounts[a].consumed
        PROVE  Minus(accounts'[a].consumed, accounts[a].consumed) =
                 Minus(accounts'[accounts[a].parent].consumed,
                       accounts[accounts[a].parent].consumed)
    <2> DEFINE p == accounts[a].parent
    <2>1. a \in accounts[x].lineage
      BY <1>5 DEF Charge
    <2>2. p \in Account
      BY <1>1, <1>5, FieldTypes
    <2>3. p \in accounts[x].lineage
      <3>1. p \in accounts[p].lineage
        BY <1>1, <1>5, <2>2 DEF Tree
      <3>2. accounts[a].lineage = accounts[p].lineage \cup {a}
        BY <1>1, <1>5 DEF Tree
      <3>3. accounts[a].lineage \subseteq accounts[x].lineage
        BY <1>1, <2>1 DEF Tree
      <3>4. QED
        BY <3>1, <3>2, <3>3
    <2>4. ASSUME NEW d \in Dimension
          PROVE  accounts'[a].consumed[d] - accounts[a].consumed[d]
                   = accounts'[p].consumed[d] - accounts[p].consumed[d]
      <3>1. \A m, n, u \in Nat : (m + u) - m = (n + u) - n
        OBVIOUS
      <3>2. /\ accounts'[a].consumed[d] = accounts[a].consumed[d] + delta[d]
            /\ accounts'[p].consumed[d] = accounts[p].consumed[d] + delta[d]
        BY <1>2, <2>1, <2>2, <2>3
      <3>3. accounts[a].consumed[d] \in Nat /\ accounts[p].consumed[d] \in Nat
              /\ delta[d] \in Nat
        BY <1>2, <2>2
      <3>4. (accounts[a].consumed[d] + delta[d]) - accounts[a].consumed[d]
              = (accounts[p].consumed[d] + delta[d]) - accounts[p].consumed[d]
        BY <3>1, <3>3
      <3>5. QED
        BY <3>2, <3>4
    <2>5. QED
      BY <2>4 DEF Minus
  <1>6. QED
    BY <1>3, <1>4, <1>5 DEF Grows

LEMMA StepGrows ==
  ASSUME Ledger, LedgerStep, NEW a \in Account
  PROVE  Grows(a)
  <1>1. \A m \in Amounts : FitsWithin(m, m)
    BY DEF FitsWithin, Amounts
  <1>2. accounts[a].consumed \in Amounts /\ accounts \in Accts /\ Tree(accounts)
    BY LedgerParts, FieldTypes
  <1>3. ASSUME accounts'[a].consumed = accounts[a].consumed,
               accounts[a].phase # "Absent" =>
                 /\ accounts'[a].parent = accounts[a].parent
                 /\ accounts'[a].limits = accounts[a].limits
        PROVE  Grows(a)
    BY <1>1, <1>2, <1>3 DEF Grows
  <1>4. CASE UNCHANGED ledger
    BY <1>3, <1>4 DEF ledger
  <1>5. ASSUME NEW i \in DOMAIN reservations, Settling(i)
        PROVE  Grows(a)
    <2> DEFINE r == reservations[i]
               s == reservations'[i]
               delta == Minus(s.observed, r.observed)
               sigma == Minus(Outstanding(s), Outstanding(r))
    <2>1. Live(r) /\ Charge(accounts, accounts', r.budget, delta, sigma)
      BY <1>5 DEF Settling, Settles
    <2>2. r.budget \in Account
      BY <2>1, LiveAttempt
    <2>3. delta \in Amounts
      BY <1>5, SettlesFrees DEF Settling, Ledger
    <2> HIDE DEF delta, sigma
    <2>4. QED
      BY <2>1, <2>2, <2>3, ChargeGrows
  <1>6. CASE Beginning
    <2> DEFINE s == reservations'[Len(reservations) + 1]
    <2>1. s \in Attempt /\ Charge(accounts, accounts', s.budget, s.consume_now, s.reserve)
      BY <1>6 DEF Beginning, Begins
    <2>2. s.budget \in Account /\ s.consume_now \in Amounts
      BY <2>1 DEF Attempt
    <2> HIDE DEF s
    <2>3. QED
      BY <2>1, <2>2, ChargeGrows
  <1>7. CASE Allocating
    <2>1. PICK c \in Account, p \in Account, limits \in Amounts :
            Allocates(accounts, accounts', c, p, limits) /\ reservations' = reservations
      BY <1>7 DEF Allocating
    <2>2. accounts'[a].consumed = accounts[a].consumed
      BY <1>2, <2>1, AllocatesAmounts
    <2>3. accounts[a].phase # "Absent" =>
            accounts'[a].parent = accounts[a].parent /\ accounts'[a].limits = accounts[a].limits
      <3>1. a # c => accounts'[a].parent = accounts[a].parent
                       /\ accounts'[a].limits = accounts[a].limits
        BY <1>2, <2>1, AllocatesFields
      <3>2. a = c => accounts[a].phase = "Absent"
        BY <2>1 DEF Allocates
      <3>3. QED
        BY <3>1, <3>2
    <2>4. QED
      BY <1>3, <2>2, <2>3
  <1>8. CASE Sealing
    <2>1. PICK b \in Account : Seals(accounts, accounts', b) /\ reservations' = reservations
      BY <1>8 DEF Sealing
    <2>2. /\ accounts'[a].consumed = accounts[a].consumed
          /\ accounts'[a].parent = accounts[a].parent
          /\ accounts'[a].limits = accounts[a].limits
      <3>1. accounts[a] \in AccountRecord
        BY <1>2 DEF Accts
      <3>2. QED
        BY <1>2, <2>1, <3>1 DEF Seals, Accts, AccountRecord
    <2>3. QED
      BY <1>3, <2>2
  <1>9. CASE Closing
    <2>1. PICK b \in Account :
            Closes(accounts, reservations, accounts', b) /\ reservations' = reservations
      BY <1>9 DEF Closing
    <2>2. /\ accounts'[a].consumed = accounts[a].consumed
          /\ accounts'[a].parent = accounts[a].parent
          /\ accounts'[a].limits = accounts[a].limits
      BY <2>1 DEF Closes
    <2>3. QED
      BY <1>3, <2>2
  <1>10. QED
    BY <1>4, <1>5, <1>6, <1>7, <1>8, <1>9 DEF LedgerStep

LEMMA StepPersists ==
  ASSUME Ledger, LedgerStep, NEW i \in DOMAIN reservations
  PROVE  Persists(i)
  <1>1. \A m \in Amounts : FitsWithin(m, m)
    BY DEF FitsWithin, Amounts
  <1>2. reservations[i].observed \in Amounts
    <2>1. reservations[i] \in Attempt
      BY LedgerParts
    <2>2. QED
      BY <2>1 DEF Attempt
  <1>3. \/ reservations'[i] = reservations[i]
        \/ Advance(reservations[i], reservations'[i])
    BY StepAttempts
  <1>4. QED
    BY <1>1, <1>2, <1>3 DEF Persists, Advance

\* validate_refinement holds of every step: nothing consumed or observed is taken
\* back, and what an account consumes its parent consumes too.
THEOREM EveryStepRefines == AgentSpec => Refines
<1>1. Ledger /\ HandleInv /\ [AgentNext]_vars =>
        [/\ \A a \in Account :
              /\ FitsWithin(accounts[a].consumed, accounts'[a].consumed)
              /\ accounts[a].phase # "Absent" =>
                   /\ accounts'[a].parent = accounts[a].parent
                   /\ accounts'[a].limits = accounts[a].limits
              /\ accounts[a].parent # None /\ accounts'[a].consumed # accounts[a].consumed =>
                   Minus(accounts'[a].consumed, accounts[a].consumed) =
                     Minus(accounts'[accounts[a].parent].consumed,
                           accounts[accounts[a].parent].consumed)
         /\ \A i \in DOMAIN reservations :
              /\ FitsWithin(reservations[i].observed, reservations'[i].observed)
              /\ reservations'[i].consume_now = reservations[i].consume_now
              /\ reservations'[i].reserve = reservations[i].reserve]_ledger
  <2>1. Ledger /\ HandleInv /\ [AgentNext]_vars =>
          [(\A a \in Account : Grows(a))
             /\ (\A i \in DOMAIN reservations : Persists(i))]_ledger
    BY AgentSteps, StepGrows, StepPersists DEF vars, ledger
  <2>2. QED
    BY <2>1 DEF Grows, Persists
<1>2. QED
  BY <1>1, LedgerInvariant, PTL DEF AgentSpec, Refines
=============================================================================
