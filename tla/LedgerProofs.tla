---------------------------- MODULE LedgerProofs ----------------------------
(***************************************************************************)
(* Theorems about Ledger for every set of transactions and addresses,      *)
(* every reward schedule, every width of the arithmetic and chains of any  *)
(* length.  The loops of the code are recursive functions in Ledger; here  *)
(* each is related to the trace of its loop, and what a loop preserves is  *)
(* shown with the least round at which it would fail.                      *)
(***************************************************************************)
EXTENDS Ledger, TLAPS, NaturalsInduction, WellFoundedInduction, SequenceTheorems,
        FiniteSetTheorems

(***************************************************************************)
(* Every non-empty set of naturals has a least element: induction in a     *)
(* form that needs no predicate parameter.                                 *)
(***************************************************************************)
LEMMA NatMin ==
    ASSUME NEW T, T \subseteq Nat, T # {}
    PROVE  \E m \in T : \A n \in T : m <= n
<1>1. \E m \in T : \A n \in T : ~(<<n, m>> \in OpToRel(<, Nat))
    BY NatLessThanWellFounded, WFMin, Zenon
<1>2. PICK m \in T : \A n \in T : ~(<<n, m>> \in OpToRel(<, Nat))
    BY <1>1
<1>3. ASSUME NEW n \in T PROVE m <= n
    <2>1. ~(<<n, m>> \in OpToRel(<, Nat))
        BY <1>2
    <2>2. ~(n < m)
        BY <2>1, SMT DEF OpToRel
    <2> QED BY <2>2
<1> QED BY <1>2, <1>3

\* Folds.

(***************************************************************************)
(* A loop over 1..n that starts at x0 and applies g[i] in round i has a    *)
(* trace, and only one: what a recursive function needs to be well         *)
(* defined, with the loop body as a function in place of an operator.      *)
(***************************************************************************)
Loop(n, X, x0, g) == n \in Nat /\ x0 \in X /\ g \in [1..n -> [X -> X]]

Trace(f, n, X, x0, g) ==
    f \in [0..n -> X] /\ f[0] = x0 /\ \A i \in 1..n : f[i] = g[i][f[i - 1]]

LEMMA LoopTrace ==
    ASSUME NEW n, NEW X, NEW x0, NEW g, Loop(n, X, x0, g)
    PROVE  \E f : Trace(f, n, X, x0, g)
<1>0. n \in Nat /\ x0 \in X /\ g \in [1..n -> [X -> X]]
    BY DEF Loop
<1> DEFINE Upto(k, f) == f \in [0..k -> X] /\ f[0] = x0 /\ \A i \in 1..k : f[i] = g[i][f[i - 1]]
           Bad == {k \in 0..n : ~\E f : Upto(k, f)}
<1>1. ASSUME Bad # {} PROVE FALSE
    <2>0. Bad \subseteq Nat
        BY <1>0
    <2>1. PICK m \in Bad : \A k \in Bad : m <= k
        <3> HIDE DEF Bad
        <3> QED BY <1>1, <2>0, NatMin
    <2>2. m # 0
        <3>1. Upto(0, [i \in 0..0 |-> x0])
            BY <1>0
        <3> QED BY <3>1
    <2>3. m - 1 \in 0..n /\ m - 1 \notin Bad /\ m \in 1..n
        BY <1>0, <2>1, <2>2
    <2>4. PICK f : Upto(m - 1, f)
        BY <2>3
    <2> DEFINE h == [i \in 0..m |-> IF i = m THEN g[m][f[m - 1]] ELSE f[i]]
    <2>5. Upto(m, h)
        <3>1. g[m][f[m - 1]] \in X
            BY <1>0, <2>3, <2>4
        <3>2. h \in [0..m -> X]
            BY <1>0, <2>3, <2>4, <3>1
        <3>3. h[0] = x0
            BY <1>0, <2>3, <2>4
        <3>4. ASSUME NEW i \in 1..m PROVE h[i] = g[i][h[i - 1]]
            BY <1>0, <2>3, <2>4
        <3> HIDE DEF h
        <3> QED BY <3>2, <3>3, <3>4
    <2> QED BY <2>5, <2>1
<1>2. \E f : Upto(n, f)
    <2>1. n \notin Bad
        <3> HIDE DEF Bad
        <3> QED BY <1>1
    <2>2. n \in 0..n
        BY <1>0
    <2> HIDE DEF Upto
    <2> QED BY <1>0, <2>1, <2>2
<1> QED BY <1>2 DEF Trace

LEMMA LoopUnique ==
    ASSUME NEW n \in Nat, NEW f, NEW h, h[0] = f[0],
           \A i \in 1..n : h[i - 1] = f[i - 1] => h[i] = f[i]
    PROVE  \A i \in 0..n : h[i] = f[i]
<1> DEFINE Bad == {k \in 0..n : h[k] # f[k]}
<1>1. ASSUME Bad # {} PROVE FALSE
    <2>0. Bad \subseteq Nat
        OBVIOUS
    <2>1. PICK m \in Bad : \A k \in Bad : m <= k
        <3> HIDE DEF Bad
        <3> QED BY <1>1, <2>0, NatMin
    <2>2. m # 0
        BY <2>1
    <2>3. m \in 1..n /\ m - 1 \in 0..n /\ m - 1 \notin Bad
        BY <2>1, <2>2
    <2> QED BY <2>1, <2>3
<1> QED BY <1>1


-----------------------------------------------------------------------------
\* Sums.

Numbers(g, n) == \A i \in 1..n : g[i] \in Int

\* f is the list of partial sums of g.
Sums(f, g, n) ==
    f[0] = 0 /\ (\A i \in 0..n : f[i] \in Int) /\ \A i \in 1..n : f[i] = f[i - 1] + g[i]

LEMMA SumsUnique ==
    ASSUME NEW n \in Nat, NEW f, NEW e, NEW g, NEW h,
           Sums(f, g, n), Sums(e, h, n), \A i \in 1..n : g[i] = h[i]
    PROVE  e[n] = f[n]
<1>1. e[0] = f[0] /\ \A i \in 1..n : e[i - 1] = f[i - 1] => e[i] = f[i]
    BY DEF Sums
<1>2. \A i \in 0..n : e[i] = f[i]
    BY <1>1, LoopUnique
<1> QED BY <1>2

LEMMA TotalTrace ==
    ASSUME NEW n \in Nat, NEW g, Numbers(g, n)
    PROVE  \E f : Sums(f, g, n) /\ Total(g, n) = f[n]
<1> DEFINE G == [i \in 1..n |-> [x \in Int |-> x + g[i]]]
           Rec(k) == [i \in 0..n |-> IF i = 0 THEN 0 ELSE k[i - 1] + g[i]]
           K == CHOOSE k : k = Rec(k)
<1>1. Total(g, n) = K[n]
    BY DEF Total
<1>2. Loop(n, Int, 0, G)
    BY DEF Loop, Numbers
<1>3. PICK f \in [0..n -> Int] : f[0] = 0 /\ \A i \in 1..n : f[i] = G[i][f[i - 1]]
    <2> HIDE DEF G
    <2>1. \E f : Trace(f, n, Int, 0, G)
        BY <1>2, LoopTrace
    <2> QED BY <2>1 DEF Trace
<1>4. ASSUME NEW i \in 1..n PROVE f[i] = f[i - 1] + g[i]
    <2>1. f[i - 1] \in Int
        BY <1>3
    <2> QED BY <1>3, <2>1
<1>5. f = Rec(f)
    BY <1>3, <1>4
<1>6. K = Rec(K)
    <2> HIDE DEF Rec
    <2> QED BY <1>5
<1> HIDE DEF K
<1>7. Sums(f, g, n)
    BY <1>3, <1>4 DEF Sums
<1>8. K[0] = 0 /\ \A i \in 1..n : K[i] = K[i - 1] + g[i]
    BY <1>6
<1>9. K[0] = f[0] /\ \A i \in 1..n : K[i - 1] = f[i - 1] => K[i] = f[i]
    BY <1>3, <1>4, <1>8
<1>10. \A i \in 0..n : K[i] = f[i]
    <2> HIDE DEF G, Rec
    <2> QED BY <1>9, LoopUnique
<1>11. K[n] = f[n]
    BY <1>10
<1> HIDE DEF G, Rec
<1> QED BY <1>1, <1>7, <1>11, Zenon

\* Two lists with the same entries have the same sum.
LEMMA TotalSame ==
    ASSUME NEW n \in Nat, NEW g, NEW h, Numbers(g, n), \A i \in 1..n : h[i] = g[i]
    PROVE  Total(h, n) = Total(g, n) /\ Total(g, n) \in Int
<1>0. Numbers(h, n)
    BY DEF Numbers
<1>1. PICK f : Sums(f, g, n) /\ Total(g, n) = f[n]
    BY TotalTrace
<1>2. PICK e : Sums(e, h, n) /\ Total(h, n) = e[n]
    BY <1>0, TotalTrace
<1>3. e[n] = f[n]
    BY <1>1, <1>2, SumsUnique
<1>4. f[n] \in Int
    BY <1>1 DEF Sums
<1> QED BY <1>1, <1>2, <1>3, <1>4

\* The empty sum, and one more entry.
LEMMA TotalZero ==
    ASSUME NEW g PROVE Total(g, 0) = 0
<1>1. 0 \in Nat /\ Numbers(g, 0)
    BY DEF Numbers
<1>2. PICK f : Sums(f, g, 0) /\ Total(g, 0) = f[0]
    BY <1>1, TotalTrace
<1> QED BY <1>2 DEF Sums

LEMMA TotalStep ==
    ASSUME NEW n \in Nat, NEW m, m = n + 1, NEW g, Numbers(g, m)
    PROVE  Total(g, m) = Total(g, n) + g[m] /\ Total(g, n) \in Int /\ Total(g, m) \in Int
<1>0. m \in Nat /\ Numbers(g, n)
    BY DEF Numbers
<1>1. PICK f : Sums(f, g, n) /\ Total(g, n) = f[n]
    BY <1>0, TotalTrace, Zenon
<1>2. PICK e : Sums(e, g, m) /\ Total(g, m) = e[m]
    BY <1>0, TotalTrace, Zenon
<1>3. Sums(e, g, n)
    BY <1>2 DEF Sums
<1>4. e[n] = f[n]
    BY <1>1, <1>3, SumsUnique, Zenon
<1>5. e[m] = e[n] + g[m] /\ e[n] \in Int /\ e[m] \in Int
    BY <1>2 DEF Sums
<1> QED BY <1>1, <1>2, <1>4, <1>5

(***************************************************************************)
(* Sums compare as their entries do, up to a factor.                       *)
(***************************************************************************)
LEMMA Distribute ==
    ASSUME NEW c \in Int, NEW x \in Int, NEW y \in Int
    PROVE  c * (x + y) = c * x + c * y /\ c * x \in Int /\ c * y \in Int /\ c * 0 = 0
OBVIOUS

LEMMA TotalCompare ==
    ASSUME NEW n \in Nat, NEW b \in Int, NEW c \in Int, NEW g, NEW h,
           Numbers(g, n), Numbers(h, n), \A i \in 1..n : c * h[i] <= b * g[i]
    PROVE  c * Total(h, n) <= b * Total(g, n) /\ Total(g, n) \in Int /\ Total(h, n) \in Int
<1> DEFINE Good(k) == /\ c * Total(h, k) <= b * Total(g, k)
                      /\ Total(g, k) \in Int /\ Total(h, k) \in Int
           Bad == {k \in 0..n : ~Good(k)}
<1>1. ASSUME Bad # {} PROVE FALSE
    <2>0. Bad \subseteq Nat
        OBVIOUS
    <2>1. PICK m \in Bad : \A k \in Bad : m <= k
        <3> HIDE DEF Bad
        <3> QED BY <1>1, <2>0, NatMin
    <2>2. m # 0
        <3>1. Total(g, 0) = 0 /\ Total(h, 0) = 0
            BY TotalZero
        <3> QED BY <2>1, <3>1
    <2>3. PICK k \in Nat : k + 1 = m /\ k \in 0..n /\ k \notin Bad /\ m \in 1..n
        <3>1. m - 1 \in Nat /\ (m - 1) + 1 = m /\ m - 1 \in 0..n /\ m - 1 \notin Bad /\ m \in 1..n
            BY <2>0, <2>1, <2>2
        <3> HIDE DEF Bad
        <3> QED BY <3>1
    <2>4. Good(k)
        BY <2>3
    <2>5. /\ Total(g, m) = Total(g, k) + g[m] /\ Total(h, m) = Total(h, k) + h[m]
          /\ Total(g, m) \in Int /\ Total(h, m) \in Int
        <3>1. Numbers(g, m) /\ Numbers(h, m)
            BY <2>3 DEF Numbers
        <3> QED BY <2>3, <3>1, TotalStep
    <2>6. c * h[m] <= b * g[m] /\ g[m] \in Int /\ h[m] \in Int
        BY <2>3 DEF Numbers
    <2>7. c * Total(h, m) = c * Total(h, k) + c * h[m] /\ c * Total(h, k) \in Int /\ c * h[m] \in Int
        BY <2>4, <2>5, <2>6, Distribute
    <2>8. b * Total(g, m) = b * Total(g, k) + b * g[m] /\ b * Total(g, k) \in Int /\ b * g[m] \in Int
        BY <2>4, <2>5, <2>6, Distribute
    <2>9. Good(m)
        BY <2>4, <2>5, <2>6, <2>7, <2>8
    <2> QED BY <2>1, <2>9
<1>2. n \notin Bad
    BY <1>1
<1> QED BY <1>2

LEMMA TotalNat ==
    ASSUME NEW n \in Nat, NEW g, \A i \in 1..n : g[i] \in Nat
    PROVE  Total(g, n) \in Nat
<1>1. Numbers(g, n)
    BY DEF Numbers
<1>2. \A i \in 1..n : 0 * g[i] <= 1 * g[i]
    OBVIOUS
<1>3. 0 * Total(g, n) <= 1 * Total(g, n) /\ Total(g, n) \in Int
    <2>1. 0 \in Int /\ 1 \in Int
        OBVIOUS
    <2> QED BY <1>1, <1>2, <2>1, TotalCompare, Zenon
<1> QED BY <1>3

LEMMA TotalOnes ==
    ASSUME NEW n \in Nat PROVE Total([i \in 1..n |-> 1], n) = n
<1> DEFINE g == [i \in 1..n |-> 1]
           e == [i \in 0..n |-> i]
<1>1. Numbers(g, n)
    BY DEF Numbers
<1>2. Sums(e, g, n) /\ e[n] = n
    BY DEF Sums
<1> HIDE DEF g, e
<1>3. PICK f : Sums(f, g, n) /\ Total(g, n) = f[n]
    BY <1>1, TotalTrace
<1>4. e[n] = f[n]
    BY <1>2, <1>3, SumsUnique
<1> QED BY <1>2, <1>3, <1>4 DEF g

-----------------------------------------------------------------------------
\* Execution.

StateType == [balances : [Address -> 0..MaxU128], nonces : [Address -> Nat]]
TxReason ==
    {"TxTooLarge", "Ok", "MissingSenderPubkey", "MissingSignature", "UnsupportedModuleMethod",
     "FeeLimitTooLow", "Signature", "BadTransferArgs", "InvalidTransferDestination",
     "TransferAmountZero", "TransferToSelf", "NonceMismatch", "ArithmeticOverflow",
     "FeeExceedsLimit", "InsufficientBalance"}
Reason == TxReason \cup {"InvalidMinerAddress", "CoinbaseRewardOverflow"}
Result == [why : Reason, st : StateType]

(***************************************************************************)
(* What a transaction that executes is.                                    *)
(***************************************************************************)
LEMMA TxTyped ==
    ASSUME NEW t \in Tx
    PROVE  /\ t \in TxType /\ t.nonce \in Nat /\ t.amount \in Nat /\ t.tip \in Nat /\ t.fee_limit \in Nat
           /\ t.to \in Address \cup {NoAddress} /\ charged_fee(t) \in Nat /\ total_cost(t) \in Nat
           /\ total_cost(t) = t.amount + charged_fee(t)
<1>1. t \in TxType /\ BaseFee \in Nat
    BY LedgerAssumption
<1>2. t.nonce \in Nat /\ t.amount \in Nat /\ t.tip \in Nat /\ t.fee_limit \in Nat /\ t.to \in Address \cup {NoAddress}
    BY <1>1 DEF TxType
<1> QED BY <1>1, <1>2 DEF charged_fee, total_cost

LEMMA Stateless ==
    ASSUME NEW t \in Tx, t.kind = "transfer", validate_tx_stateless(t) = "Ok"
    PROVE  t.sender \in Address /\ t.to \in Address /\ t.to # t.sender /\ t.sig = "good"
<1>1. t.to \in Address \cup {NoAddress}
    BY TxTyped
<1>2. verify_tx_signature(t) /\ t.to # NoAddress /\ t.to # t.sender
    BY DEF validate_tx_stateless
<1> QED BY <1>1, <1>2 DEF verify_tx_signature

LEMMA Executable ==
    ASSUME NEW st \in StateType, NEW t \in Tx, Why(st, t) = "Ok"
    PROVE  /\ t.kind = "transfer" /\ t.sender \in Address /\ t.to \in Address /\ t.to # t.sender
           /\ t.nonce = st.nonces[t.sender]
           /\ st.balances[t.sender] >= total_cost(t) /\ st.balances[t.to] + t.amount <= MaxU128
<1>0. MaxU128 \in Nat
    BY LedgerAssumption
<1>1. /\ t.kind = "transfer" /\ validate_tx_stateless(t) = "Ok" /\ t.nonce = st.nonces[t.sender]
      /\ ~(st.balances[t.sender] < total_cost(t)) /\ ~(st.balances[t.to] + t.amount > MaxU128)
    BY DEF Why
<1>2. t.sender \in Address /\ t.to \in Address /\ t.to # t.sender
    BY <1>1, Stateless
<1>3. /\ st.balances[t.sender] \in Nat /\ total_cost(t) \in Nat
      /\ st.balances[t.to] \in Nat /\ t.amount \in Nat
    BY <1>0, <1>2, TxTyped DEF StateType
<1> QED BY <1>0, <1>1, <1>2, <1>3

LEMMA ExecuteTyped ==
    ASSUME NEW st \in StateType, NEW t \in Tx, Why(st, t) = "Ok"
    PROVE  /\ Execute(st, t) \in StateType
           /\ Execute(st, t).nonces = [st.nonces EXCEPT ![t.sender] = @ + 1]
           /\ Execute(st, t).balances = [st.balances EXCEPT ![t.sender] = @ - total_cost(t),
                                                            ![t.to] = @ + t.amount]
<1>1. /\ t.sender \in Address /\ t.to \in Address /\ t.to # t.sender
      /\ st.balances[t.sender] >= total_cost(t) /\ st.balances[t.to] + t.amount <= MaxU128
    BY Executable
<1>2. t.amount \in Nat /\ total_cost(t) \in Nat /\ MaxU128 \in Nat
    BY TxTyped, LedgerAssumption
<1>3. st.balances \in [Address -> 0..MaxU128] /\ st.nonces \in [Address -> Nat]
    BY DEF StateType
<1> DEFINE b == [st.balances EXCEPT ![t.sender] = @ - total_cost(t), ![t.to] = @ + t.amount]
           n == [st.nonces EXCEPT ![t.sender] = @ + 1]
<1>4. n \in [Address -> Nat]
    BY <1>1, <1>3
<1>5. b \in [Address -> 0..MaxU128]
    <2>1. st.balances[t.sender] - total_cost(t) \in 0..MaxU128
        BY <1>1, <1>2, <1>3
    <2>2. st.balances[t.to] + t.amount \in 0..MaxU128
        BY <1>1, <1>2, <1>3
    <2>3. b = [a \in Address |-> IF a = t.to THEN st.balances[t.to] + t.amount
                                 ELSE IF a = t.sender THEN st.balances[t.sender] - total_cost(t)
                                 ELSE st.balances[a]]
        BY <1>1, <1>3
    <2> QED BY <1>3, <2>1, <2>2, <2>3
<1>6. Execute(st, t) = [balances |-> b, nonces |-> n]
    BY DEF Execute
<1> HIDE DEF b, n
<1>7. Execute(st, t) \in StateType
    BY <1>4, <1>5, <1>6 DEF StateType
<1>8. Execute(st, t).nonces = n /\ Execute(st, t).balances = b
    BY <1>6
<1> QED BY <1>7, <1>8 DEF b, n

LEMMA WhyTyped ==
    ASSUME NEW st, NEW t PROVE Why(st, t) \in Reason
<1>1. validate_tx_stateless(t) \in TxReason
    BY SMT DEF validate_tx_stateless, TxReason
<1>2. Why(st, t) \in TxReason
    BY <1>1, SMT DEF Why, TxReason
<1> QED BY <1>2 DEF Reason

LEMMA SimulateTyped ==
    ASSUME NEW r \in Result, NEW t \in Tx
    PROVE  /\ simulate_tx_execution(r, t) \in Result
           /\ Fine(simulate_tx_execution(r, t)) =>
                 /\ Fine(r) /\ Why(r.st, t) = "Ok"
                 /\ simulate_tx_execution(r, t).st = Execute(r.st, t)
<1>0. r = [why |-> r.why, st |-> r.st] /\ r.why \in Reason /\ r.st \in StateType
    BY DEF Result
<1>1. CASE ~Fine(r)
    BY <1>1 DEF simulate_tx_execution
<1>2. CASE Fine(r) /\ Why(r.st, t) # "Ok"
    <2>1. simulate_tx_execution(r, t) = [why |-> Why(r.st, t), st |-> r.st]
        BY <1>0, <1>2 DEF simulate_tx_execution
    <2>2. Why(r.st, t) \in Reason
        BY WhyTyped
    <2> QED BY <1>0, <1>2, <2>1, <2>2 DEF Fine, Result
<1>3. CASE Fine(r) /\ Why(r.st, t) = "Ok"
    <2>1. simulate_tx_execution(r, t) = [why |-> r.why, st |-> Execute(r.st, t)]
        BY <1>0, <1>3 DEF simulate_tx_execution
    <2>2. Execute(r.st, t) \in StateType
        BY <1>0, <1>3, ExecuteTyped
    <2> QED BY <1>0, <1>3, <2>1, <2>2 DEF Result
<1> QED BY <1>1, <1>2, <1>3

(***************************************************************************)
(* The states that the transactions of a block go through.                 *)
(***************************************************************************)
Path(s, txs, st) ==
    /\ s \in [0..Len(txs) -> StateType] /\ s[0] = st
    /\ \A i \in 1..Len(txs) : Why(s[i - 1], txs[i]) = "Ok" /\ s[i] = Execute(s[i - 1], txs[i])

LEMMA ExecutionTrace ==
    ASSUME NEW r \in Result, NEW txs \in Seq(Tx)
    PROVE  \E run \in [0..Len(txs) -> Result] :
              /\ run[0] = r /\ execute_non_coinbase_txs(r, txs) = run[Len(txs)]
              /\ \A i \in 1..Len(txs) : run[i] = simulate_tx_execution(run[i - 1], txs[i])
<1> DEFINE n == Len(txs)
           G == [i \in 1..n |-> [x \in Result |-> simulate_tx_execution(x, txs[i])]]
           Rec(k) == [i \in 0..n |-> IF i = 0 THEN r ELSE simulate_tx_execution(k[i - 1], txs[i])]
           K == CHOOSE k : k = Rec(k)
<1>0. n \in Nat /\ \A i \in 1..n : txs[i] \in Tx
    OBVIOUS
<1>1. execute_non_coinbase_txs(r, txs) = K[n]
    BY DEF execute_non_coinbase_txs
<1> HIDE DEF n
<1>2. Loop(n, Result, r, G)
    <2>1. ASSUME NEW i \in 1..n, NEW x \in Result PROVE simulate_tx_execution(x, txs[i]) \in Result
        BY <1>0, SimulateTyped
    <2> QED BY <1>0, <2>1 DEF Loop
<1>3. PICK f \in [0..n -> Result] : f[0] = r /\ \A i \in 1..n : f[i] = G[i][f[i - 1]]
    <2> HIDE DEF G
    <2>1. \E f : Trace(f, n, Result, r, G)
        BY <1>2, LoopTrace
    <2> QED BY <2>1 DEF Trace
<1>4. ASSUME NEW i \in 1..n PROVE f[i] = simulate_tx_execution(f[i - 1], txs[i])
    <2>1. f[i - 1] \in Result
        BY <1>0, <1>3
    <2> QED BY <1>3, <2>1
<1>5. f = Rec(f)
    BY <1>3, <1>4
<1>6. K = Rec(K)
    <2> HIDE DEF Rec
    <2> QED BY <1>5
<1> HIDE DEF K
<1>7. K[0] = r /\ \A i \in 1..n : K[i] = simulate_tx_execution(K[i - 1], txs[i])
    BY <1>0, <1>6
<1>8. K[0] = f[0] /\ \A i \in 1..n : K[i - 1] = f[i - 1] => K[i] = f[i]
    BY <1>3, <1>4, <1>7
<1>9. \A i \in 0..n : K[i] = f[i]
    <2> HIDE DEF G, Rec
    <2> QED BY <1>0, <1>8, LoopUnique
<1>10. K[n] = f[n]
    BY <1>0, <1>9
<1>11. execute_non_coinbase_txs(r, txs) = f[n]
    BY <1>1, <1>10
<1> HIDE DEF G, Rec
<1> QED BY <1>3, <1>4, <1>11 DEF n

(***************************************************************************)
(* A block that executes took every one of its transactions.               *)
(***************************************************************************)
LEMMA FinePath ==
    ASSUME NEW r \in Result, NEW txs \in Seq(Tx)
    PROVE  /\ execute_non_coinbase_txs(r, txs) \in Result
           /\ Fine(execute_non_coinbase_txs(r, txs)) =>
                 /\ Fine(r)
                 /\ \E s : Path(s, txs, r.st) /\ execute_non_coinbase_txs(r, txs).st = s[Len(txs)]
<1> DEFINE n == Len(txs)
<1>0. n \in Nat /\ n \in 0..n /\ 0 \in 0..n /\ \A i \in 1..n : txs[i] \in Tx
    OBVIOUS
<1>1. PICK run \in [0..n -> Result] :
              /\ run[0] = r /\ execute_non_coinbase_txs(r, txs) = run[n]
              /\ \A i \in 1..n : run[i] = simulate_tx_execution(run[i - 1], txs[i])
    BY ExecutionTrace
<1> HIDE DEF n
<1>2. run[n] \in Result
    BY <1>0, <1>1
<1>3. ASSUME Fine(run[n])
      PROVE  /\ Fine(r)
             /\ \E s : Path(s, txs, r.st) /\ execute_non_coinbase_txs(r, txs).st = s[Len(txs)]
    <2>0. ASSUME NEW i \in 1..n, Fine(run[i])
          PROVE  Fine(run[i - 1]) /\ Why(run[i - 1].st, txs[i]) = "Ok"
                 /\ run[i].st = Execute(run[i - 1].st, txs[i])
        <3>1. run[i - 1] \in Result /\ run[i] = simulate_tx_execution(run[i - 1], txs[i]) /\ txs[i] \in Tx
            BY <1>0, <1>1
        <3> QED BY <2>0, <3>1, SimulateTyped
    <2> DEFINE Bad == {k \in 0..n : ~Fine(run[n - k])}
    <2>1. ASSUME Bad # {} PROVE FALSE
        <3>1. PICK m \in Bad : \A k \in Bad : m <= k
            <4>1. Bad \subseteq Nat
                BY <1>0
            <4> HIDE DEF Bad
            <4> QED BY <2>1, <4>1, NatMin
        <3>2. m # 0
            BY <1>0, <1>3, <3>1
        <3>3. m - 1 \in 0..n /\ m - 1 \notin Bad
            BY <1>0, <3>1, <3>2
        <3>4. Fine(run[n - (m - 1)])
            BY <3>3
        <3>5. n - (m - 1) \in 1..n /\ (n - (m - 1)) - 1 = n - m
            BY <1>0, <3>1, <3>2
        <3>6. Fine(run[n - m])
            <4>1. Fine(run[(n - (m - 1)) - 1])
                <5> HIDE DEF Bad
                <5> QED BY <2>0, <3>4, <3>5
            <4> QED BY <3>5, <4>1
        <3> QED BY <3>1, <3>6
    <2>2. \A i \in 0..n : Fine(run[i])
        <3> SUFFICES ASSUME NEW i \in 0..n PROVE Fine(run[i])
            OBVIOUS
        <3>1. n - i \in 0..n /\ n - (n - i) = i
            BY <1>0
        <3>2. n - i \notin Bad
            BY <2>1
        <3>3. Fine(run[n - (n - i)])
            BY <3>1, <3>2
        <3> QED BY <3>1, <3>3
    <2> DEFINE s == [i \in 0..n |-> run[i].st]
    <2>3. s \in [0..n -> StateType] /\ s[0] = r.st /\ s[n] = run[n].st
        BY <1>0, <1>1 DEF Result
    <2>4. ASSUME NEW i \in 1..n PROVE Why(s[i - 1], txs[i]) = "Ok" /\ s[i] = Execute(s[i - 1], txs[i])
        <3>1. i \in 0..n /\ i - 1 \in 0..n
            BY <1>0
        <3>2. Fine(run[i])
            BY <2>2, <3>1
        <3>3. Why(run[i - 1].st, txs[i]) = "Ok" /\ run[i].st = Execute(run[i - 1].st, txs[i])
            BY <2>0, <3>2
        <3>4. s[i - 1] = run[i - 1].st /\ s[i] = run[i].st
            BY <3>1
        <3> QED BY <3>3, <3>4
    <2> HIDE DEF s, Bad
    <2>5. Path(s, txs, r.st)
        BY <2>3, <2>4 DEF Path, n
    <2>6. Fine(r)
        BY <1>0, <1>1, <2>2
    <2> QED BY <1>1, <2>3, <2>5, <2>6 DEF n
<1> QED BY <1>1, <1>2, <1>3

-----------------------------------------------------------------------------
\* Blocks.

LEMMA RewardTyped ==
    ASSUME NEW height \in Nat PROVE block_reward(height) \in Nat
<1> DEFINE n == height \div HalvingInterval
           G == [i \in 1..n |-> [x \in Nat |-> x \div 2]]
           Rec(k) == [i \in 0..n |-> IF i = 0 THEN Emission ELSE k[i - 1] \div 2]
           K == CHOOSE k : k = Rec(k)
<1>0. n \in Nat /\ Emission \in Nat
    BY LedgerAssumption
<1>1. block_reward(height) = K[n]
    BY DEF block_reward
<1> HIDE DEF n
<1>2. Loop(n, Nat, Emission, G)
    BY <1>0 DEF Loop
<1>3. PICK f \in [0..n -> Nat] : f[0] = Emission /\ \A i \in 1..n : f[i] = G[i][f[i - 1]]
    <2> HIDE DEF G
    <2>1. \E f : Trace(f, n, Nat, Emission, G)
        BY <1>2, LoopTrace
    <2> QED BY <2>1 DEF Trace
<1>4. ASSUME NEW i \in 1..n PROVE f[i] = f[i - 1] \div 2
    <2>1. f[i - 1] \in Nat
        BY <1>0, <1>3
    <2> QED BY <1>3, <2>1
<1>5. f = Rec(f)
    BY <1>3, <1>4
<1>6. K = Rec(K)
    <2> HIDE DEF Rec
    <2> QED BY <1>5
<1> HIDE DEF K
<1>7. K[0] = Emission /\ \A i \in 1..n : K[i] = K[i - 1] \div 2
    BY <1>0, <1>6
<1>8. K[0] = f[0] /\ \A i \in 1..n : K[i - 1] = f[i - 1] => K[i] = f[i]
    BY <1>3, <1>4, <1>7
<1>9. \A i \in 0..n : K[i] = f[i]
    <2> HIDE DEF G, Rec
    <2> QED BY <1>0, <1>8, LoopUnique, ZenonT(30)
<1>10. f[n] \in Nat /\ K[n] = f[n]
    BY <1>0, <1>3, <1>9
<1> QED BY <1>1, <1>10

(***************************************************************************)
(* Blocks that can be applied at all, and what one that applies does.      *)
(***************************************************************************)
Fields ==
    {"number", "timestamp", "difficulty", "miner", "txs", "coinbase", "weight", "tx_root",
     "digest", "claimed", "state_root"}

Block(b) ==
    /\ DOMAIN b = Fields /\ b = [f \in Fields |-> b[f]]
    /\ b.number \in Nat /\ b.timestamp \in Nat /\ b.difficulty \in Nat
    /\ b.txs \in Seq(Tx) /\ b.miner \in Address \cup {NoAddress}

Rewarded(st, b) ==
    [balances |-> [st.balances EXCEPT ![b.miner] = @ + block_reward(b.number)], nonces |-> st.nonces]

LEMMA RewardedTyped ==
    ASSUME NEW st \in StateType, NEW b, Block(b), b.miner \in Address,
           ~(st.balances[b.miner] + block_reward(b.number) > MaxU128)
    PROVE  Rewarded(st, b) \in StateType
<1>1. block_reward(b.number) \in Nat /\ MaxU128 \in Nat
    BY RewardTyped, LedgerAssumption DEF Block
<1>2. st.balances \in [Address -> 0..MaxU128] /\ st.nonces \in [Address -> Nat]
    BY DEF StateType
<1>3. [st.balances EXCEPT ![b.miner] = @ + block_reward(b.number)] \in [Address -> 0..MaxU128]
    BY <1>1, <1>2
<1> QED BY <1>2, <1>3 DEF Rewarded, StateType

LEMMA ApplyResult ==
    ASSUME NEW r \in Result, NEW b, Block(b)
    PROVE  /\ ApplyTo(r, b) \in Result
           /\ Fine(ApplyTo(r, b)) =>
                 /\ Fine(r) /\ b.miner \in Address
                 /\ \E s : /\ Path(s, b.txs, r.st)
                           /\ ApplyTo(r, b) = [why |-> "Ok", st |-> Rewarded(s[Len(b.txs)], b)]
<1> DEFINE e == execute_non_coinbase_txs(r, b.txs)
<1>0. b.txs \in Seq(Tx) /\ b.miner \in Address \cup {NoAddress}
    BY DEF Block
<1>1. e \in Result
    BY <1>0, FinePath
<1>2. Fine(e) => Fine(r) /\ \E s : Path(s, b.txs, r.st) /\ e.st = s[Len(b.txs)]
    BY <1>0, FinePath
<1>3. ApplyTo(r, b) = apply_coinbase_reward(e, b.miner, b.number)
    BY DEF ApplyTo
<1> HIDE DEF e
<1>4. e = [why |-> e.why, st |-> e.st] /\ e.why \in Reason /\ e.st \in StateType
    BY <1>1 DEF Result
<1>5. e.st = [balances |-> e.st.balances, nonces |-> e.st.nonces]
    BY <1>4 DEF StateType
<1>6. CASE ~Fine(e)
    BY <1>1, <1>3, <1>6 DEF apply_coinbase_reward
<1>7. CASE Fine(e) /\ b.miner = NoAddress
    <2>1. ApplyTo(r, b) = [why |-> "InvalidMinerAddress", st |-> e.st]
        BY <1>3, <1>4, <1>7 DEF apply_coinbase_reward
    <2>2. ApplyTo(r, b) \in Result
        <3>1. "InvalidMinerAddress" \in Reason
            BY DEF Reason
        <3> QED BY <1>4, <2>1, <3>1 DEF Result
    <2>3. ApplyTo(r, b).why = "InvalidMinerAddress"
        BY <2>1
    <2>4. ~Fine(ApplyTo(r, b))
        BY <2>3 DEF Fine
    <2> QED BY <2>2, <2>4
<1>8. CASE Fine(e) /\ b.miner # NoAddress /\ e.st.balances[b.miner] + block_reward(b.number) > MaxU128
    <2>1. ApplyTo(r, b) = [why |-> "CoinbaseRewardOverflow", st |-> e.st]
        BY <1>3, <1>4, <1>8 DEF apply_coinbase_reward
    <2>2. ApplyTo(r, b) \in Result
        <3>1. "CoinbaseRewardOverflow" \in Reason
            BY DEF Reason
        <3> QED BY <1>4, <2>1, <3>1 DEF Result
    <2>3. ApplyTo(r, b).why = "CoinbaseRewardOverflow"
        BY <2>1
    <2>4. ~Fine(ApplyTo(r, b))
        BY <2>3 DEF Fine
    <2> QED BY <2>2, <2>4
<1>9. CASE Fine(e) /\ b.miner # NoAddress /\ ~(e.st.balances[b.miner] + block_reward(b.number) > MaxU128)
    <2>1. ApplyTo(r, b) = [e EXCEPT !.st.balances[b.miner] = @ + block_reward(b.number)]
        BY <1>3, <1>9 DEF apply_coinbase_reward
    <2>2. ApplyTo(r, b) = [why |-> "Ok", st |-> Rewarded(e.st, b)]
        BY <1>4, <1>5, <1>9, <2>1 DEF Fine, Rewarded
    <2>3. b.miner \in Address
        BY <1>0, <1>9
    <2>4. Rewarded(e.st, b) \in StateType
        BY <1>4, <1>9, <2>3, RewardedTyped
    <2>5. ApplyTo(r, b) \in Result
        <3>1. "Ok" \in Reason
            BY DEF Reason, TxReason
        <3> QED BY <2>2, <2>4, <3>1 DEF Result
    <2>6. PICK s : Path(s, b.txs, r.st) /\ e.st = s[Len(b.txs)]
        BY <1>2, <1>9
    <2>7. ApplyTo(r, b) = [why |-> "Ok", st |-> Rewarded(s[Len(b.txs)], b)]
        BY <2>2, <2>6
    <2>8. Fine(r)
        BY <1>2, <1>9
    <2> QED BY <2>3, <2>5, <2>6, <2>7, <2>8
<1> QED BY <1>6, <1>7, <1>8, <1>9

(***************************************************************************)
(* A block that passes every stage.                                        *)
(***************************************************************************)
LEMMA Passes ==
    ASSUME NEW b, apply_block_verdict(b) = "Ok"
    PROVE  /\ ~(b.timestamp <= tip.timestamp)
           /\ b.difficulty = calculate_next_difficulty(collect_ancestor_window, b.timestamp)
           /\ Fine(ApplyTo(Live, b))
<1>1. ~(b.timestamp <= tip.timestamp)
    BY DEF apply_block_verdict
<1>2. b.difficulty = calculate_next_difficulty(collect_ancestor_window, b.timestamp)
    BY DEF apply_block_verdict
<1>3. Fine(ApplyTo(Live, b))
    BY DEF apply_block_verdict, Fine
<1> QED BY <1>1, <1>2, <1>3

-----------------------------------------------------------------------------
\* Steps.

LiveState == [balances |-> balances, nonces |-> nonces]

ChainInv ==
    /\ \E S : chain \in Seq(S)
    /\ Len(chain) >= 1
    /\ \A i \in 1..Len(chain) : Block(chain[i]) /\ chain[i].number = i - 1
    /\ LiveState \in StateType
    /\ clock \in Nat /\ granted \in [sum : Nat, count : Nat]
    /\ Block(job.blk)

LEMMA TipFacts ==
    ASSUME ChainInv
    PROVE  /\ Len(chain) \in Nat /\ DOMAIN chain = 1..Len(chain)
           /\ tip = chain[Len(chain)] /\ Block(tip) /\ tip.number = Len(chain) - 1
<1>1. PICK S : chain \in Seq(S)
    BY DEF ChainInv
<1>2. Len(chain) \in Nat /\ DOMAIN chain = 1..Len(chain) /\ Len(chain) \in 1..Len(chain)
    BY <1>1 DEF ChainInv
<1>3. tip = chain[Len(chain)]
    BY DEF tip, Last
<1> QED BY <1>2, <1>3 DEF ChainInv

LEMMA LiveTyped ==
    ASSUME ChainInv
    PROVE  Live = [why |-> "Ok", st |-> LiveState] /\ Live \in Result /\ Fine(Live) /\ Live.st = LiveState
<1>1. Live = [why |-> "Ok", st |-> LiveState]
    BY DEF Live, LiveState
<1>2. LiveState \in StateType /\ "Ok" \in Reason
    BY DEF ChainInv, Reason, TxReason
<1> QED BY <1>1, <1>2 DEF Result, Fine

(***************************************************************************)
(* The retarget is a number.                                               *)
(***************************************************************************)
Rate(sum, count, lwma) == ((sum \div count) * TargetTime) \div lwma

LEMMA RateTyped ==
    ASSUME NEW sum \in Nat, NEW count \in Nat, count > 0, NEW lwma \in Nat, lwma > 0
    PROVE  Rate(sum, count, lwma) \in Nat
<1>1. TargetTime \in Nat
    BY RetargetAssumption
<1>2. sum \div count \in Nat
    OBVIOUS
<1>3. (sum \div count) * TargetTime \in Nat
    BY <1>1, <1>2
<1> QED BY <1>3 DEF Rate

LEMMA DifficultyForm ==
    ASSUME NEW blocks, NEW now, Len(blocks) \in Nat, Len(blocks) >= 2
    PROVE  LET count == Len(blocks) - 1
               raw(i) == AtLeast(blocks[i + 1].timestamp - blocks[i].timestamp, 0)
               ws    == Total([i \in 1..count |-> clamped(raw(i)) * i], count)
               wt    == Total([i \in 1..count |-> i], count)
               sd    == Total([i \in 1..count |-> blocks[i + 1].difficulty], count)
               rate  == Rate(sd, count, AtLeast(ws \div wt, 1))
               stalled == AtLeast(now - Last(blocks).timestamp, 0) > TargetTime * StallMultiplier
           IN  calculate_next_difficulty(blocks, now)
                  = AtLeast(IF stalled THEN (rate * 3) \div 4 ELSE rate, Floor) % (MaxU64 + 1)
BY DEF calculate_next_difficulty, Rate

-----------------------------------------------------------------------------
\* Difficulty.

(***************************************************************************)
(* Whole-number arithmetic of the retarget.                                *)
(***************************************************************************)
LEMMA Scale ==
    ASSUME NEW c \in Nat, NEW x \in Int, NEW y \in Int, x <= y
    PROVE  c * x <= c * y /\ c * x \in Int /\ c * y \in Int /\ c * x = x * c /\ c * y = y * c
OBVIOUS

LEMMA Quotient ==
    ASSUME NEW x \in Nat, NEW y \in Nat, y > 0
    PROVE  /\ x \div y \in Nat /\ (x \div y) * y <= x /\ x < ((x \div y) + 1) * y
OBVIOUS

LEMMA QuotientBounds ==
    ASSUME NEW x \in Nat, NEW y \in Nat, y > 0, NEW lo \in Nat, NEW hi \in Nat
    PROVE  /\ lo * y <= x => lo <= x \div y
           /\ x <= hi * y => x \div y <= hi
<1> DEFINE q == x \div y
<1>1. q \in Nat /\ q * y <= x /\ x < (q + 1) * y
    BY Quotient
<1> HIDE DEF q
<1>2. ASSUME lo * y <= x PROVE lo <= q
    <2>1. CASE q + 1 <= lo
        <3>1. y * (q + 1) <= y * lo /\ y * (q + 1) = (q + 1) * y /\ y * lo = lo * y
            BY <1>1, <2>1, Scale
        <3> QED BY <1>1, <1>2, <3>1
    <2> QED BY <1>1, <2>1
<1>3. ASSUME x <= hi * y PROVE q <= hi
    <2>1. CASE hi + 1 <= q
        <3>1. y * (hi + 1) <= y * q /\ y * (hi + 1) = (hi + 1) * y /\ y * q = q * y
            BY <1>1, <2>1, Scale
        <3>2. (hi + 1) * y = hi * y + y /\ hi * y \in Nat
            OBVIOUS
        <3> QED BY <1>1, <1>3, <3>1, <3>2
    <2> QED BY <1>1, <2>1
<1> QED BY <1>2, <1>3 DEF q

(***************************************************************************)
(* A weighted average of the clamped intervals lies between the clamps.    *)
(***************************************************************************)
LEMMA Clamps ==
    ASSUME NEW x \in Int
    PROVE  clamped(x) \in Nat /\ MinInterval <= clamped(x) /\ clamped(x) <= MaxInterval
BY RetargetAssumption DEF clamped, AtLeast, AtMost

LEMMA Average ==
    ASSUME NEW n \in Nat, n >= 1, NEW g, \A i \in 1..n : g[i] \in Nat /\ MinInterval <= g[i] /\ g[i] <= MaxInterval
    PROVE  LET ws == Total([i \in 1..n |-> g[i] * i], n)
               wt == Total([i \in 1..n |-> i], n)
               lwma == AtLeast(ws \div wt, 1)
           IN  lwma \in Nat /\ lwma > 0 /\ MinInterval <= lwma /\ lwma <= MaxInterval
<1> DEFINE w == [i \in 1..n |-> i]
           v == [i \in 1..n |-> g[i] * i]
<1>0. MinInterval \in Nat /\ MinInterval >= 1 /\ MaxInterval \in Nat
    BY RetargetAssumption
<1>1. \A i \in 1..n : w[i] \in Nat /\ v[i] \in Nat
    <2> SUFFICES ASSUME NEW i \in 1..n PROVE w[i] \in Nat /\ v[i] \in Nat
        OBVIOUS
    <2>1. g[i] * i \in Nat
        OBVIOUS
    <2> QED BY <2>1
<1>2. ASSUME NEW i \in 1..n PROVE MinInterval * w[i] <= 1 * v[i] /\ 1 * v[i] <= MaxInterval * w[i]
    <2>1. i * MinInterval <= i * g[i] /\ i * MinInterval = MinInterval * i /\ i * g[i] = g[i] * i
        BY <1>0, Scale
    <2>2. i * g[i] <= i * MaxInterval /\ i * MaxInterval = MaxInterval * i
        BY <1>0, Scale
    <2>3. g[i] * i \in Nat
        OBVIOUS
    <2> QED BY <2>1, <2>2, <2>3
<1>3. Numbers(w, n) /\ Numbers(v, n)
    BY <1>1 DEF Numbers
<1>4. Total(w, n) > 0 /\ Total(w, n) \in Nat
    <2>1. n - 1 \in Nat /\ n = (n - 1) + 1 /\ w[n] = n
        OBVIOUS
    <2>2. \A i \in 1..(n - 1) : w[i] \in Nat
        BY <1>1
    <2> HIDE DEF w
    <2>3. Total(w, n - 1) \in Nat
        BY <2>1, <2>2, TotalNat
    <2>4. Total(w, n) = Total(w, n - 1) + w[n]
        BY <1>3, <2>1, TotalStep
    <2> QED BY <2>1, <2>3, <2>4
<1> HIDE DEF w, v
<1>5. MinInterval * Total(w, n) <= 1 * Total(v, n) /\ Total(v, n) \in Int
    <2>1. \A i \in 1..n : MinInterval * w[i] <= 1 * v[i]
        BY <1>2
    <2>2. MinInterval \in Int /\ MaxInterval \in Int /\ 1 \in Int
        BY <1>0
    <2> QED BY <1>3, <2>1, <2>2, TotalCompare, Zenon
<1>6. 1 * Total(v, n) <= MaxInterval * Total(w, n)
    <2>1. \A i \in 1..n : 1 * v[i] <= MaxInterval * w[i]
        BY <1>2
    <2>2. MinInterval \in Int /\ MaxInterval \in Int /\ 1 \in Int
        BY <1>0
    <2> QED BY <1>3, <2>1, <2>2, TotalCompare, Zenon
<1>7. Total(v, n) \in Nat
    BY <1>1, TotalNat
<1>8. MinInterval <= Total(v, n) \div Total(w, n) /\ Total(v, n) \div Total(w, n) <= MaxInterval
    BY <1>0, <1>4, <1>5, <1>6, <1>7, QuotientBounds
<1>9. Total(v, n) \div Total(w, n) \in Nat
    BY <1>4, <1>7, Quotient
<1>10. LET lwma == AtLeast(Total(v, n) \div Total(w, n), 1)
       IN  lwma \in Nat /\ lwma > 0 /\ MinInterval <= lwma /\ lwma <= MaxInterval
    BY <1>0, <1>8, <1>9 DEF AtLeast
<1> QED BY <1>10 DEF v, w

(***************************************************************************)
(* And the average difficulty between the smallest and the largest.        *)
(***************************************************************************)
LEMMA Mean ==
    ASSUME NEW n \in Nat, n >= 1, NEW g, \A i \in 1..n : g[i] \in Nat,
           NEW lo \in Nat, NEW hi \in Nat
    PROVE  /\ Total(g, n) \in Nat /\ Total(g, n) \div n \in Nat
           /\ (\A i \in 1..n : lo <= g[i]) => lo <= Total(g, n) \div n
           /\ (\A i \in 1..n : g[i] <= hi) => Total(g, n) \div n <= hi
<1> DEFINE e == [i \in 1..n |-> 1]
<1>1. Numbers(e, n) /\ Numbers(g, n) /\ \A i \in 1..n : e[i] = 1
    BY DEF Numbers
<1>2. Total(e, n) = n
    BY TotalOnes
<1> HIDE DEF e
<1>3. Total(g, n) \in Nat
    BY TotalNat
<1>4. Total(g, n) \div n \in Nat
    BY <1>3, Quotient
<1>5. ASSUME \A i \in 1..n : lo <= g[i] PROVE lo <= Total(g, n) \div n
    <2>1. \A i \in 1..n : lo * e[i] <= 1 * g[i]
        BY <1>1, <1>5
    <2>2. lo * Total(e, n) <= 1 * Total(g, n)
        BY <1>1, <2>1, TotalCompare
    <2>3. lo * n <= Total(g, n)
        BY <1>2, <1>3, <2>2
    <2> QED BY <1>3, <2>3, QuotientBounds
<1>6. ASSUME \A i \in 1..n : g[i] <= hi PROVE Total(g, n) \div n <= hi
    <2>1. \A i \in 1..n : 1 * g[i] <= hi * e[i]
        BY <1>1, <1>6
    <2>2. 1 * Total(g, n) <= hi * Total(e, n)
        BY <1>1, <2>1, TotalCompare
    <2>3. Total(g, n) <= hi * n
        BY <1>2, <1>3, <2>2
    <2> QED BY <1>3, <2>3, QuotientBounds
<1> QED BY <1>3, <1>4, <1>5, <1>6

(***************************************************************************)
(* What the retarget returns: a rate between the clamped bounds, three     *)
(* quarters of it after a stall, the floor at least, cut to 64 bits.       *)
(***************************************************************************)
Blocks(bs) == Len(bs) \in Nat /\ Len(bs) >= 1 /\ \A i \in 1..Len(bs) : Block(bs[i])

Within(rate, bs) ==
    \A lo, hi \in Nat : (\A i \in 2..Len(bs) : lo <= bs[i].difficulty /\ bs[i].difficulty <= hi)
        => rate * MinInterval <= hi * TargetTime /\ (rate + 1) * MaxInterval >= lo * TargetTime

LEMMA RateWithin ==
    ASSUME NEW avg \in Nat, NEW lwma \in Nat, lwma > 0, MinInterval <= lwma, lwma <= MaxInterval,
           NEW lo \in Nat, NEW hi \in Nat, lo <= avg, avg <= hi
    PROVE  LET rate == (avg * TargetTime) \div lwma
           IN  rate * MinInterval <= hi * TargetTime /\ (rate + 1) * MaxInterval >= lo * TargetTime
<1> DEFINE q == (avg * TargetTime) \div lwma
<1>0. MinInterval \in Nat /\ MaxInterval \in Nat /\ TargetTime \in Nat
    BY RetargetAssumption
<1>1. avg * TargetTime \in Nat
    BY <1>0
<1>2. q \in Nat /\ q * lwma <= avg * TargetTime /\ avg * TargetTime < (q + 1) * lwma
    BY <1>1, Quotient
<1> HIDE DEF q
<1>3. q * MinInterval <= q * lwma /\ q * MinInterval \in Int /\ q * lwma \in Int
    BY <1>0, <1>2, Scale
<1>4. (q + 1) * lwma <= (q + 1) * MaxInterval /\ (q + 1) * lwma \in Int /\ (q + 1) * MaxInterval \in Int
    <2>1. q + 1 \in Nat
        BY <1>2
    <2> QED BY <1>0, <2>1, Scale
<1>5. avg * TargetTime <= hi * TargetTime /\ hi * TargetTime \in Int
    <2>1. TargetTime * avg <= TargetTime * hi /\ TargetTime * avg = avg * TargetTime /\ TargetTime * hi = hi * TargetTime
        BY <1>0, Scale
    <2> QED BY <1>0, <2>1
<1>6. lo * TargetTime <= avg * TargetTime /\ lo * TargetTime \in Int
    <2>1. TargetTime * lo <= TargetTime * avg /\ TargetTime * lo = lo * TargetTime /\ TargetTime * avg = avg * TargetTime
        BY <1>0, Scale
    <2> QED BY <1>0, <2>1
<1>7. q * MinInterval <= hi * TargetTime
    BY <1>1, <1>2, <1>3, <1>5
<1>8. (q + 1) * MaxInterval >= lo * TargetTime
    BY <1>1, <1>2, <1>4, <1>6
<1> QED BY <1>7, <1>8 DEF q

LEMMA Retarget ==
    ASSUME NEW bs, Blocks(bs), Len(bs) >= 2, NEW now
    PROVE  \E rate \in Nat, x \in Nat :
              /\ x = rate \/ x = (rate * 3) \div 4
              /\ calculate_next_difficulty(bs, now) = AtLeast(x, Floor) % (MaxU64 + 1)
              /\ Within(rate, bs)
<1> DEFINE n == Len(bs) - 1
           raw(i) == AtLeast(bs[i + 1].timestamp - bs[i].timestamp, 0)
           c == [i \in 1..n |-> clamped(raw(i))]
           d == [i \in 1..n |-> bs[i + 1].difficulty]
           ws == Total([i \in 1..n |-> clamped(raw(i)) * i], n)
           wt == Total([i \in 1..n |-> i], n)
           lwma == AtLeast(ws \div wt, 1)
           sd == Total(d, n)
           rate == Rate(sd, n, lwma)
           stalled == AtLeast(now - Last(bs).timestamp, 0) > TargetTime * StallMultiplier
           x == IF stalled THEN (rate * 3) \div 4 ELSE rate
<1>0. n \in Nat /\ n >= 1 /\ Len(bs) \in Nat
    BY DEF Blocks
<1>1. calculate_next_difficulty(bs, now) = AtLeast(x, Floor) % (MaxU64 + 1)
    BY <1>0, DifficultyForm, Zenon
<1>2. ASSUME NEW i \in 1..n
      PROVE  /\ bs[i + 1].timestamp \in Nat /\ bs[i].timestamp \in Nat /\ bs[i + 1].difficulty \in Nat
    <2>1. i \in 1..Len(bs) /\ i + 1 \in 1..Len(bs)
        BY <1>0
    <2>2. Block(bs[i]) /\ Block(bs[i + 1])
        BY <2>1 DEF Blocks
    <2> QED BY <2>2 DEF Block
<1>3. ASSUME NEW i \in 1..n
      PROVE  clamped(raw(i)) \in Nat /\ MinInterval <= clamped(raw(i)) /\ clamped(raw(i)) <= MaxInterval
    <2>1. raw(i) \in Int
        BY <1>2 DEF AtLeast
    <2> HIDE DEF raw
    <2> QED BY <2>1, Clamps
<1>4. lwma \in Nat /\ lwma > 0 /\ MinInterval <= lwma /\ lwma <= MaxInterval
    <2>1. \A i \in 1..n : c[i] \in Nat /\ MinInterval <= c[i] /\ c[i] <= MaxInterval
        BY <1>3
    <2>2. [i \in 1..n |-> clamped(raw(i)) * i] = [i \in 1..n |-> c[i] * i]
        OBVIOUS
    <2>3. LET v == Total([i \in 1..n |-> c[i] * i], n)
              l == AtLeast(v \div wt, 1)
          IN  l \in Nat /\ l > 0 /\ MinInterval <= l /\ l <= MaxInterval
        <3> HIDE DEF c, n
        <3> QED BY <1>0, <2>1, Average
    <2> QED BY <2>2, <2>3
<1>5. \A i \in 1..n : d[i] \in Nat
    BY <1>2
<1>6. sd \in Nat /\ sd \div n \in Nat
    <2> HIDE DEF d, n
    <2> QED BY <1>0, <1>5, Mean
<1>7. Within(rate, bs)
    <2> SUFFICES ASSUME NEW lo \in Nat, NEW hi \in Nat,
                        \A i \in 2..Len(bs) : lo <= bs[i].difficulty /\ bs[i].difficulty <= hi
                 PROVE  rate * MinInterval <= hi * TargetTime /\ (rate + 1) * MaxInterval >= lo * TargetTime
        BY DEF Within
    <2>1. \A i \in 1..n : lo <= d[i] /\ d[i] <= hi
        <3> SUFFICES ASSUME NEW i \in 1..n PROVE lo <= d[i] /\ d[i] <= hi
            OBVIOUS
        <3>1. i + 1 \in 2..Len(bs) /\ d[i] = bs[i + 1].difficulty
            BY <1>0
        <3> HIDE DEF d
        <3> QED BY <3>1
    <2>2. lo <= sd \div n /\ sd \div n <= hi
        <3> HIDE DEF d, n
        <3> QED BY <1>0, <1>5, <2>1, Mean
    <2>3. rate = ((sd \div n) * TargetTime) \div lwma
        BY DEF Rate
    <2> HIDE DEF sd, n, lwma, rate
    <2> QED BY <1>4, <1>6, <2>2, <2>3, RateWithin
<1>8. rate \in Nat
    <2> HIDE DEF sd, n, lwma
    <2>1. n > 0
        BY <1>0
    <2>2. Rate(sd, n, lwma) \in Nat
        BY <1>0, <1>4, <1>6, <2>1, RateTyped
    <2> QED BY <2>2
<1> HIDE DEF rate
<1>9. x \in Nat /\ (x = rate \/ x = (rate * 3) \div 4)
    <2> HIDE DEF stalled
    <2> QED BY <1>8
<1> HIDE DEF x
<1> QED BY <1>1, <1>7, <1>8, <1>9

LEMMA DifficultyTyped ==
    ASSUME NEW bs, Blocks(bs), NEW now
    PROVE  calculate_next_difficulty(bs, now) \in Nat
<1>0. Floor \in Nat /\ MaxU64 \in Nat /\ Len(bs) \in Nat
    BY LedgerAssumption, RetargetAssumption DEF Blocks
<1>1. CASE Len(bs) < 2
    BY <1>0, <1>1 DEF calculate_next_difficulty
<1>2. CASE Len(bs) >= 2
    <2>1. PICK x \in Nat : calculate_next_difficulty(bs, now) = AtLeast(x, Floor) % (MaxU64 + 1)
        BY <1>2, Retarget
    <2>2. AtLeast(x, Floor) \in Nat
        BY <1>0 DEF AtLeast
    <2> QED BY <1>0, <2>1, <2>2
<1> QED BY <1>0, <1>1, <1>2

LEMMA WindowFacts ==
    ASSUME ChainInv
    PROVE  LET lo == AtLeast(Len(chain) - Window, 1)
               w  == collect_ancestor_window
           IN  /\ lo \in 1..Len(chain) /\ Len(w) = Len(chain) - lo + 1 /\ Blocks(w)
               /\ \A i \in 1..Len(w) : w[i] = chain[lo + i - 1]
<1> DEFINE lo == AtLeast(Len(chain) - Window, 1)
           w == collect_ancestor_window
<1>0. PICK S : chain \in Seq(S)
    BY DEF ChainInv
<1>1. Len(chain) \in Nat /\ Len(chain) >= 1 /\ Window \in Nat /\ Window >= 1
    BY RetargetAssumption, TipFacts DEF ChainInv
<1>2. lo \in 1..Len(chain)
    BY <1>1 DEF AtLeast
<1>3. w = SubSeq(chain, lo, Len(chain))
    BY DEF collect_ancestor_window
<1> HIDE DEF lo, w
<1>4. Len(w) = Len(chain) - lo + 1 /\ \A i \in 1..Len(w) : w[i] = chain[lo + i - 1]
    <2>1. Len(w) = Len(chain) - lo + 1
        BY <1>0, <1>1, <1>2, <1>3, SubSeqProperties
    <2>2. \A i \in 1..(Len(chain) - lo + 1) : w[i] = chain[lo + i - 1]
        BY <1>0, <1>1, <1>2, <1>3, SubSeqProperties
    <2> QED BY <2>1, <2>2
<1>5. Blocks(w)
    <2>1. ASSUME NEW i \in 1..Len(w) PROVE Block(w[i])
        <3>1. lo + i - 1 \in 1..Len(chain)
            BY <1>1, <1>2, <1>4
        <3>2. w[i] = chain[lo + i - 1]
            BY <1>4
        <3> QED BY <3>1, <3>2 DEF ChainInv
    <2> QED BY <1>1, <1>2, <1>4, <2>1 DEF Blocks
<1> QED BY <1>2, <1>4, <1>5 DEF lo, w

-----------------------------------------------------------------------------
\* Steps.

(***************************************************************************)
(* What a step does to the chain and the accounts: a block on the tip, a   *)
(* grant, or nothing.                                                      *)
(***************************************************************************)
Grown(b) ==
    /\ Block(b) /\ b.number = Len(chain) /\ apply_block_verdict(b) = "Ok"
    /\ chain' = Append(chain, b)
    /\ balances' = ApplyTo(Live, b).st.balances /\ nonces' = ApplyTo(Live, b).st.nonces
    /\ clock' = clock /\ granted' = granted

Credited(a, n) ==
    /\ chain' = chain /\ nonces' = nonces /\ clock' = clock /\ job' = job
    /\ a \in Address /\ n \in 0..MaxU128 /\ n >= balances[a] /\ balances' = [balances EXCEPT ![a] = n]
    /\ granted' = [sum |-> granted.sum + (n - balances[a]), count |-> granted.count + 1]

Still ==
    /\ chain' = chain /\ balances' = balances /\ nonces' = nonces /\ granted'.sum = granted.sum

LEMMA CandidateBlock ==
    ASSUME ChainInv, NEW miner \in Address, NEW txs \in Seq(Tx)
    PROVE  LET b == Candidate(miner, txs).blk
               taken == SubSeq(txs, 1, AtMost(Len(txs), BlockTarget - 1))
               after == apply_coinbase_reward(execute_non_coinbase_txs(Live, taken), miner, tip.number + 1)
           IN  /\ Block(b) /\ b.number = Len(chain) /\ b.number = tip.number + 1 /\ b.number # 0
               /\ b.timestamp = candidate_time /\ b.txs = taken /\ b.miner = miner
               /\ b.difficulty = calculate_next_difficulty(collect_ancestor_window, candidate_time)
               /\ b.coinbase = [kind |-> "coinbase", height |-> b.number]
               /\ b.weight = Len(taken) + 1 /\ b.digest = 0 /\ b.claimed = 0
               /\ b.tx_root = compute_tx_root(b)
               /\ b.state_root = compute_state_root(after.st) /\ Candidate(miner, txs).why = after.why
               /\ Len(taken) <= BlockTarget - 1 /\ taken \in Seq(Tx)
<1> DEFINE taken == SubSeq(txs, 1, AtMost(Len(txs), BlockTarget - 1))
           height == tip.number + 1
           after == apply_coinbase_reward(execute_non_coinbase_txs(Live, taken), miner, height)
           draft == [number |-> height, timestamp |-> candidate_time,
                   difficulty |-> calculate_next_difficulty(collect_ancestor_window, candidate_time),
                   miner |-> miner, txs |-> taken,
                   coinbase |-> [kind |-> "coinbase", height |-> height],
                   weight |-> Len(taken) + 1, tx_root |-> <<>>, digest |-> 0, claimed |-> 0,
                   state_root |-> compute_state_root(after.st)]
           root == compute_tx_root(draft)
           b == [draft EXCEPT !.tx_root = root]
<1>1. Candidate(miner, txs) = [why |-> after.why, blk |-> b]
    BY DEF Candidate
<1>2. height \in Nat /\ height = Len(chain) /\ height # 0
    BY TipFacts DEF ChainInv
<1>3. calculate_next_difficulty(collect_ancestor_window, candidate_time) \in Nat
    BY WindowFacts, DifficultyTyped
<1>4. candidate_time \in Nat
    <2>1. tip.timestamp \in Nat /\ clock \in Nat
        BY TipFacts DEF ChainInv, Block
    <2> QED BY <2>1 DEF candidate_time, AtLeast
<1>5. taken \in Seq(Tx) /\ Len(taken) \in Nat /\ Len(taken) <= BlockTarget - 1
    <2> DEFINE k == AtMost(Len(txs), BlockTarget - 1)
    <2>1. k \in 0..Len(txs) /\ k <= BlockTarget - 1 /\ k \in Nat /\ BlockTarget \in Nat
        BY RetargetAssumption DEF AtMost
    <2>2. taken = SubSeq(txs, 1, k)
        OBVIOUS
    <2> HIDE DEF k, taken
    <2>3. Len(taken) = k /\ \A i \in 1..k : taken[i] = txs[i]
        BY <2>1, <2>2, SubSeqProperties
    <2>4. taken \in Seq(Tx)
        BY <2>1, <2>2, SubSeqProperties
    <2> QED BY <2>1, <2>3, <2>4
<1> HIDE DEF taken, height, after
<1>6. b = [number |-> height, timestamp |-> candidate_time,
                   difficulty |-> calculate_next_difficulty(collect_ancestor_window, candidate_time),
                   miner |-> miner, txs |-> taken,
                   coinbase |-> [kind |-> "coinbase", height |-> height],
                   weight |-> Len(taken) + 1, tx_root |-> root, digest |-> 0, claimed |-> 0,
                   state_root |-> compute_state_root(after.st)]
    <2> HIDE DEF root
    <2> QED OBVIOUS
<1>7. /\ draft.number = height /\ draft.coinbase = [kind |-> "coinbase", height |-> height]
      /\ draft.txs = taken
    OBVIOUS
<1> HIDE DEF b, draft
<1>8. /\ DOMAIN b = Fields /\ b = [f \in Fields |-> b[f]]
      /\ b.number = height /\ b.timestamp = candidate_time /\ b.txs = taken /\ b.miner = miner
      /\ b.difficulty = calculate_next_difficulty(collect_ancestor_window, candidate_time)
      /\ b.coinbase = [kind |-> "coinbase", height |-> height]
      /\ b.weight = Len(taken) + 1 /\ b.digest = 0 /\ b.claimed = 0 /\ b.tx_root = root
      /\ b.state_root = compute_state_root(after.st)
    <2> HIDE DEF root
    <2> QED BY <1>6 DEF Fields
<1>9. b.tx_root = compute_tx_root(b)
    <2>1. root = compute_tx_root(b)
        BY <1>7, <1>8 DEF compute_tx_root, root
    <2> QED BY <1>8, <2>1
<1>10. Block(b)
    BY <1>2, <1>3, <1>4, <1>5, <1>8 DEF Block
<1>11. Candidate(miner, txs).blk = b /\ Candidate(miner, txs).why = after.why
    BY <1>1
<1> QED BY <1>2, <1>5, <1>8, <1>9, <1>10, <1>11 DEF taken, height, after

LEMMA OfferedBlock ==
    ASSUME ChainInv, NEW b \in Offered
    PROVE  Block(b) /\ b.number = Len(chain)
<1> DEFINE plain == Candidate(Other, <<>>).blk
<1>0. Other \in Address /\ MaxU64 \in Nat
    BY LedgerAssumption
<1>1. Block(plain) /\ plain.number = Len(chain) /\ plain.difficulty \in Nat
    <2>1. <<>> \in Seq(Tx)
        OBVIOUS
    <2>2. Block(plain) /\ plain.number = Len(chain)
        BY <1>0, <2>1, CandidateBlock
    <2> QED BY <2>2 DEF Block
<1>3. b \in {WellMade(s, d) : s \in Selection, d \in Spacing} \/ b \in Flawed(plain)
    BY DEF Offered
<1> HIDE DEF plain
<1>2. ASSUME NEW s \in Selection, NEW d \in Spacing, b = WellMade(s, d)
      PROVE  Block(b) /\ b.number = Len(chain)
    <2> DEFINE c == Candidate(Other, s).blk
               t == tip.timestamp + d
               e == calculate_next_difficulty(collect_ancestor_window, t)
    <2>1. s \in Seq(Tx) /\ d \in Nat
        BY LedgerAssumption
    <2>2. Block(c) /\ c.number = Len(chain)
        BY <1>0, <2>1, CandidateBlock
    <2>3. t \in Nat
        <3>1. Block(tip)
            BY TipFacts
        <3> QED BY <2>1, <3>1 DEF Block
    <2>4. e \in Nat
        BY WindowFacts, DifficultyTyped
    <2>5. b = [c EXCEPT !.timestamp = t, !.difficulty = e]
        BY <1>2 DEF WellMade
    <2> HIDE DEF c, t, e
    <2> QED BY <2>2, <2>3, <2>4, <2>5 DEF Block, Fields
<1>4. ASSUME b \in Flawed(plain) PROVE Block(b) /\ b.number = Len(chain)
    <2>1. \/ b = [plain EXCEPT !.weight = WeightLimit + 1] \/ b = [plain EXCEPT !.tx_root = <<>>]
          \/ b = [plain EXCEPT !.coinbase.kind = "other", !.tx_root[1].kind = "other"]
          \/ b = [plain EXCEPT !.coinbase.height = 0, !.tx_root[1].height = 0]
          \/ b = [plain EXCEPT !.difficulty = @ + 1] \/ b = [plain EXCEPT !.difficulty = 0]
          \/ b = [plain EXCEPT !.claimed = 1] \/ b = [plain EXCEPT !.digest = MaxU64]
          \/ b = [plain EXCEPT !.miner = NoAddress]
        BY <1>4, Zenon DEF Flawed
    <2>2. CASE b = [plain EXCEPT !.weight = WeightLimit + 1]
        BY <1>1, <2>2 DEF Block, Fields
    <2>3. CASE b = [plain EXCEPT !.tx_root = <<>>]
        BY <1>1, <2>3 DEF Block, Fields
    <2>4. CASE b = [plain EXCEPT !.coinbase.kind = "other", !.tx_root[1].kind = "other"]
        BY <1>1, <2>4 DEF Block, Fields
    <2>5. CASE b = [plain EXCEPT !.coinbase.height = 0, !.tx_root[1].height = 0]
        BY <1>1, <2>5 DEF Block, Fields
    <2>6. CASE b = [plain EXCEPT !.difficulty = 0]
        BY <1>1, <2>6 DEF Block, Fields
    <2>7. CASE b = [plain EXCEPT !.claimed = 1]
        BY <1>1, <2>7 DEF Block, Fields
    <2>8. CASE b = [plain EXCEPT !.digest = MaxU64]
        BY <1>1, <2>8 DEF Block, Fields
    <2>9. CASE b = [plain EXCEPT !.miner = NoAddress]
        BY <1>1, <2>9 DEF Block, Fields
    <2>10. CASE b = [plain EXCEPT !.difficulty = @ + 1]
        <3>1. plain.difficulty + 1 \in Nat /\ b = [plain EXCEPT !.difficulty = plain.difficulty + 1]
            BY <1>1, <2>10 DEF Block, Fields
        <3> QED BY <1>1, <3>1 DEF Block, Fields
    <2> QED BY <2>1, <2>2, <2>3, <2>4, <2>5, <2>6, <2>7, <2>8, <2>9, <2>10, Zenon
<1>5. b \in {WellMade(s, d) : s \in Selection, d \in Spacing}
         => \E s \in Selection, d \in Spacing : b = WellMade(s, d)
    OBVIOUS
<1>6. CASE b \in {WellMade(s, d) : s \in Selection, d \in Spacing}
    <2>1. PICK s \in Selection, d \in Spacing : b = WellMade(s, d)
        BY <1>5, <1>6
    <2> QED BY <1>2, <2>1
<1> QED BY <1>3, <1>4, <1>6

LEMMA Accepts ==
    ASSUME ChainInv, NEW b, Block(b), b.number = Len(chain), Accept(b), clock' = clock, granted' = granted
    PROVE  Grown(b) \/ Still
<1>1. CASE apply_block_verdict(b) = "Ok"
    BY <1>1 DEF Accept, Grown
<1>2. CASE apply_block_verdict(b) # "Ok"
    BY <1>2 DEF Accept, Still
<1> QED BY <1>1, <1>2

LEMMA GenesisBlock == Block(genesis_block) /\ genesis_block.number = 0
<1>1. Floor \in Nat
    BY RetargetAssumption
<1>2. <<>> \in Seq(Tx)
    OBVIOUS
<1>3. /\ genesis_block.number = 0 /\ genesis_block.timestamp = 0 /\ genesis_block.difficulty = Floor
      /\ genesis_block.txs = <<>> /\ genesis_block.miner = NoAddress
    BY DEF genesis_block
<1>4. DOMAIN genesis_block = Fields /\ genesis_block = [f \in Fields |-> genesis_block[f]]
    BY DEF genesis_block, Fields
<1> QED BY <1>1, <1>2, <1>3, <1>4 DEF Block

LEMMA Airdrop ==
    ASSUME ChainInv, NEW a \in Address \cup {NoAddress}, NEW n \in Grant, post_alpha_airdrop(a, n)
    PROVE  /\ (\E v : Credited(a, v)) \/ Still
           /\ clock' = clock /\ job' = job /\ granted' \in [sum : Nat, count : Nat]
<1>0. MaxU128 \in Nat /\ n \in Nat /\ granted \in [sum : Nat, count : Nat]
    BY LedgerAssumption DEF ChainInv
<1>1. CASE AirdropError(a, n) # "none"
    BY <1>0, <1>1 DEF post_alpha_airdrop, Still, vars
<1>2. CASE AirdropError(a, n) = "none"
    <2>1. alpha_airdrop(a, n)
        BY <1>2 DEF post_alpha_airdrop
    <2>2. a \in Address
        BY <1>2 DEF AirdropError
    <2>3. balances \in [Address -> 0..MaxU128] /\ balances[a] \in 0..MaxU128
        BY <2>2 DEF ChainInv, LiveState, StateType
    <2>4. CASE balances' = balances /\ granted' = [granted EXCEPT !.count = @ + 1]
        BY <1>0, <2>1, <2>4 DEF alpha_airdrop, Still
    <2>5. CASE /\ balances' = credit_balance(a, n)
               /\ granted' = [sum   |-> granted.sum + (balances'[a] - balances[a]),
                              count |-> granted.count + 1]
        <3> DEFINE v == AtMost(balances[a] + n, MaxU128)
        <3>1. balances' = [balances EXCEPT ![a] = v]
            BY <2>5 DEF credit_balance
        <3>2. v \in 0..MaxU128 /\ v >= balances[a]
            BY <1>0, <2>3 DEF AtMost
        <3>3. balances'[a] = v
            BY <2>2, <2>3, <3>1
        <3>4. granted' = [sum |-> granted.sum + (v - balances[a]), count |-> granted.count + 1]
            BY <2>5, <3>3
        <3>5. chain' = chain /\ nonces' = nonces /\ clock' = clock /\ job' = job
            BY <2>1 DEF alpha_airdrop
        <3> HIDE DEF v
        <3>6. Credited(a, v)
            BY <2>2, <3>1, <3>2, <3>4, <3>5 DEF Credited
        <3>7. granted' \in [sum : Nat, count : Nat]
            BY <1>0, <2>3, <3>2, <3>4
        <3> QED BY <3>5, <3>6, <3>7
    <2> QED BY <2>1, <2>4, <2>5 DEF alpha_airdrop
<1> QED BY <1>1, <1>2

LEMMA Steps ==
    ASSUME ChainInv, [Next]_vars
    PROVE  /\ (\E b : Grown(b)) \/ (\E a, v : Credited(a, v)) \/ Still
           /\ clock' \in Nat /\ granted' \in [sum : Nat, count : Nat] /\ Block(job'.blk)
<1>0. clock \in Nat /\ granted \in [sum : Nat, count : Nat] /\ Block(job.blk) /\ Block(genesis_block)
    BY GenesisBlock DEF ChainInv
<1>1. ASSUME NEW s \in Selection, BuildCandidate(Own, s)
      PROVE  Still /\ clock' = clock /\ granted' = granted /\ Block(job'.blk)
    <2>1. job'.blk = Candidate(Own, s).blk
        BY <1>1 DEF BuildCandidate
    <2>2. s \in Seq(Tx) /\ Own \in Address
        BY LedgerAssumption
    <2>3. Block(Candidate(Own, s).blk)
        BY <2>2, CandidateBlock
    <2>4. Still /\ clock' = clock /\ granted' = granted
        BY <1>1 DEF BuildCandidate, Still
    <2> QED BY <2>1, <2>3, <2>4
<1>2. ASSUME NEW d \in Digest, Solve(d)
      PROVE  ((\E b : Grown(b)) \/ Still) /\ clock' = clock /\ granted' = granted /\ Block(job'.blk)
    <2> DEFINE b == [job.blk EXCEPT !.digest = d, !.claimed = d]
    <2>1. Accept(b) /\ job.blk.number = tip.number + 1 /\ clock' = clock /\ granted' = granted
          /\ job'.blk = genesis_block
        BY <1>2 DEF Solve
    <2>2. Block(b) /\ b.number = job.blk.number
        BY <1>0 DEF Block, Fields
    <2>3. tip.number + 1 = Len(chain)
        BY TipFacts
    <2> HIDE DEF b
    <2>4. Grown(b) \/ Still
        BY <2>1, <2>2, <2>3, Accepts
    <2> QED BY <1>0, <2>1, <2>4
<1>3. ASSUME Abandon
      PROVE  Still /\ clock' = clock /\ granted' = granted /\ Block(job'.blk)
    BY <1>0, <1>3 DEF Abandon, Still
<1>4. ASSUME NEW b \in Offered, ReceiveBlock(b)
      PROVE  (Grown(b) \/ Still) /\ clock' = clock /\ granted' = granted /\ job' = job
    <2>1. Block(b) /\ b.number = Len(chain)
        BY OfferedBlock
    <2>2. Accept(b) /\ clock' = clock /\ granted' = granted /\ job' = job
        BY <1>4 DEF ReceiveBlock
    <2> QED BY <2>1, <2>2, Accepts
<1>5. ASSUME Tick
      PROVE  Still /\ clock' \in Nat /\ granted' = granted /\ job' = job
    <2>1. Jump \in Nat
        BY LedgerAssumption
    <2> QED BY <1>0, <1>5, <2>1 DEF Tick, Still
<1>6. ASSUME NEW a \in Address \cup {NoAddress}, NEW n \in Grant, post_alpha_airdrop(a, n)
      PROVE  /\ (\E v : Credited(a, v)) \/ Still
             /\ clock' = clock /\ job' = job /\ granted' \in [sum : Nat, count : Nat]
    BY <1>6, Airdrop
<1>7. CASE UNCHANGED vars
    BY <1>0, <1>7 DEF vars, Still
<1>8. CASE Next
    <2>1. CASE \E s \in Selection : BuildCandidate(Own, s)
        BY <1>0, <1>1, <2>1
    <2>2. CASE \E d \in Digest : Solve(d)
        BY <1>0, <1>2, <2>2
    <2>3. CASE Abandon
        BY <1>0, <1>3, <2>3
    <2>4. CASE \E b \in Offered : ReceiveBlock(b)
        BY <1>0, <1>4, <2>4
    <2>5. CASE Tick
        BY <1>0, <1>5, <2>5
    <2>6. CASE \E a \in Address \cup {NoAddress}, n \in Grant : post_alpha_airdrop(a, n)
        BY <1>0, <1>6, <2>6
    <2> QED BY <1>8, <2>1, <2>2, <2>3, <2>4, <2>5, <2>6 DEF Next
<1> QED BY <1>7, <1>8

(***************************************************************************)
(* The chain and the accounts after a block.                               *)
(***************************************************************************)
LEMMA GrownChain ==
    ASSUME ChainInv, NEW b, Grown(b)
    PROVE  /\ Len(chain') = Len(chain) + 1 /\ chain'[Len(chain) + 1] = b
           /\ \A i \in 1..Len(chain) : chain'[i] = chain[i]
           /\ \E S : chain' \in Seq(S)
<1>1. PICK S : chain \in Seq(S)
    BY DEF ChainInv
<1> DEFINE T == S \cup {b}
<1>2. chain \in Seq(T) /\ b \in T
    BY <1>1
<1>3. chain' = Append(chain, b)
    BY DEF Grown
<1> HIDE DEF T
<1> QED BY <1>2, <1>3

LEMMA GrownState ==
    ASSUME ChainInv, NEW b, Grown(b)
    PROVE  /\ b.miner \in Address /\ LiveState' \in StateType /\ ApplyTo(Live, b) = Live'
           /\ \E s : Path(s, b.txs, LiveState) /\ LiveState' = Rewarded(s[Len(b.txs)], b)
<1>1. Live \in Result /\ Live.st = LiveState
    BY LiveTyped
<1>2. Block(b) /\ Fine(ApplyTo(Live, b))
    BY Passes DEF Grown
<1>3. b.miner \in Address /\ ApplyTo(Live, b) \in Result
    BY <1>1, <1>2, ApplyResult
<1>4. PICK s : Path(s, b.txs, LiveState) /\ ApplyTo(Live, b) = [why |-> "Ok", st |-> Rewarded(s[Len(b.txs)], b)]
    BY <1>1, <1>2, ApplyResult
<1>5. ApplyTo(Live, b).st \in StateType /\ ApplyTo(Live, b).st = Rewarded(s[Len(b.txs)], b)
    BY <1>3, <1>4 DEF Result
<1>6. LiveState' = ApplyTo(Live, b).st
    <2>1. /\ LiveState' = [balances |-> balances', nonces |-> nonces']
          /\ balances' = ApplyTo(Live, b).st.balances /\ nonces' = ApplyTo(Live, b).st.nonces
        BY DEF LiveState, Grown
    <2>2. ApplyTo(Live, b).st = [balances |-> ApplyTo(Live, b).st.balances, nonces |-> ApplyTo(Live, b).st.nonces]
        BY <1>5 DEF StateType
    <2> QED BY <2>1, <2>2
<1>7. Live' = [why |-> "Ok", st |-> LiveState']
    BY DEF Live, LiveState
<1>8. ApplyTo(Live, b) = Live'
    BY <1>4, <1>5, <1>6, <1>7
<1> QED BY <1>3, <1>4, <1>5, <1>6, <1>8

LEMMA ChainStep ==
    ASSUME ChainInv, [Next]_vars
    PROVE  ChainInv'
<1>1. clock' \in Nat /\ granted' \in [sum : Nat, count : Nat] /\ Block(job'.blk)
    BY Steps
<1>2. CASE \E b : Grown(b)
    <2>1. PICK b : Grown(b)
        BY <1>2
    <2>2. Len(chain) \in Nat /\ Block(b) /\ b.number = Len(chain)
        BY <2>1, TipFacts DEF Grown
    <2>3. /\ Len(chain') = Len(chain) + 1 /\ chain'[Len(chain) + 1] = b
          /\ \A i \in 1..Len(chain) : chain'[i] = chain[i]
          /\ \E S : chain' \in Seq(S)
        BY <2>1, GrownChain
    <2>4. LiveState' \in StateType
        BY <2>1, GrownState
    <2>5. ASSUME NEW i \in 1..Len(chain') PROVE Block(chain'[i]) /\ chain'[i].number = i - 1
        <3>1. CASE i \in 1..Len(chain)
            <4>1. Block(chain[i]) /\ chain[i].number = i - 1
                BY <3>1 DEF ChainInv
            <4> QED BY <2>3, <3>1, <4>1
        <3>2. CASE i = Len(chain) + 1
            BY <2>2, <2>3, <3>2
        <3> QED BY <2>2, <2>3, <3>1, <3>2
    <2>6. Len(chain') >= 1
        BY <2>2, <2>3
    <2> QED BY <1>1, <2>3, <2>4, <2>5, <2>6 DEF ChainInv
<1>3. CASE \E a, v : Credited(a, v)
    <2>1. PICK a, v : Credited(a, v)
        BY <1>3
    <2>2. LiveState' \in StateType
        <3>1. balances \in [Address -> 0..MaxU128] /\ nonces \in [Address -> Nat]
            BY DEF ChainInv, LiveState, StateType
        <3>2. balances' \in [Address -> 0..MaxU128] /\ nonces' = nonces
            BY <2>1, <3>1 DEF Credited
        <3> QED BY <3>1, <3>2 DEF LiveState, StateType
    <2>3. chain' = chain
        BY <2>1 DEF Credited
    <2> QED BY <1>1, <2>2, <2>3 DEF ChainInv
<1>4. CASE Still
    BY <1>1, <1>4 DEF Still, ChainInv, LiveState
<1> QED BY <1>2, <1>3, <1>4, Steps

LEMMA ChainInit == ASSUME Init PROVE ChainInv
<1>1. chain = <<genesis_block>> /\ Len(chain) = 1 /\ chain[1] = genesis_block /\ chain \in Seq({genesis_block})
    BY DEF Init
<1>2. Block(genesis_block) /\ genesis_block.number = 0
    BY GenesisBlock
<1>3. LiveState \in StateType
    <2>1. MaxU128 \in Nat
        BY LedgerAssumption
    <2>2. balances = [a \in Address |-> 0] /\ nonces = [a \in Address |-> 0]
        BY DEF Init, EmptyState
    <2> QED BY <2>1, <2>2 DEF LiveState, StateType
<1>4. clock \in Nat /\ granted \in [sum : Nat, count : Nat] /\ job.blk = genesis_block
    BY DEF Init
<1>5. \A i \in 1..Len(chain) : Block(chain[i]) /\ chain[i].number = i - 1
    BY <1>1, <1>2
<1>6. \E S : chain \in Seq(S)
    BY <1>1
<1> QED BY <1>1, <1>2, <1>3, <1>4, <1>5, <1>6 DEF ChainInv

(***************************************************************************)
(* Blocks on the chain and in the miner's hands are well formed, the chain *)
(* is numbered from 0 without a gap, and every balance fits in a u128:     *)
(* Accept, BuildCandidate and the airdrop keep it so, whatever is offered. *)
(***************************************************************************)
THEOREM LedgerChain == Spec => []ChainInv
<1>1. Init => ChainInv
    BY ChainInit
<1>2. ChainInv /\ [Next]_vars => ChainInv'
    BY ChainStep
<1> QED BY <1>1, <1>2, PTL DEF Spec

-----------------------------------------------------------------------------
\* The replay.

Replayed(h) ==
    /\ h = [i \in 0..(Len(chain) - 1) |-> h[i]]
    /\ h[0] = [why |-> "Ok", st |-> EmptyState]
    /\ \A i \in 1..(Len(chain) - 1) : h[i] = ApplyTo(h[i - 1], chain[i + 1])
    /\ h[Len(chain) - 1] = Live

ReplayInv == granted.sum = 0 => \E h : Replayed(h)

LEMMA ReplayInit == ASSUME Init PROVE ReplayInv
<1> DEFINE h == [i \in 0..0 |-> [why |-> "Ok", st |-> EmptyState]]
<1>1. Len(chain) = 1 /\ Len(chain) - 1 = 0
    BY DEF Init
<1>2. Live = [why |-> "Ok", st |-> EmptyState]
    BY DEF Init, Live, EmptyState
<1>3. Replayed(h)
    <2>1. \A i \in 1..(Len(chain) - 1) : FALSE
        BY <1>1
    <2>2. h[0] = [why |-> "Ok", st |-> EmptyState]
        OBVIOUS
    <2>3. h = [i \in 0..(Len(chain) - 1) |-> h[i]]
        BY <1>1
    <2> HIDE DEF h
    <2> QED BY <1>1, <1>2, <2>1, <2>2, <2>3 DEF Replayed
<1> QED BY <1>3 DEF ReplayInv

LEMMA ReplayStep ==
    ASSUME ChainInv, ReplayInv, [Next]_vars
    PROVE  ReplayInv'
<1>0. Len(chain) \in Nat /\ Len(chain) >= 1
    BY TipFacts DEF ChainInv
<1> SUFFICES ASSUME granted'.sum = 0 PROVE \E h : Replayed(h)'
    BY DEF ReplayInv
<1>1. CASE \E b : Grown(b)
    <2>1. PICK b : Grown(b)
        BY <1>1
    <2>2. granted.sum = 0
        BY <2>1 DEF Grown
    <2>3. PICK h : Replayed(h)
        BY <2>2 DEF ReplayInv
    <2>21. PICK n : n = Len(chain)
        OBVIOUS
    <2>22. PICK g : g = [i \in 0..n |-> IF i = n THEN ApplyTo(h[n - 1], b) ELSE h[i]]
        OBVIOUS
    <2>4. Len(chain') = n + 1 /\ chain'[n + 1] = b /\ \A i \in 1..n : chain'[i] = chain[i]
        BY <2>1, <2>21, GrownChain
    <2>5. h[0] = [why |-> "Ok", st |-> EmptyState] /\ h[n - 1] = Live
          /\ \A i \in 1..(n - 1) : h[i] = ApplyTo(h[i - 1], chain[i + 1])
        BY <2>3, <2>21 DEF Replayed
    <2>6. ApplyTo(h[n - 1], b) = Live'
        BY <2>1, <2>5, GrownState
    <2>7. g[0] = [why |-> "Ok", st |-> EmptyState] /\ g[n] = Live'
        BY <1>0, <2>5, <2>6, <2>21, <2>22
    <2>8. ASSUME NEW i \in 1..n PROVE g[i] = ApplyTo(g[i - 1], chain'[i + 1])
        <3>1. i \in 0..n /\ i - 1 \in 0..n /\ i - 1 # n
            BY <1>0, <2>21
        <3>2. g[i - 1] = h[i - 1]
            BY <2>22, <3>1
        <3>3. CASE i = n
            <4>1. g[i] = ApplyTo(h[n - 1], b)
                BY <2>22, <3>1, <3>3
            <4>2. chain'[i + 1] = b
                BY <2>4, <3>3
            <4> QED BY <3>2, <3>3, <4>1, <4>2
        <3>4. CASE i # n
            <4>1. i \in 1..(n - 1) /\ i + 1 \in 1..n
                BY <1>0, <2>21, <3>4
            <4>2. g[i] = h[i]
                BY <2>22, <3>1, <3>4
            <4>3. chain'[i + 1] = chain[i + 1]
                BY <2>4, <4>1
            <4>4. h[i] = ApplyTo(h[i - 1], chain[i + 1])
                BY <2>5, <4>1
            <4> QED BY <3>2, <4>2, <4>3, <4>4
        <3> QED BY <3>3, <3>4
    <2>9. g = [i \in 0..n |-> g[i]]
        BY <2>22
    <2>10. Len(chain') - 1 = n
        BY <1>0, <2>4, <2>21
    <2>11. Replayed(g)'
        BY <2>7, <2>8, <2>9, <2>10 DEF Replayed
    <2> QED BY <2>11
<1>2. ASSUME chain' = chain, balances' = balances, nonces' = nonces, granted.sum = 0
      PROVE  \E h : Replayed(h)'
    <2>1. PICK h : Replayed(h)
        BY <1>2 DEF ReplayInv
    <2>2. Live' = Live
        BY <1>2 DEF Live
    <2>3. Replayed(h)'
        BY <1>2, <2>1, <2>2 DEF Replayed
    <2> QED BY <2>3
<1>3. CASE \E a, v : Credited(a, v)
    <2>1. PICK a, v : Credited(a, v)
        BY <1>3
    <2>2. /\ granted.sum \in Nat /\ balances \in [Address -> 0..MaxU128] /\ a \in Address /\ MaxU128 \in Nat
          /\ v \in 0..MaxU128 /\ v >= balances[a] /\ granted'.sum = granted.sum + (v - balances[a])
          /\ balances' = [balances EXCEPT ![a] = v]
        BY <2>1, LedgerAssumption DEF Credited, ChainInv, LiveState, StateType
    <2>3. granted.sum = 0 /\ v = balances[a]
        <3>1. balances[a] \in Nat /\ v \in Nat
            BY <2>2
        <3>2. ASSUME NEW p \in Nat, NEW q \in Nat, NEW r \in Nat, q >= r, p + (q - r) = 0
              PROVE  p = 0 /\ q = r
            BY <3>2
        <3>3. granted.sum \in Nat /\ v >= balances[a] /\ granted.sum + (v - balances[a]) = 0
            BY <2>2
        <3> QED BY <3>1, <3>2, <3>3
    <2>4. balances' = balances
        BY <2>2, <2>3
    <2> QED BY <1>2, <2>1, <2>3, <2>4 DEF Credited
<1>4. CASE Still
    BY <1>2, <1>4 DEF Still
<1> QED BY <1>1, <1>3, <1>4, Steps

LEMMA ReplayRight ==
    ASSUME ChainInv, ReplayInv
    PROVE  ReplayAgrees
<1> SUFFICES ASSUME granted.sum = 0 PROVE reconstruct_canonical_state_at_height(tip.number) = Live
    BY DEF ReplayAgrees
<1> DEFINE n == Len(chain) - 1
           Rec(k) == [i \in 0..n |-> IF i = 0 THEN [why |-> "Ok", st |-> EmptyState]
                                     ELSE ApplyTo(k[i - 1], chain[i + 1])]
           K == CHOOSE k : k = Rec(k)
<1>0. n \in Nat /\ tip.number = n
    BY TipFacts DEF ChainInv
<1>1. reconstruct_canonical_state_at_height(n) = K[n]
    BY DEF reconstruct_canonical_state_at_height
<1>2. PICK h : Replayed(h)
    BY DEF ReplayInv
<1> HIDE DEF n
<1>3. /\ h = [i \in 0..n |-> h[i]] /\ h[0] = [why |-> "Ok", st |-> EmptyState]
      /\ \A i \in 1..n : h[i] = ApplyTo(h[i - 1], chain[i + 1])
      /\ h[n] = Live
    BY <1>2 DEF Replayed, n
<1>4. h = Rec(h)
    <2>1. ASSUME NEW i \in 0..n
          PROVE  h[i] = IF i = 0 THEN [why |-> "Ok", st |-> EmptyState] ELSE ApplyTo(h[i - 1], chain[i + 1])
        <3>1. CASE i = 0
            BY <1>3, <3>1
        <3>2. CASE i # 0
            <4>1. i \in 1..n
                BY <1>0, <3>2
            <4> QED BY <1>3, <3>2, <4>1
        <3> QED BY <3>1, <3>2
    <2>2. [i \in 0..n |-> h[i]] = Rec(h)
        BY <2>1
    <2> QED BY <1>3, <2>2
<1>5. K = Rec(K)
    <2> HIDE DEF Rec
    <2> QED BY <1>4
<1> HIDE DEF K
<1>6. K[0] = [why |-> "Ok", st |-> EmptyState] /\ \A i \in 1..n : K[i] = ApplyTo(K[i - 1], chain[i + 1])
    BY <1>0, <1>5
<1>7. K[0] = h[0] /\ \A i \in 1..n : K[i - 1] = h[i - 1] => K[i] = h[i]
    BY <1>3, <1>6
<1>8. \A i \in 0..n : K[i] = h[i]
    <2> HIDE DEF Rec
    <2> QED BY <1>0, <1>7, LoopUnique
<1> QED BY <1>0, <1>1, <1>3, <1>8

(***************************************************************************)
(* For any transactions, pools, blocks and limits, the replay from genesis *)
(* arrives at the accounts the node has, unless an airdrop changed them.   *)
(***************************************************************************)
THEOREM ReplayAgreesHolds == Spec => []ReplayAgrees
<1>1. Init => ChainInv /\ ReplayInv
    BY ChainInit, ReplayInit
<1>2. ChainInv /\ ReplayInv /\ [Next]_vars => ChainInv' /\ ReplayInv'
    BY ChainStep, ReplayStep
<1>3. ChainInv /\ ReplayInv => ReplayAgrees
    BY ReplayRight
<1> QED BY <1>1, <1>2, <1>3, PTL DEF Spec

-----------------------------------------------------------------------------
\* The order of execution.

(***************************************************************************)
(* Of the first k transactions, those of account a take its nonce from u   *)
(* to w, one by one.                                                       *)
(***************************************************************************)
Ordered(txs, k, a, u, w) ==
    /\ u <= w
    /\ \A i \in 1..k : txs[i].sender = a => u <= txs[i].nonce /\ txs[i].nonce < w
    /\ \A v \in u..(w - 1) : \E i \in 1..k : txs[i].sender = a /\ txs[i].nonce = v
    /\ \A i, j \in 1..k : i < j /\ txs[i].sender = a /\ txs[j].sender = a
          => txs[i].nonce < txs[j].nonce

LEMMA OrderedStep ==
    ASSUME NEW k \in Nat, NEW m, m = k + 1, NEW txs, NEW a, NEW u \in Nat, NEW w \in Nat,
           \A i \in 1..m : txs[i].nonce \in Nat, Ordered(txs, k, a, u, w)
    PROVE  /\ txs[m].sender = a /\ txs[m].nonce = w => Ordered(txs, m, a, u, w + 1)
           /\ txs[m].sender # a => Ordered(txs, m, a, u, w)
<1>0. \A i \in 1..m : i \in 1..k \/ i = m
    OBVIOUS
<1>1. ASSUME txs[m].sender = a, txs[m].nonce = w PROVE Ordered(txs, m, a, u, w + 1)
    <2>1. u <= w + 1
        BY DEF Ordered
    <2>2. ASSUME NEW i \in 1..m, txs[i].sender = a PROVE u <= txs[i].nonce /\ txs[i].nonce < w + 1
        BY <1>0, <1>1, <2>2 DEF Ordered
    <2>3. ASSUME NEW v \in u..((w + 1) - 1) PROVE \E i \in 1..m : txs[i].sender = a /\ txs[i].nonce = v
        <3>1. CASE v = w
            BY <1>1, <3>1
        <3>2. CASE v # w
            <4>1. v \in u..(w - 1)
                BY <3>2
            <4>2. PICK i \in 1..k : txs[i].sender = a /\ txs[i].nonce = v
                BY <4>1 DEF Ordered
            <4> QED BY <4>2
        <3> QED BY <3>1, <3>2
    <2>4. ASSUME NEW i \in 1..m, NEW j \in 1..m, i < j, txs[i].sender = a, txs[j].sender = a
          PROVE  txs[i].nonce < txs[j].nonce
        BY <1>0, <1>1, <2>4 DEF Ordered
    <2> QED BY <2>1, <2>2, <2>3, <2>4 DEF Ordered
<1>2. ASSUME txs[m].sender # a PROVE Ordered(txs, m, a, u, w)
    <2>1. u <= w
        BY DEF Ordered
    <2>2. ASSUME NEW i \in 1..m, txs[i].sender = a PROVE u <= txs[i].nonce /\ txs[i].nonce < w
        BY <1>0, <1>2, <2>2 DEF Ordered
    <2>3. ASSUME NEW v \in u..(w - 1) PROVE \E i \in 1..m : txs[i].sender = a /\ txs[i].nonce = v
        <3>1. PICK i \in 1..k : txs[i].sender = a /\ txs[i].nonce = v
            BY DEF Ordered
        <3> QED BY <3>1
    <2>4. ASSUME NEW i \in 1..m, NEW j \in 1..m, i < j, txs[i].sender = a, txs[j].sender = a
          PROVE  txs[i].nonce < txs[j].nonce
        BY <1>0, <1>2, <2>4 DEF Ordered
    <2> QED BY <2>1, <2>2, <2>3, <2>4 DEF Ordered
<1> QED BY <1>1, <1>2

\* What one transaction does.
Moved(st, t, after) ==
    /\ st \in StateType /\ after \in StateType /\ t \in Tx
    /\ t.sender \in Address /\ t.to \in Address /\ t.to # t.sender
    /\ t.nonce = st.nonces[t.sender]
    /\ after.nonces = [st.nonces EXCEPT ![t.sender] = @ + 1]
    /\ after.balances = [st.balances EXCEPT ![t.sender] = @ - total_cost(t), ![t.to] = @ + t.amount]

LEMMA PathStep ==
    ASSUME NEW txs \in Seq(Tx), NEW st, NEW s, Path(s, txs, st), NEW i \in 1..Len(txs)
    PROVE  Moved(s[i - 1], txs[i], s[i])
<1>1. Len(txs) \in Nat /\ txs[i] \in Tx /\ i \in 0..Len(txs) /\ i - 1 \in 0..Len(txs)
    OBVIOUS
<1>2. s[i - 1] \in StateType /\ s[i] \in StateType
    BY <1>1 DEF Path
<1>3. Why(s[i - 1], txs[i]) = "Ok" /\ s[i] = Execute(s[i - 1], txs[i])
    BY DEF Path
<1>4. LET st0 == s[i - 1]
          t == txs[i]
      IN  Moved(st0, t, Execute(st0, t))
    <2> SUFFICES ASSUME NEW st0 \in StateType, NEW t \in Tx, Why(st0, t) = "Ok"
                 PROVE  Moved(st0, t, Execute(st0, t))
        BY <1>1, <1>2, <1>3
    <2> QED BY Executable, ExecuteTyped DEF Moved
<1> QED BY <1>3, <1>4

LEMMA PathOrdered ==
    ASSUME NEW txs \in Seq(Tx), NEW st, NEW s, Path(s, txs, st), NEW a \in Address
    PROVE  /\ Ordered(txs, Len(txs), a, st.nonces[a], s[Len(txs)].nonces[a])
           /\ st.nonces[a] \in Nat /\ s[Len(txs)].nonces[a] \in Nat
<1> DEFINE n == Len(txs)
           u == st.nonces[a]
           w(k) == s[k].nonces[a]
           Bad == {k \in 0..n : ~Ordered(txs, k, a, u, w(k))}
<1>0. n \in Nat /\ \A i \in 1..n : txs[i] \in Tx /\ txs[i].nonce \in Nat
    BY TxTyped
<1>1. \A k \in 0..n : w(k) \in Nat
    BY DEF Path, StateType
<1>2. u = w(0) /\ u \in Nat
    <2>1. u = w(0)
        BY DEF Path
    <2> QED BY <1>0, <1>1, <2>1
<1>3. \A i \in 1..n : Moved(s[i - 1], txs[i], s[i])
    BY PathStep
<1> HIDE DEF n, u
<1>4. ASSUME Bad # {} PROVE FALSE
    <2>1. PICK m \in Bad : \A k \in Bad : m <= k
        <3>1. Bad \subseteq Nat
            BY <1>0
        <3> HIDE DEF Bad
        <3> QED BY <1>4, <3>1, NatMin
    <2>2. m # 0
        <3>1. Ordered(txs, 0, a, u, w(0))
            <4> HIDE DEF w
            <4>1. u..(u - 1) = {}
                BY <1>2
            <4> QED BY <1>2, <4>1 DEF Ordered
        <3> QED BY <2>1, <3>1
    <2>3. PICK k \in Nat : k = m - 1 /\ m = k + 1 /\ k \in 0..n /\ m \in 1..n /\ m \in 0..n /\ k \notin Bad
        <3>1. m - 1 \in Nat /\ m = (m - 1) + 1 /\ m - 1 \in 0..n /\ m \in 1..n /\ m \in 0..n /\ m - 1 \notin Bad
            BY <1>0, <2>1, <2>2
        <3> HIDE DEF Bad
        <3> QED BY <3>1
    <2>4. Ordered(txs, k, a, u, w(k)) /\ w(k) \in Nat /\ ~Ordered(txs, m, a, u, w(m))
        BY <1>1, <2>1, <2>3
    <2>5. /\ txs[m].sender \in Address /\ txs[m].nonce = s[k].nonces[txs[m].sender]
          /\ s[k].nonces \in [Address -> Nat]
          /\ s[m].nonces = [s[k].nonces EXCEPT ![txs[m].sender] = @ + 1]
        <3>1. Moved(s[k], txs[m], s[m])
            BY <1>3, <2>3
        <3> QED BY <3>1 DEF Moved, StateType
    <2>6. \A i \in 1..m : txs[i].nonce \in Nat
        BY <1>0, <2>3
    <2>7. CASE txs[m].sender = a
        <3>1. txs[m].nonce = w(k) /\ w(m) = w(k) + 1
            BY <2>5, <2>7
        <3> HIDE DEF w, Bad
        <3>2. Ordered(txs, m, a, u, w(k) + 1)
            BY <1>2, <2>3, <2>4, <2>6, <2>7, <3>1, OrderedStep
        <3> QED BY <2>4, <3>1, <3>2
    <2>8. CASE txs[m].sender # a
        <3>1. w(m) = w(k)
            BY <2>5, <2>8
        <3> HIDE DEF w, Bad
        <3>2. Ordered(txs, m, a, u, w(k))
            BY <1>2, <2>3, <2>4, <2>6, <2>8, OrderedStep
        <3> QED BY <2>4, <3>1, <3>2
    <2> QED BY <2>7, <2>8
<1>5. n \in 0..n /\ n \notin Bad
    BY <1>0, <1>4
<1>6. Ordered(txs, n, a, u, w(n)) /\ w(n) \in Nat
    BY <1>1, <1>5
<1> QED BY <1>2, <1>6 DEF n, u

(***************************************************************************)
(* The same along the chain.                                               *)
(***************************************************************************)
OnceInv ==
    /\ \A p \in Places : TxAt(p).sender \in Address
    /\ \A a \in Address :
          /\ \A p \in Places : TxAt(p).sender = a => TxAt(p).nonce < nonces[a]
          /\ \A v \in 0..(nonces[a] - 1) : \E p \in Places : TxAt(p).sender = a /\ TxAt(p).nonce = v
          /\ \A p, q \in Places : TxAt(p).sender = a /\ TxAt(q).sender = a /\ Before(p, q)
                => TxAt(p).nonce < TxAt(q).nonce

LEMMA Pairs ==
    ASSUME NEW c, NEW n \in Nat, DOMAIN c = 1..n, \A i \in 1..n : c[i].txs \in Seq(Tx), NEW p
    PROVE  p \in UNION {{i} \X DOMAIN c[i].txs : i \in DOMAIN c}
              <=> \E i \in 1..n : \E j \in 1..Len(c[i].txs) : p = <<i, j>>
<1>1. ASSUME NEW i \in 1..n PROVE DOMAIN c[i].txs = 1..Len(c[i].txs)
    <2>1. c[i].txs \in Seq(Tx)
        OBVIOUS
    <2> QED BY <2>1
<1>2. ASSUME NEW i \in 1..n
      PROVE  p \in {i} \X DOMAIN c[i].txs <=> \E j \in 1..Len(c[i].txs) : p = <<i, j>>
    BY <1>1
<1>3. p \in UNION {{i} \X DOMAIN c[i].txs : i \in DOMAIN c}
         <=> \E i \in 1..n : p \in {i} \X DOMAIN c[i].txs
    OBVIOUS
<1> QED BY <1>2, <1>3

LEMMA PlacesFacts ==
    ASSUME ChainInv
    PROVE  /\ \A p : p \in Places <=> \E i \in 1..Len(chain) : \E j \in 1..Len(chain[i].txs) : p = <<i, j>>
           /\ \A p \in Places : /\ p[1] \in 1..Len(chain) /\ p[2] \in Nat
                                /\ TxAt(p) \in TxType /\ TxAt(p).nonce \in Nat
<1>0. Len(chain) \in Nat /\ DOMAIN chain = 1..Len(chain)
    BY TipFacts
<1>1. \A i \in 1..Len(chain) : chain[i].txs \in Seq(Tx)
    BY DEF ChainInv, Block
<1>2. ASSUME NEW p
      PROVE  p \in Places <=> \E i \in 1..Len(chain) : \E j \in 1..Len(chain[i].txs) : p = <<i, j>>
    BY <1>0, <1>1, Pairs DEF Places
<1>3. ASSUME NEW p \in Places
      PROVE  /\ p[1] \in 1..Len(chain) /\ p[2] \in Nat
             /\ TxAt(p) \in TxType /\ TxAt(p).nonce \in Nat
    <2>1. PICK i \in 1..Len(chain) : \E j \in 1..Len(chain[i].txs) : p = <<i, j>>
        BY <1>2
    <2>2. PICK j \in 1..Len(chain[i].txs) : p = <<i, j>>
        BY <2>1
    <2>3. p[1] = i /\ p[2] = j
        BY <2>2
    <2>4. chain[i].txs \in Seq(Tx)
        BY <1>1
    <2>5. chain[i].txs[j] \in Tx /\ j \in Nat
        BY <2>4
    <2>6. TxAt(p) = chain[i].txs[j]
        BY <2>3 DEF TxAt
    <2>7. TxAt(p) \in TxType /\ TxAt(p).nonce \in Nat
        BY <2>5, <2>6, TxTyped
    <2> QED BY <2>3, <2>5, <2>7
<1> QED BY <1>2, <1>3

LEMMA GrownPlaces ==
    ASSUME ChainInv, NEW b, Grown(b)
    PROVE  LET n == Len(chain) + 1
           IN  /\ \A p : p \in Places' <=> p \in Places \/ \E j \in 1..Len(b.txs) : p = <<n, j>>
               /\ \A p \in Places : TxAt(p)' = TxAt(p) /\ p[1] < n
               /\ \A p : \A j \in 1..Len(b.txs) : p = <<n, j>> => TxAt(p)' = b.txs[j]
<1> DEFINE n == Len(chain) + 1
<1>0. Len(chain) \in Nat /\ n \in Nat
    BY TipFacts
<1>1. /\ Len(chain') = n /\ chain'[n] = b /\ \A i \in 1..Len(chain) : chain'[i] = chain[i]
      /\ DOMAIN chain' = 1..n
    BY GrownChain
<1>2. \A i \in 1..Len(chain) : chain[i].txs \in Seq(Tx)
    BY DEF ChainInv, Block
<1>3. b.txs \in Seq(Tx)
    BY DEF Grown, Block
<1>4. \A i \in 1..n : i \in 1..Len(chain) \/ i = n
    BY <1>0
<1>5. \A i \in 1..n : chain'[i].txs \in Seq(Tx)
    <2> HIDE DEF n
    <2> QED BY <1>1, <1>2, <1>3, <1>4
<1> HIDE DEF n
<1>6. ASSUME NEW p
      PROVE  p \in Places' <=> \E i \in 1..n : \E j \in 1..Len(chain'[i].txs) : p = <<i, j>>
    BY <1>0, <1>1, <1>5, Pairs DEF Places
<1>7. ASSUME NEW p
      PROVE  p \in Places <=> \E i \in 1..Len(chain) : \E j \in 1..Len(chain[i].txs) : p = <<i, j>>
    BY PlacesFacts
<1>8. ASSUME NEW p
      PROVE  p \in Places' <=> p \in Places \/ \E j \in 1..Len(b.txs) : p = <<n, j>>
    <2>1. ASSUME p \in Places' PROVE p \in Places \/ \E j \in 1..Len(b.txs) : p = <<n, j>>
        <3>1. PICK i \in 1..n : \E j \in 1..Len(chain'[i].txs) : p = <<i, j>>
            BY <1>6, <2>1
        <3> QED BY <1>1, <1>4, <1>7, <3>1
    <2>2. ASSUME p \in Places PROVE p \in Places'
        <3>1. PICK i \in 1..Len(chain) : \E j \in 1..Len(chain[i].txs) : p = <<i, j>>
            BY <1>7, <2>2
        <3>2. i \in 1..n /\ chain'[i] = chain[i]
            BY <1>0, <1>1 DEF n
        <3> QED BY <1>6, <3>1, <3>2
    <2>3. ASSUME NEW j \in 1..Len(b.txs), p = <<n, j>> PROVE p \in Places'
        <3>1. n \in 1..n
            BY <1>0 DEF n
        <3> QED BY <1>1, <1>6, <2>3, <3>1
    <2> QED BY <2>1, <2>2, <2>3
<1>9. ASSUME NEW p \in Places PROVE TxAt(p)' = TxAt(p) /\ p[1] < n
    <2>1. p[1] \in 1..Len(chain)
        BY PlacesFacts
    <2>2. p[1] < n
        BY <1>0, <2>1 DEF n
    <2>3. chain'[p[1]] = chain[p[1]]
        BY <1>1, <2>1
    <2> QED BY <2>2, <2>3 DEF TxAt
<1>10. ASSUME NEW p, NEW j \in 1..Len(b.txs), p = <<n, j>> PROVE TxAt(p)' = b.txs[j]
    <2>1. p[1] = n /\ p[2] = j
        BY <1>10
    <2> QED BY <1>1, <2>1 DEF TxAt
<1> QED BY <1>8, <1>9, <1>10 DEF n

LEMMA OnceStep ==
    ASSUME ChainInv, OnceInv, [Next]_vars
    PROVE  OnceInv'
<1>1. ASSUME chain' = chain, nonces' = nonces PROVE OnceInv'
    <2>1. Places' = Places
        BY <1>1 DEF Places
    <2>2. ASSUME NEW p PROVE TxAt(p)' = TxAt(p)
        BY <1>1 DEF TxAt
    <2> QED BY <1>1, <2>1, <2>2 DEF OnceInv
<1>2. CASE \E b : Grown(b)
    <2>1. PICK b : Grown(b)
        BY <1>2
    <2> DEFINE txs == b.txs
    <2>20. PICK n : n = Len(chain) + 1
        OBVIOUS
    <2>2. /\ \A p : p \in Places' <=> p \in Places \/ \E j \in 1..Len(txs) : p = <<n, j>>
          /\ \A p \in Places : TxAt(p)' = TxAt(p) /\ p[1] < n
          /\ \A p : \A j \in 1..Len(txs) : p = <<n, j>> => TxAt(p)' = txs[j]
        BY <2>1, <2>20, GrownPlaces
    <2>3. txs \in Seq(Tx) /\ Len(txs) \in Nat
        BY <2>1 DEF Grown, Block
    <2>4. PICK s : Path(s, txs, LiveState) /\ LiveState' = Rewarded(s[Len(txs)], b)
        BY <2>1, GrownState
    <2>5. ASSUME NEW a \in Address
          PROVE  Ordered(txs, Len(txs), a, nonces[a], nonces'[a]) /\ nonces[a] \in Nat /\ nonces'[a] \in Nat
        <3>1. LiveState.nonces = nonces
            BY DEF LiveState
        <3>2. LiveState'.nonces = nonces'
            BY DEF LiveState
        <3>3. Rewarded(s[Len(txs)], b).nonces = s[Len(txs)].nonces
            BY DEF Rewarded
        <3>4. nonces' = s[Len(txs)].nonces
            BY <2>4, <3>2, <3>3
        <3> HIDE DEF txs
        <3> QED BY <2>3, <2>4, <3>1, <3>4, PathOrdered
    <2>6. \A i \in 1..Len(txs) : txs[i].sender \in Address /\ txs[i].nonce \in Nat
        <3> SUFFICES ASSUME NEW i \in 1..Len(txs) PROVE txs[i].sender \in Address /\ txs[i].nonce \in Nat
            OBVIOUS
        <3> HIDE DEF txs
        <3>1. Moved(s[i - 1], txs[i], s[i])
            BY <2>3, <2>4, PathStep
        <3>2. txs[i] \in Tx /\ txs[i].sender \in Address
            BY <3>1 DEF Moved
        <3> QED BY <3>2, TxTyped
    <2>7. \A p \in Places : p[1] \in Nat /\ TxAt(p).nonce \in Nat
        BY PlacesFacts
    <2>8. n \in Nat
        BY <2>20, TipFacts
    <2> HIDE DEF txs
    <2>9. ASSUME NEW p \in Places' PROVE TxAt(p)'.sender \in Address
        <3>1. CASE p \in Places
            BY <2>2, <3>1 DEF OnceInv
        <3>2. CASE \E j \in 1..Len(txs) : p = <<n, j>>
            BY <2>2, <2>6, <3>2
        <3> QED BY <2>2, <2>9, <3>1, <3>2
    <2>10. ASSUME NEW a \in Address, NEW p \in Places', TxAt(p)'.sender = a PROVE TxAt(p)'.nonce < nonces'[a]
        <3>1. CASE p \in Places
            <4>1. TxAt(p)' = TxAt(p) /\ TxAt(p).nonce \in Nat
                BY <2>2, <2>7, <3>1
            <4>2. TxAt(p).nonce < nonces[a]
                BY <2>10, <3>1, <4>1 DEF OnceInv
            <4>3. nonces[a] <= nonces'[a] /\ nonces[a] \in Nat /\ nonces'[a] \in Nat
                BY <2>5 DEF Ordered
            <4> QED BY <4>1, <4>2, <4>3
        <3>2. CASE \E j \in 1..Len(txs) : p = <<n, j>>
            <4>1. PICK j \in 1..Len(txs) : p = <<n, j>>
                BY <3>2
            <4>2. TxAt(p)' = txs[j]
                BY <2>2, <4>1
            <4> QED BY <2>5, <2>10, <4>2 DEF Ordered
        <3> QED BY <2>2, <2>10, <3>1, <3>2
    <2>11. ASSUME NEW a \in Address, NEW v \in 0..(nonces'[a] - 1)
           PROVE  \E p \in Places' : TxAt(p)'.sender = a /\ TxAt(p)'.nonce = v
        <3>0. Ordered(txs, Len(txs), a, nonces[a], nonces'[a]) /\ nonces[a] \in Nat /\ nonces'[a] \in Nat
            BY <2>5
        <3>1. CASE v \in 0..(nonces[a] - 1)
            <4>1. PICK p \in Places : TxAt(p).sender = a /\ TxAt(p).nonce = v
                BY <3>1 DEF OnceInv
            <4>2. p \in Places' /\ TxAt(p)' = TxAt(p)
                BY <2>2, <4>1
            <4> QED BY <4>1, <4>2
        <3>2. CASE v \in nonces[a]..(nonces'[a] - 1)
            <4>1. PICK j \in 1..Len(txs) : txs[j].sender = a /\ txs[j].nonce = v
                BY <3>0, <3>2 DEF Ordered
            <4>2. PICK p : p = <<n, j>>
                OBVIOUS
            <4>3. p \in Places' /\ TxAt(p)' = txs[j]
                BY <2>2, <4>1, <4>2
            <4> QED BY <4>1, <4>3
        <3> QED BY <3>0, <3>1, <3>2
    <2>12. ASSUME NEW a \in Address, NEW p \in Places', NEW q \in Places',
                  TxAt(p)'.sender = a, TxAt(q)'.sender = a, Before(p, q)
           PROVE  TxAt(p)'.nonce < TxAt(q)'.nonce
        <3>0. Ordered(txs, Len(txs), a, nonces[a], nonces'[a]) /\ nonces[a] \in Nat /\ nonces'[a] \in Nat
            BY <2>5
        <3>1. CASE p \in Places /\ q \in Places
            <4>1. TxAt(p)' = TxAt(p) /\ TxAt(q)' = TxAt(q)
                BY <2>2, <3>1
            <4> QED BY <2>12, <3>1, <4>1 DEF OnceInv
        <3>2. CASE p \in Places /\ \E j \in 1..Len(txs) : q = <<n, j>>
            <4>1. PICK j \in 1..Len(txs) : q = <<n, j>>
                BY <3>2
            <4>2. TxAt(q)' = txs[j] /\ TxAt(p)' = TxAt(p)
                BY <2>2, <3>2, <4>1
            <4>3. TxAt(p).nonce < nonces[a] /\ TxAt(p).nonce \in Nat
                BY <2>7, <2>12, <3>2, <4>2 DEF OnceInv
            <4>4. nonces[a] <= txs[j].nonce /\ txs[j].nonce \in Nat
                BY <2>6, <2>12, <3>0, <4>2 DEF Ordered
            <4> QED BY <3>0, <4>2, <4>3, <4>4
        <3>3. CASE (\E j \in 1..Len(txs) : p = <<n, j>>) /\ q \in Places
            <4>1. p[1] = n /\ q[1] < n /\ q[1] \in Nat
                BY <2>2, <2>7, <3>3
            <4> QED BY <2>8, <2>12, <4>1 DEF Before
        <3>4. CASE (\E j \in 1..Len(txs) : p = <<n, j>>) /\ \E j \in 1..Len(txs) : q = <<n, j>>
            <4>1. PICK i \in 1..Len(txs) : p = <<n, i>>
                BY <3>4
            <4>2. PICK j \in 1..Len(txs) : q = <<n, j>>
                BY <3>4
            <4>3. TxAt(p)' = txs[i] /\ TxAt(q)' = txs[j]
                BY <2>2, <4>1, <4>2
            <4>4. i < j
                BY <2>3, <2>8, <2>12, <4>1, <4>2 DEF Before
            <4> QED BY <2>12, <3>0, <4>3, <4>4 DEF Ordered
        <3> QED BY <2>2, <2>12, <3>1, <3>2, <3>3, <3>4
    <2> QED BY <2>9, <2>10, <2>11, <2>12 DEF OnceInv, Before
<1>3. CASE \E a, v : Credited(a, v)
    BY <1>1, <1>3 DEF Credited
<1>4. CASE Still
    BY <1>1, <1>4 DEF Still
<1> QED BY <1>2, <1>3, <1>4, Steps

LEMMA OnceInit == ASSUME Init PROVE OnceInv
<1>1. ChainInv
    BY ChainInit
<1>2. Len(chain) = 1 /\ chain[1].txs = <<>>
    BY DEF Init, genesis_block
<1>3. Len(chain[1].txs) = 0
    BY <1>2
<1>4. \A p : p \notin Places
    <2> SUFFICES ASSUME NEW p, p \in Places PROVE FALSE
        OBVIOUS
    <2>1. PICK i \in 1..Len(chain) : \E j \in 1..Len(chain[i].txs) : p = <<i, j>>
        BY <1>1, PlacesFacts
    <2>2. i = 1
        BY <1>2
    <2> QED BY <1>3, <2>1, <2>2
<1>5. \A a \in Address : nonces[a] = 0
    BY DEF Init, EmptyState
<1> QED BY <1>4, <1>5 DEF OnceInv

LEMMA OnceRight ==
    ASSUME ChainInv, OnceInv
    PROVE  ExecutedOnce
<1>0. /\ \A p \in Places : p[1] \in Nat /\ p[2] \in Nat /\ TxAt(p) \in TxType /\ TxAt(p).nonce \in Nat
      /\ \A p : p \in Places <=> \E i \in 1..Len(chain) : \E j \in 1..Len(chain[i].txs) : p = <<i, j>>
    BY PlacesFacts, TipFacts
<1>1. ASSUME NEW p \in Places, NEW q \in Places, canonical_tx_id(TxAt(p)) = canonical_tx_id(TxAt(q))
      PROVE  p = q
    <2>1. TxAt(p).sender = TxAt(q).sender /\ TxAt(p).nonce = TxAt(q).nonce
        <3>1. ASSUME NEW t \in TxType
              PROVE  canonical_tx_id(t).sender = t.sender /\ canonical_tx_id(t).nonce = t.nonce
            BY DEF canonical_tx_id, TxType
        <3>2. /\ canonical_tx_id(TxAt(p)).sender = TxAt(p).sender /\ canonical_tx_id(TxAt(p)).nonce = TxAt(p).nonce
              /\ canonical_tx_id(TxAt(q)).sender = TxAt(q).sender /\ canonical_tx_id(TxAt(q)).nonce = TxAt(q).nonce
            BY <1>0, <3>1
        <3> QED BY <1>1, <3>2
    <2>2. TxAt(p).sender \in Address
        BY DEF OnceInv
    <2>3. ~Before(p, q) /\ ~Before(q, p)
        <3>1. TxAt(p).nonce \in Nat /\ TxAt(q).nonce \in Nat
            BY <1>0
        <3> QED BY <2>1, <2>2, <3>1 DEF OnceInv
    <2>4. p[1] \in Nat /\ p[2] \in Nat /\ q[1] \in Nat /\ q[2] \in Nat
        BY <1>0
    <2>5. p[1] = q[1] /\ p[2] = q[2]
        BY <2>3, <2>4 DEF Before
    <2>6. p = <<p[1], p[2]>> /\ q = <<q[1], q[2]>>
        BY <1>0
    <2> QED BY <2>5, <2>6
<1>2. ASSUME NEW a \in Address
      PROVE  LET own == {p \in Places : TxAt(p).sender = a}
             IN  /\ {TxAt(p).nonce : p \in own} = 0..(nonces[a] - 1)
                 /\ \A p, q \in own : Before(p, q) => TxAt(p).nonce < TxAt(q).nonce
    <2>0. nonces[a] \in Nat
        BY DEF ChainInv, LiveState, StateType
    <2>1. ASSUME NEW p \in Places, TxAt(p).sender = a PROVE TxAt(p).nonce \in 0..(nonces[a] - 1)
        <3>1. TxAt(p).nonce < nonces[a] /\ TxAt(p).nonce \in Nat
            BY <1>0, <2>1 DEF OnceInv
        <3> QED BY <2>0, <3>1
    <2>2. ASSUME NEW v \in 0..(nonces[a] - 1)
          PROVE  \E p \in Places : TxAt(p).sender = a /\ TxAt(p).nonce = v
        BY DEF OnceInv
    <2>3. ASSUME NEW p \in Places, NEW q \in Places, TxAt(p).sender = a, TxAt(q).sender = a, Before(p, q)
          PROVE  TxAt(p).nonce < TxAt(q).nonce
        BY <2>3 DEF OnceInv
    <2> QED BY <2>1, <2>2, <2>3
<1> QED BY <1>1, <1>2 DEF ExecutedOnce

(***************************************************************************)
(* For any transactions and pools: no transaction stands twice on the      *)
(* chain, and the nonces of an account run from 0 without a gap in the     *)
(* order of execution.                                                     *)
(***************************************************************************)
THEOREM ExecutedOnceHolds == Spec => []ExecutedOnce
<1>1. Init => ChainInv /\ OnceInv
    BY ChainInit, OnceInit
<1>2. ChainInv /\ OnceInv /\ [Next]_vars => ChainInv' /\ OnceInv'
    BY ChainStep, OnceStep
<1>3. ChainInv /\ OnceInv => ExecutedOnce
    BY OnceRight
<1> QED BY <1>1, <1>2, <1>3, PTL DEF Spec

-----------------------------------------------------------------------------
\* The supply.

LEMMA TotalZeros ==
    ASSUME NEW n \in Nat, NEW g, \A i \in 1..n : g[i] = 0
    PROVE  Total(g, n) = 0
<1> DEFINE e == [i \in 0..n |-> 0]
<1>1. Numbers(g, n)
    BY DEF Numbers
<1>2. Sums(e, g, n) /\ e[n] = 0
    BY DEF Sums
<1> HIDE DEF e
<1>3. PICK f : Sums(f, g, n) /\ Total(g, n) = f[n]
    BY <1>1, TotalTrace
<1>4. e[n] = f[n]
    BY <1>2, <1>3, SumsUnique
<1> QED BY <1>2, <1>3, <1>4

\* A longer list, and a list with one entry changed.
LEMMA TotalGrown ==
    ASSUME NEW m \in Nat, NEW n, n = m + 1, NEW g, NEW h, Numbers(g, m),
           \A i \in 1..m : h[i] = g[i], h[n] \in Int
    PROVE  Total(h, n) = Total(g, m) + h[n] /\ Total(g, m) \in Int /\ Total(h, n) \in Int
<1>1. Numbers(h, n) /\ Numbers(h, m)
    BY DEF Numbers
<1>2. Total(h, n) = Total(h, m) + h[n] /\ Total(h, n) \in Int
    BY <1>1, TotalStep
<1>3. Total(h, m) = Total(g, m) /\ Total(g, m) \in Int
    BY TotalSame, Zenon
<1> QED BY <1>2, <1>3

LEMMA TotalChange ==
    ASSUME NEW n \in Nat, NEW g, NEW h, Numbers(g, n), Numbers(h, n), NEW j \in 1..n,
           \A i \in 1..n : i # j => h[i] = g[i]
    PROVE  Total(h, n) = Total(g, n) + (h[j] - g[j]) /\ Total(g, n) \in Int
<1> DEFINE Good(k) == /\ Total(h, k) = Total(g, k) + (IF k < j THEN 0 ELSE h[j] - g[j])
                      /\ Total(g, k) \in Int /\ Total(h, k) \in Int
           Bad == {k \in 0..n : ~Good(k)}
<1>1. ASSUME Bad # {} PROVE FALSE
    <2>0. Bad \subseteq Nat
        OBVIOUS
    <2>1. PICK m \in Bad : \A k \in Bad : m <= k
        <3> HIDE DEF Bad
        <3> QED BY <1>1, <2>0, NatMin
    <2>2. m # 0
        <3>1. Total(g, 0) = 0 /\ Total(h, 0) = 0
            BY TotalZero
        <3> QED BY <2>1, <3>1
    <2>3. PICK k \in Nat : k + 1 = m /\ k \in 0..n /\ k \notin Bad /\ m \in 1..n
        <3>1. m - 1 \in Nat /\ (m - 1) + 1 = m /\ m - 1 \in 0..n /\ m - 1 \notin Bad /\ m \in 1..n
            BY <2>0, <2>1, <2>2
        <3> HIDE DEF Bad
        <3> QED BY <3>1
    <2>4. Good(k)
        BY <2>3
    <2>5. /\ Total(g, m) = Total(g, k) + g[m] /\ Total(h, m) = Total(h, k) + h[m]
          /\ Total(g, m) \in Int /\ Total(h, m) \in Int
        <3>1. Numbers(g, m) /\ Numbers(h, m)
            BY <2>3 DEF Numbers
        <3> QED BY <2>3, <3>1, TotalStep
    <2>6. g[m] \in Int /\ h[m] \in Int /\ g[j] \in Int /\ h[j] \in Int /\ (m # j => h[m] = g[m])
        BY <2>3 DEF Numbers
    <2>7. Good(m)
        BY <2>3, <2>4, <2>5, <2>6
    <2> QED BY <2>1, <2>7
<1>2. n \notin Bad
    BY <1>1
<1>3. Good(n)
    BY <1>2
<1> QED BY <1>3

(***************************************************************************)
(* The sum of all balances, by an enumeration of the addresses.            *)
(***************************************************************************)
LEMMA Enumerated ==
    LET order == SetToSeq(Address)
        n == Cardinality(Address)
    IN  /\ n \in Nat /\ order \in [1..n -> Address]
        /\ \A i, j \in 1..n : order[i] = order[j] => i = j
        /\ \A a \in Address : \E i \in 1..n : order[i] = a
<1> DEFINE n == Cardinality(Address)
           order == SetToSeq(Address)
<1>1. IsFiniteSet(Address)
    BY LedgerAssumption
<1>2. n \in Nat /\ ExistsBijection(1..n, Address)
    BY <1>1, FS_CardinalityType
<1>3. \E f \in [1..n -> Address] : IsInjective(f)
    BY <1>2 DEF ExistsBijection, Bijection, Injection
<1>4. order = CHOOSE f \in [1..n -> Address] : IsInjective(f)
    BY DEF SetToSeq
<1> HIDE DEF n, order
<1>5. order \in [1..n -> Address] /\ IsInjective(order)
    BY <1>3, <1>4, Zenon
<1>6. order \in Injection(1..n, Address)
    BY <1>5 DEF Injection
<1>7. IsFiniteSet(1..n) /\ Cardinality(1..n) = n
    <2>1. 1 \in Int /\ n \in Int
        BY <1>2
    <2> QED BY <1>2, <2>1, FS_Interval
<1>8. order \in Surjection(1..n, Address)
    BY <1>1, <1>6, <1>7, FS_Injection DEF n
<1>9. \A a \in Address : \E i \in 1..n : order[i] = a
    BY <1>8 DEF Surjection
<1>10. \A i, j \in 1..n : order[i] = order[j] => i = j
    BY <1>5 DEF IsInjective
<1> QED BY <1>2, <1>5, <1>9, <1>10 DEF n, order

LEMMA SumUpdate ==
    ASSUME NEW f \in [Address -> Int], NEW a \in Address, NEW v \in Int
    PROVE  Sum([f EXCEPT ![a] = v]) = Sum(f) + (v - f[a]) /\ Sum(f) \in Int
<1> DEFINE n == Cardinality(Address)
           order == SetToSeq(Address)
           e == [f EXCEPT ![a] = v]
           g == [i \in 1..n |-> f[order[i]]]
           h == [i \in 1..n |-> e[order[i]]]
<1>1. /\ n \in Nat /\ order \in [1..n -> Address]
      /\ \A i, j \in 1..n : order[i] = order[j] => i = j
      /\ \A x \in Address : \E i \in 1..n : order[i] = x
    BY Enumerated
<1>2. Sum(f) = Total(g, n) /\ Sum(e) = Total(h, n)
    BY DEF Sum
<1> HIDE DEF n, order
<1>3. PICK j \in 1..n : order[j] = a
    BY <1>1
<1>4. Numbers(g, n) /\ Numbers(h, n)
    <2>1. \A i \in 1..n : order[i] \in Address
        BY <1>1
    <2>2. e \in [Address -> Int]
        OBVIOUS
    <2> HIDE DEF e
    <2> QED BY <2>1, <2>2 DEF Numbers
<1>5. h[j] = v /\ g[j] = f[a]
    BY <1>3
<1>6. \A i \in 1..n : i # j => h[i] = g[i]
    BY <1>1, <1>3
<1> HIDE DEF g, h, e
<1>7. Total(h, n) = Total(g, n) + (h[j] - g[j]) /\ Total(g, n) \in Int
    BY <1>1, <1>4, <1>6, TotalChange
<1> QED BY <1>2, <1>5, <1>7 DEF e

LEMMA SumMoved ==
    ASSUME NEW st, NEW t, NEW after, Moved(st, t, after)
    PROVE  /\ Sum(after.balances) + charged_fee(t) = Sum(st.balances)
           /\ Sum(after.balances) \in Int /\ Sum(st.balances) \in Int /\ charged_fee(t) \in Nat
<1> DEFINE f == st.balances
           x == f[t.sender] - total_cost(t)
           e == [f EXCEPT ![t.sender] = x]
           y == e[t.to] + t.amount
<1>0. MaxU128 \in Nat
    BY LedgerAssumption
<1>1. /\ t \in Tx /\ t.sender \in Address /\ t.to \in Address /\ t.to # t.sender
      /\ st.balances \in [Address -> 0..MaxU128]
    BY DEF Moved, StateType
<1>2. t.amount \in Nat /\ charged_fee(t) \in Nat /\ total_cost(t) \in Nat /\ total_cost(t) = t.amount + charged_fee(t)
    BY <1>1, TxTyped
<1>3. f \in [Address -> Int] /\ x \in Int
    BY <1>0, <1>1, <1>2
<1>4. e \in [Address -> Int]
    <2> HIDE DEF f, x
    <2> QED BY <1>3
<1>5. y \in Int
    <2> HIDE DEF e
    <2> QED BY <1>1, <1>2, <1>4
<1>6. after.balances = [e EXCEPT ![t.to] = y]
    <2>1. after.balances = [f EXCEPT ![t.sender] = @ - total_cost(t), ![t.to] = @ + t.amount]
        BY DEF Moved
    <2>2. [f EXCEPT ![t.sender] = @ - total_cost(t), ![t.to] = @ + t.amount] = [e EXCEPT ![t.to] = y]
        <3> HIDE DEF f
        <3> QED BY <1>1, <1>3
    <2> QED BY <2>1, <2>2
<1>7. Sum(e) = Sum(f) + (x - f[t.sender]) /\ Sum(f) \in Int
    <2> HIDE DEF f, x
    <2> QED BY <1>1, <1>3, SumUpdate
<1>8. Sum([e EXCEPT ![t.to] = y]) = Sum(e) + (y - e[t.to]) /\ Sum(e) \in Int
    <2> HIDE DEF e, y
    <2> QED BY <1>1, <1>4, <1>5, SumUpdate
<1>9. x - f[t.sender] = 0 - total_cost(t) /\ y - e[t.to] = t.amount
    <2>1. f[t.sender] \in Int /\ e[t.to] \in Int
        <3> HIDE DEF e
        <3> QED BY <1>1, <1>3, <1>4
    <2> HIDE DEF e, f
    <2> QED BY <1>2, <2>1
<1> HIDE DEF x, y, e
<1> QED BY <1>2, <1>6, <1>7, <1>8, <1>9

LEMMA PathFees ==
    ASSUME NEW txs \in Seq(Tx), NEW st, NEW s, Path(s, txs, st)
    PROVE  /\ Sum(s[Len(txs)].balances) + Fees(txs) = Sum(st.balances)
           /\ Sum(s[Len(txs)].balances) \in Int /\ Fees(txs) \in Nat
<1> DEFINE n == Len(txs)
           F == [i \in DOMAIN txs |-> charged_fee(txs[i])]
           B(k) == Sum(s[k].balances)
           Good(k) == B(k) + Total(F, k) = B(0) /\ B(k) \in Int /\ Total(F, k) \in Int
           Bad == {k \in 0..n : ~Good(k)}
<1>0. n \in Nat /\ DOMAIN txs = 1..n /\ \A i \in 1..n : txs[i] \in Tx
    OBVIOUS
<1>1. \A i \in 1..n : F[i] = charged_fee(txs[i]) /\ F[i] \in Nat
    <2> SUFFICES ASSUME NEW i \in 1..n PROVE F[i] = charged_fee(txs[i]) /\ F[i] \in Nat
        OBVIOUS
    <2>1. F[i] = charged_fee(txs[i])
        BY <1>0
    <2>2. charged_fee(txs[i]) \in Nat
        BY <1>0, TxTyped
    <2> QED BY <2>1, <2>2
<1>2. ASSUME NEW i \in 1..n
      PROVE  B(i) + F[i] = B(i - 1) /\ B(i) \in Int /\ B(i - 1) \in Int /\ F[i] \in Nat
    <2>1. Moved(s[i - 1], txs[i], s[i])
        BY PathStep
    <2>2. B(i) + charged_fee(txs[i]) = B(i - 1) /\ B(i) \in Int /\ B(i - 1) \in Int
        BY <2>1, SumMoved
    <2> QED BY <1>1, <2>2
<1>3. Fees(txs) = Total(F, n)
    BY DEF Fees
<1>4. Fees(txs) \in Nat
    <2> HIDE DEF F, n
    <2> QED BY <1>0, <1>1, <1>3, TotalNat
<1>5. B(0) \in Int
    <2>1. s[0] \in StateType
        BY <1>0 DEF Path
    <2>2. s[0].balances \in [Address -> Int]
        BY <2>1, LedgerAssumption DEF StateType
    <2> QED BY <2>2, LedgerAssumption, SumUpdate
<1> HIDE DEF n, F, B
<1>6. ASSUME Bad # {} PROVE FALSE
    <2>0. Bad \subseteq Nat
        BY <1>0
    <2>1. PICK m \in Bad : \A k \in Bad : m <= k
        <3> HIDE DEF Bad
        <3> QED BY <1>6, <2>0, NatMin
    <2>2. m # 0
        <3>1. Total(F, 0) = 0
            BY TotalZero
        <3>2. Good(0)
            BY <1>5, <3>1
        <3> QED BY <2>1, <3>2
    <2>3. PICK k \in Nat : k + 1 = m /\ k = m - 1 /\ k \in 0..n /\ k \notin Bad /\ m \in 1..n
        <3>1. m - 1 \in Nat /\ (m - 1) + 1 = m /\ m - 1 \in 0..n /\ m - 1 \notin Bad /\ m \in 1..n
            BY <1>0, <2>0, <2>1, <2>2
        <3> HIDE DEF Bad
        <3> QED BY <3>1
    <2>4. Good(k)
        BY <2>3
    <2>5. Total(F, m) = Total(F, k) + F[m] /\ Total(F, m) \in Int
        <3>1. Numbers(F, m)
            BY <1>1, <2>3, <1>0 DEF Numbers
        <3> QED BY <2>3, <3>1, TotalStep
    <2>6. B(m) + F[m] = B(k) /\ B(m) \in Int /\ F[m] \in Nat
        BY <1>2, <2>3
    <2>7. Good(m)
        BY <2>4, <2>5, <2>6
    <2> QED BY <2>1, <2>7
<1>7. n \in 0..n /\ n \notin Bad
    BY <1>0, <1>6
<1>8. Good(n)
    BY <1>7
<1>9. B(0) = Sum(st.balances)
    BY DEF B, Path
<1> QED BY <1>3, <1>4, <1>8, <1>9 DEF n, B

LEMMA FeesTyped ==
    ASSUME NEW txs \in Seq(Tx) PROVE Fees(txs) \in Nat
<1> DEFINE F == [i \in DOMAIN txs |-> charged_fee(txs[i])]
<1>1. Len(txs) \in Nat /\ DOMAIN txs = 1..Len(txs) /\ \A i \in 1..Len(txs) : txs[i] \in Tx
    OBVIOUS
<1>2. \A i \in 1..Len(txs) : charged_fee(txs[i]) \in Nat
    BY <1>1, TxTyped
<1>3. \A i \in 1..Len(txs) : F[i] \in Nat
    BY <1>1, <1>2
<1>4. Fees(txs) = Total(F, Len(txs))
    BY DEF Fees
<1> HIDE DEF F
<1> QED BY <1>1, <1>3, <1>4, TotalNat

LEMMA GrownSupply ==
    ASSUME ChainInv, NEW b, Grown(b)
    PROVE  /\ Sum(balances') + Fees(b.txs) = Sum(balances) + block_reward(b.number)
           /\ Sum(balances') \in Int /\ Sum(balances) \in Int
           /\ Fees(b.txs) \in Nat /\ block_reward(b.number) \in Nat
<1>0. Block(b) /\ b.txs \in Seq(Tx) /\ b.number \in Nat
    BY DEF Grown, Block
<1>1. PICK s : Path(s, b.txs, LiveState) /\ LiveState' = Rewarded(s[Len(b.txs)], b)
    BY GrownState
<1>2. b.miner \in Address /\ block_reward(b.number) \in Nat /\ MaxU128 \in Nat
    BY <1>0, GrownState, RewardTyped, LedgerAssumption
<1> DEFINE e == s[Len(b.txs)].balances
<1>3. /\ Sum(e) + Fees(b.txs) = Sum(balances) /\ Sum(e) \in Int /\ Fees(b.txs) \in Nat
    <2>1. LiveState.balances = balances
        BY DEF LiveState
    <2> QED BY <1>0, <1>1, <2>1, PathFees
<1>4. e \in [Address -> 0..MaxU128]
    <2>1. Len(b.txs) \in 0..Len(b.txs)
        BY <1>0
    <2>2. s[Len(b.txs)] \in StateType
        BY <1>1, <2>1 DEF Path
    <2> QED BY <2>2 DEF StateType
<1>5. e \in [Address -> Int] /\ e[b.miner] \in Int
    <2> HIDE DEF e
    <2> QED BY <1>2, <1>4
<1>6. balances' = [e EXCEPT ![b.miner] = e[b.miner] + block_reward(b.number)]
    <2>1. balances' = LiveState'.balances
        BY DEF LiveState
    <2>2. Rewarded(s[Len(b.txs)], b).balances = [e EXCEPT ![b.miner] = e[b.miner] + block_reward(b.number)]
        BY DEF Rewarded
    <2> QED BY <1>1, <2>1, <2>2
<1> HIDE DEF e
<1> DEFINE v == e[b.miner] + block_reward(b.number)
<1>7. v \in Int /\ v - e[b.miner] = block_reward(b.number)
    BY <1>2, <1>5
<1>8. Sum([e EXCEPT ![b.miner] = v]) = Sum(e) + (v - e[b.miner])
    <2> HIDE DEF v
    <2> QED BY <1>2, <1>5, <1>7, SumUpdate
<1> QED BY <1>2, <1>3, <1>6, <1>7, <1>8

FeeList == [i \in DOMAIN Mined |-> Fees(Mined[i].txs)]
RewardList == [i \in DOMAIN Mined |-> block_reward(Mined[i].number)]

LEMMA MinedFacts ==
    ASSUME NEW c, NEW S, c \in Seq(S), Len(c) >= 1
    PROVE  LET m == Tail(c)
           IN  /\ Len(m) = Len(c) - 1 /\ DOMAIN m = 1..(Len(c) - 1)
               /\ \A i \in 1..(Len(c) - 1) : m[i] = c[i + 1]
<1>1. c # <<>> /\ Len(c) \in Nat
    BY EmptySeq
<1>2. Tail(c) \in Seq(S) /\ Len(Tail(c)) = Len(c) - 1 /\ \A i \in 1..(Len(c) - 1) : Tail(c)[i] = c[i + 1]
    BY <1>1, HeadTailProperties
<1> QED BY <1>2

LEMMA SupplyStep ==
    ASSUME ChainInv, SupplyConserved, [Next]_vars
    PROVE  SupplyConserved'
<1> DEFINE m == Len(chain) - 1
<1>0. PICK S : chain \in Seq(S)
    BY DEF ChainInv
<1>1. Len(chain) \in Nat /\ Len(chain) >= 1 /\ m \in Nat
    BY TipFacts DEF ChainInv
<1>2. Len(Mined) = m /\ DOMAIN Mined = 1..m /\ \A i \in 1..m : Mined[i] = chain[i + 1]
    BY <1>0, <1>1, MinedFacts DEF Mined
<1> HIDE DEF m
<1>3. ASSUME NEW i \in 1..m
      PROVE  /\ Mined[i].txs \in Seq(Tx) /\ Mined[i].number \in Nat
    <2>1. i + 1 \in 1..Len(chain)
        BY <1>1 DEF m
    <2>2. Block(chain[i + 1])
        BY <2>1 DEF ChainInv
    <2> QED BY <1>2, <2>2 DEF Block
<1>4. \A i \in 1..m : /\ FeeList[i] = Fees(Mined[i].txs) /\ FeeList[i] \in Nat
                      /\ RewardList[i] = block_reward(Mined[i].number) /\ RewardList[i] \in Nat
    <2> SUFFICES ASSUME NEW i \in 1..m
                 PROVE  /\ FeeList[i] = Fees(Mined[i].txs) /\ FeeList[i] \in Nat
                        /\ RewardList[i] = block_reward(Mined[i].number) /\ RewardList[i] \in Nat
        OBVIOUS
    <2>1. FeeList[i] = Fees(Mined[i].txs) /\ RewardList[i] = block_reward(Mined[i].number)
        BY <1>2 DEF FeeList, RewardList
    <2>2. Fees(Mined[i].txs) \in Nat /\ block_reward(Mined[i].number) \in Nat
        BY <1>3, FeesTyped, RewardTyped
    <2> QED BY <2>1, <2>2
<1>5. Sum(balances) + Total(FeeList, m) = granted.sum + Total(RewardList, m)
    BY <1>2 DEF SupplyConserved, FeeList, RewardList
<1>6. Total(FeeList, m) \in Nat /\ Total(RewardList, m) \in Nat /\ granted.sum \in Nat
    <2>1. \A i \in 1..m : FeeList[i] \in Nat
        BY <1>4
    <2>2. \A i \in 1..m : RewardList[i] \in Nat
        BY <1>4
    <2> QED BY <1>1, <2>1, <2>2, TotalNat DEF ChainInv
<1>7. CASE \E b : Grown(b)
    <2>1. PICK b : Grown(b)
        BY <1>7
    <2>2. /\ Len(chain') = Len(chain) + 1 /\ chain'[Len(chain) + 1] = b
          /\ \A i \in 1..Len(chain) : chain'[i] = chain[i]
          /\ \E T : chain' \in Seq(T)
        BY <2>1, GrownChain
    <2> DEFINE n == m + 1
    <2>3. n = Len(chain') - 1 /\ n = Len(chain) /\ n \in 1..n
        BY <1>1, <2>2 DEF m
    <2>4. Len(Mined') = n /\ DOMAIN Mined' = 1..n /\ \A i \in 1..n : Mined'[i] = chain'[i + 1]
        <3>1. PICK T : chain' \in Seq(T)
            BY <2>2
        <3>2. Len(chain') >= 1
            BY <1>1, <2>2
        <3> HIDE DEF n
        <3> QED BY <2>3, <3>1, <3>2, MinedFacts DEF Mined
    <2>5. \A i \in 1..m : Mined'[i] = Mined[i]
        <3> SUFFICES ASSUME NEW i \in 1..m PROVE Mined'[i] = Mined[i]
            OBVIOUS
        <3>1. i \in 1..n /\ i + 1 \in 1..Len(chain)
            BY <1>1 DEF m
        <3>2. Mined'[i] = chain'[i + 1] /\ chain'[i + 1] = chain[i + 1] /\ Mined[i] = chain[i + 1]
            <4> HIDE DEF n
            <4> QED BY <1>2, <2>2, <2>4, <3>1
        <3> QED BY <3>2
    <2>6. Mined'[n] = b
        BY <2>2, <2>3, <2>4
    <2>7. /\ Sum(balances') + Fees(b.txs) = Sum(balances) + block_reward(b.number)
          /\ Sum(balances') \in Int /\ Sum(balances) \in Int
          /\ Fees(b.txs) \in Nat /\ block_reward(b.number) \in Nat
        BY <2>1, GrownSupply
    <2>8. FeeList'[n] = Fees(b.txs) /\ RewardList'[n] = block_reward(b.number)
        BY <2>3, <2>4, <2>6 DEF FeeList, RewardList
    <2>9. \A i \in 1..m : FeeList'[i] = FeeList[i] /\ RewardList'[i] = RewardList[i]
        <3> SUFFICES ASSUME NEW i \in 1..m PROVE FeeList'[i] = FeeList[i] /\ RewardList'[i] = RewardList[i]
            OBVIOUS
        <3>1. i \in 1..n
            BY <1>1
        <3>2. FeeList'[i] = Fees(Mined'[i].txs) /\ RewardList'[i] = block_reward(Mined'[i].number)
            BY <2>4, <3>1 DEF FeeList, RewardList
        <3> QED BY <1>4, <2>5, <3>2
    <2>10. Total(FeeList', n) = Total(FeeList, m) + Fees(b.txs)
        <3>1. Numbers(FeeList, m) /\ FeeList'[n] \in Int /\ \A i \in 1..m : FeeList'[i] = FeeList[i]
            BY <1>4, <2>7, <2>8, <2>9 DEF Numbers
        <3>2. Total(FeeList', n) = Total(FeeList, m) + FeeList'[n]
            BY <1>1, <3>1, TotalGrown
        <3> QED BY <2>8, <3>2
    <2>11. Total(RewardList', n) = Total(RewardList, m) + block_reward(b.number)
        <3>1. Numbers(RewardList, m) /\ RewardList'[n] \in Int /\ \A i \in 1..m : RewardList'[i] = RewardList[i]
            BY <1>4, <2>7, <2>8, <2>9 DEF Numbers
        <3>2. Total(RewardList', n) = Total(RewardList, m) + RewardList'[n]
            BY <1>1, <3>1, TotalGrown
        <3> QED BY <2>8, <3>2
    <2>12. granted' = granted
        BY <2>1 DEF Grown
    <2> HIDE DEF n
    <2>13. Sum(balances') + Total(FeeList', n) = granted'.sum + Total(RewardList', n)
        BY <1>5, <1>6, <2>7, <2>10, <2>11, <2>12
    <2> QED BY <2>4, <2>13 DEF SupplyConserved, FeeList, RewardList
<1>8. CASE \E a, v : Credited(a, v)
    <2>1. PICK a, v : Credited(a, v)
        BY <1>8
    <2>2. /\ chain' = chain /\ a \in Address /\ v \in 0..MaxU128 /\ balances' = [balances EXCEPT ![a] = v]
          /\ granted'.sum = granted.sum + (v - balances[a])
        BY <2>1 DEF Credited
    <2>3. balances \in [Address -> Int] /\ v \in Int /\ balances[a] \in Int
        <3>1. balances \in [Address -> 0..MaxU128] /\ MaxU128 \in Nat
            BY LedgerAssumption DEF ChainInv, LiveState, StateType
        <3> QED BY <2>2, <3>1
    <2>4. Sum([balances EXCEPT ![a] = v]) = Sum(balances) + (v - balances[a]) /\ Sum(balances) \in Int
        BY <2>2, <2>3, SumUpdate
    <2>5. Sum(balances') + Total(FeeList, m) = granted'.sum + Total(RewardList, m)
        BY <1>5, <1>6, <2>2, <2>3, <2>4
    <2>6. Mined' = Mined
        BY <2>2 DEF Mined
    <2> QED BY <1>2, <2>5, <2>6 DEF SupplyConserved, FeeList, RewardList
<1>9. CASE Still
    BY <1>9 DEF Still, SupplyConserved, Mined
<1> QED BY <1>7, <1>8, <1>9, Steps

LEMMA SupplyInit == ASSUME Init PROVE SupplyConserved
<1>1. chain = <<genesis_block>> /\ granted.sum = 0 /\ balances = [a \in Address |-> 0]
    BY DEF Init, EmptyState
<1>2. Len(Mined) = 0
    BY <1>1 DEF Mined
<1>3. Sum(balances) = 0
    <2> DEFINE n == Cardinality(Address)
               order == SetToSeq(Address)
               g == [i \in 1..n |-> balances[order[i]]]
    <2>1. n \in Nat /\ order \in [1..n -> Address]
        BY Enumerated
    <2>2. Sum(balances) = Total(g, n)
        BY DEF Sum
    <2> HIDE DEF n, order
    <2>3. \A i \in 1..n : g[i] = 0
        BY <1>1, <2>1
    <2> HIDE DEF g
    <2> QED BY <2>1, <2>2, <2>3, TotalZeros
<1>4. Total([i \in DOMAIN Mined |-> Fees(Mined[i].txs)], 0) = 0
      /\ Total([i \in DOMAIN Mined |-> block_reward(Mined[i].number)], 0) = 0
    BY TotalZero
<1> QED BY <1>1, <1>2, <1>3, <1>4 DEF SupplyConserved

(***************************************************************************)
(* For any transactions, pools, blocks and grants: the balances add up to  *)
(* the rewards and the airdrops less the fees.                             *)
(***************************************************************************)
THEOREM SupplyConservedHolds == Spec => []SupplyConserved
<1>1. Init => ChainInv /\ SupplyConserved
    BY ChainInit, SupplyInit
<1>2. ChainInv /\ SupplyConserved /\ [Next]_vars => ChainInv' /\ SupplyConserved'
    BY ChainStep, SupplyStep
<1> QED BY <1>1, <1>2, PTL DEF Spec

-----------------------------------------------------------------------------
\* The retarget along the chain.

LEMMA HasMost ==
    ASSUME NEW n \in Nat, n >= 1, NEW g, \A i \in 1..n : g[i] \in Nat
    PROVE  \E i \in 1..n : \A j \in 1..n : g[j] <= g[i]
<1> DEFINE Good(k) == \E i \in 1..k : \A j \in 1..k : g[j] <= g[i]
           Bad == {k \in 1..n : ~Good(k)}
<1>1. ASSUME Bad # {} PROVE FALSE
    <2>0. Bad \subseteq Nat
        OBVIOUS
    <2>1. PICK m \in Bad : \A k \in Bad : m <= k
        <3> HIDE DEF Bad
        <3> QED BY <1>1, <2>0, NatMin
    <2>2. m # 1
        <3>1. Good(1)
            <4>1. g[1] \in Nat /\ \A j \in 1..1 : j = 1
                OBVIOUS
            <4> QED BY <4>1
        <3> QED BY <2>1, <3>1
    <2>3. m - 1 \in 1..n /\ m - 1 \notin Bad /\ m \in 1..n
        <3>1. m \in 1..n
            BY <2>1
        <3>2. m - 1 \in 1..n /\ ~(m <= m - 1)
            BY <2>2, <3>1
        <3> HIDE DEF Bad
        <3> QED BY <2>1, <3>1, <3>2
    <2>4. PICK i \in 1..(m - 1) : \A j \in 1..(m - 1) : g[j] <= g[i]
        BY <2>3
    <2>5. g[i] \in Nat /\ g[m] \in Nat /\ \A j \in 1..m : j \in 1..(m - 1) \/ j = m
        BY <2>3
    <2>6. CASE g[m] <= g[i]
        <3>1. i \in 1..m /\ \A j \in 1..m : g[j] <= g[i]
            BY <2>3, <2>4, <2>5, <2>6
        <3> QED BY <2>1, <3>1
    <2>7. CASE ~(g[m] <= g[i])
        <3>1. m \in 1..m /\ \A j \in 1..m : g[j] <= g[m]
            <4> SUFFICES ASSUME NEW j \in 1..m PROVE g[j] <= g[m]
                BY <2>3
            <4>1. CASE j = m
                BY <2>5, <4>1
            <4>2. CASE j \in 1..(m - 1)
                <5>1. g[j] <= g[i] /\ g[j] \in Nat
                    BY <2>3, <2>4, <4>2
                <5> QED BY <2>5, <2>7, <5>1
            <4> QED BY <2>5, <4>1, <4>2
        <3> QED BY <2>1, <3>1
    <2> QED BY <2>6, <2>7
<1>2. n \in 1..n /\ n \notin Bad
    BY <1>1
<1> QED BY <1>2

\* Indices of the blocks whose difficulties a retarget for block i averages.
Span(i) == AtLeast(i - Window, 2)..(i - 1)

Floors == \A i \in 2..Len(chain) : chain[i].difficulty >= Floor

LEMMA LowerBound ==
    ASSUME NEW rate \in Nat, NEW x \in Nat, x = rate \/ x = (rate * 3) \div 4, NEW y \in Nat, y >= x,
           NEW lo \in Nat, (rate + 1) * MaxInterval >= lo * TargetTime
    PROVE  (y + 2) * 4 * MaxInterval >= lo * 3 * TargetTime
<1>0. MaxInterval \in Nat /\ TargetTime \in Nat
    BY RetargetAssumption
<1>1. 4 * (y + 2) >= 3 * (rate + 1)
    OBVIOUS
<1> DEFINE p == (y + 2) * 4
           q == 3 * (rate + 1)
           u == (rate + 1) * MaxInterval
           v == lo * TargetTime
<1>2. p \in Nat /\ q \in Nat /\ q <= p
    BY <1>1
<1>3. u \in Nat /\ v \in Nat /\ v <= u
    BY <1>0
<1>4. q * MaxInterval = 3 * u
    BY <1>0
<1>5. lo * 3 * TargetTime = 3 * v
    BY <1>0
<1>6. MaxInterval * q <= MaxInterval * p /\ MaxInterval * q = q * MaxInterval /\ MaxInterval * p = p * MaxInterval
    <2> HIDE DEF p, q
    <2> QED BY <1>0, <1>2, Scale
<1>7. p * MaxInterval \in Int /\ q * MaxInterval \in Int
    <2> HIDE DEF p, q
    <2> QED BY <1>0, <1>2
<1>8. p * MaxInterval >= lo * 3 * TargetTime
    <2> HIDE DEF p, q, u, v
    <2> QED BY <1>3, <1>4, <1>5, <1>6, <1>7
<1> QED BY <1>8

LEMMA UpperBound ==
    ASSUME NEW rate \in Nat, NEW x \in Nat, x = rate \/ x = (rate * 3) \div 4,
           NEW hi \in Nat, Floor <= hi, rate * MinInterval <= hi * TargetTime,
           hi * TargetTime <= MaxU64 * MinInterval
    PROVE  LET y == AtLeast(x, Floor)
           IN  /\ y \in Nat /\ y >= x /\ y >= Floor /\ y * MinInterval <= hi * TargetTime
               /\ y % (MaxU64 + 1) = y
<1> DEFINE y == AtLeast(x, Floor)
<1>0. MinInterval \in Nat /\ MinInterval >= 1 /\ MinInterval <= TargetTime /\ TargetTime \in Nat
      /\ Floor \in Nat /\ MaxU64 \in Nat
    BY RetargetAssumption, LedgerAssumption, SMTT(30)
<1>1. y \in Nat /\ y >= x /\ y >= Floor /\ (y = x \/ y = Floor)
    BY <1>0 DEF AtLeast
<1> HIDE DEF y
<1>2. x <= rate
    OBVIOUS
<1>3. x * MinInterval <= hi * TargetTime
    <2>1. MinInterval * x <= MinInterval * rate /\ MinInterval * x = x * MinInterval
          /\ MinInterval * rate = rate * MinInterval /\ MinInterval * x \in Int /\ MinInterval * rate \in Int
        BY <1>0, <1>2, Scale
    <2>2. hi * TargetTime \in Int
        BY <1>0
    <2> QED BY <2>1, <2>2
<1>4. Floor * MinInterval <= hi * TargetTime
    <2>1. MinInterval * Floor <= MinInterval * hi /\ MinInterval * Floor = Floor * MinInterval
          /\ MinInterval * hi = hi * MinInterval /\ MinInterval * Floor \in Int /\ MinInterval * hi \in Int
        BY <1>0, Scale
    <2>2. hi * MinInterval <= hi * TargetTime /\ hi * TargetTime \in Int
        BY <1>0, Scale
    <2> QED BY <2>1, <2>2
<1>5. y * MinInterval <= hi * TargetTime
    BY <1>1, <1>3, <1>4
<1>6. y <= MaxU64
    <2>1. CASE MaxU64 + 1 <= y
        <3>1. MinInterval * (MaxU64 + 1) <= MinInterval * y /\ MinInterval * y = y * MinInterval
              /\ MinInterval * y \in Int
            BY <1>0, <1>1, <2>1, Scale
        <3>2. MinInterval * (MaxU64 + 1) = MaxU64 * MinInterval + MinInterval /\ MaxU64 * MinInterval \in Int
            BY <1>0
        <3>3. hi * TargetTime \in Int
            BY <1>0
        <3> QED BY <1>0, <1>5, <3>1, <3>2, <3>3
    <2> QED BY <1>0, <1>1, <2>1
<1>7. y % (MaxU64 + 1) = y
    BY <1>0, <1>1, <1>6
<1> QED BY <1>1, <1>5, <1>7 DEF y

LEMMA NextBounds ==
    ASSUME ChainInv, Headroom, Floors, Len(chain) >= 2, NEW now,
           NEW lo \in Nat, NEW hi \in Nat,
           \A j \in Span(Len(chain) + 1) : lo <= chain[j].difficulty /\ chain[j].difficulty <= hi,
           \E j \in Span(Len(chain) + 1) : hi = chain[j].difficulty
    PROVE  LET d == calculate_next_difficulty(collect_ancestor_window, now)
           IN  /\ d >= Floor
               /\ d * MinInterval <= hi * TargetTime
               /\ (d + 2) * 4 * MaxInterval >= lo * 3 * TargetTime
<1> DEFINE n == Len(chain)
           first == AtLeast(n - Window, 1)
           w == collect_ancestor_window
<1>0. n \in Nat /\ n >= 2 /\ DOMAIN chain = 1..n /\ Window \in Nat /\ Window >= 1
    BY TipFacts, RetargetAssumption
<1>1. /\ first \in 1..n /\ Len(w) = n - first + 1 /\ Blocks(w)
      /\ \A i \in 1..Len(w) : w[i] = chain[first + i - 1]
    BY WindowFacts
<1>2. /\ first <= n - 1 /\ AtLeast((n + 1) - Window, 2) = first + 1
    BY <1>0 DEF AtLeast
<1> HIDE DEF n, first, w
<1>3. Len(w) >= 2 /\ Len(w) \in Nat
    BY <1>0, <1>1, <1>2
<1>4. Span(n + 1) = (first + 1)..n
    BY <1>0, <1>2 DEF Span
<1>5. \A i \in 2..Len(w) : lo <= w[i].difficulty /\ w[i].difficulty <= hi
    <2> SUFFICES ASSUME NEW i \in 2..Len(w) PROVE lo <= w[i].difficulty /\ w[i].difficulty <= hi
        OBVIOUS
    <2>1. i \in 1..Len(w) /\ first + i - 1 \in (first + 1)..n
        BY <1>0, <1>1, <1>3
    <2>2. w[i] = chain[first + i - 1]
        BY <1>1, <2>1
    <2> QED BY <1>4, <2>1, <2>2 DEF n
<1>6. PICK rate \in Nat, x \in Nat :
              /\ x = rate \/ x = (rate * 3) \div 4
              /\ calculate_next_difficulty(w, now) = AtLeast(x, Floor) % (MaxU64 + 1)
              /\ Within(rate, w)
    BY <1>1, <1>3, Retarget
<1>7. rate * MinInterval <= hi * TargetTime /\ (rate + 1) * MaxInterval >= lo * TargetTime
    BY <1>5, <1>6 DEF Within
<1>8. Floor <= hi /\ hi * TargetTime <= MaxU64 * MinInterval
    <2>1. PICK j \in (first + 1)..n : hi = chain[j].difficulty
        BY <1>4 DEF n
    <2>2. j \in 2..n /\ j \in 1..n
        BY <1>0, <1>1
    <2>3. chain[j].difficulty >= Floor /\ chain[j].difficulty * TargetTime <= MaxU64 * MinInterval
        BY <1>0, <2>2 DEF Floors, Headroom, n
    <2>4. Floor \in Nat
        BY RetargetAssumption
    <2> QED BY <2>1, <2>3, <2>4
<1> DEFINE y == AtLeast(x, Floor)
<1>9. /\ y \in Nat /\ y >= x /\ y >= Floor /\ y * MinInterval <= hi * TargetTime
      /\ y % (MaxU64 + 1) = y
    BY <1>6, <1>7, <1>8, UpperBound
<1>10. calculate_next_difficulty(w, now) = y
    BY <1>6, <1>9
<1> HIDE DEF y
<1>11. (y + 2) * 4 * MaxInterval >= lo * 3 * TargetTime
    BY <1>6, <1>7, <1>9, LowerBound
<1> QED BY <1>9, <1>10, <1>11 DEF w

\* The largest and the smallest of those difficulties.
LEMMA SpanExtremes ==
    ASSUME ChainInv, NEW i \in 3..(Len(chain) + 1)
    PROVE  /\ \E k \in Span(i) : \A j \in Span(i) : chain[j].difficulty <= chain[k].difficulty
           /\ \E k \in Span(i) : \A j \in Span(i) : chain[j].difficulty >= chain[k].difficulty
           /\ \A j \in Span(i) : chain[j].difficulty \in Nat /\ j \in 2..Len(chain)
<1> DEFINE first == AtLeast(i - Window, 2)
           n == i - first
           g == [k \in 1..n |-> chain[first + k - 1].difficulty]
<1>0. Len(chain) \in Nat /\ Window \in Nat /\ Window >= 1
    BY TipFacts, RetargetAssumption
<1>1. first \in Nat /\ first >= 2 /\ first <= i - 1 /\ n \in Nat /\ n >= 1
    BY <1>0 DEF AtLeast
<1>2. Span(i) = first..(i - 1)
    BY DEF Span
<1> HIDE DEF first
<1>3. ASSUME NEW j \in Span(i)
      PROVE  /\ chain[j].difficulty \in Nat /\ j \in 2..Len(chain)
             /\ (j - first) + 1 \in 1..n /\ g[(j - first) + 1] = chain[j].difficulty
    <2>1. j \in 2..Len(chain) /\ j \in 1..Len(chain) /\ (j - first) + 1 \in 1..n /\ first + ((j - first) + 1) - 1 = j
        BY <1>0, <1>1, <1>2
    <2>2. chain[j].difficulty \in Nat
        BY <2>1 DEF ChainInv, Block
    <2>3. g[(j - first) + 1] = chain[j].difficulty
        BY <2>1
    <2> QED BY <2>1, <2>2, <2>3
<1>4. ASSUME NEW k \in 1..n
      PROVE  first + k - 1 \in Span(i) /\ g[k] = chain[first + k - 1].difficulty /\ g[k] \in Nat
    <2>1. first + k - 1 \in Span(i)
        BY <1>0, <1>1, <1>2
    <2>2. g[k] = chain[first + k - 1].difficulty
        OBVIOUS
    <2> QED BY <1>3, <2>1, <2>2
<1> HIDE DEF g, n
<1>5. PICK k \in 1..n : \A j \in 1..n : g[j] <= g[k]
    BY <1>1, <1>4, HasMost
<1>6. \A j \in Span(i) : chain[j].difficulty <= chain[first + k - 1].difficulty
    BY <1>3, <1>4, <1>5
<1> DEFINE T == {chain[j].difficulty : j \in Span(i)}
<1>7. T \subseteq Nat /\ T # {}
    <2>1. 1 \in 1..n
        BY <1>1
    <2>2. first + 1 - 1 \in Span(i)
        BY <1>4, <2>1
    <2> QED BY <1>3, <2>2
<1>8. PICK l \in T : \A e \in T : l <= e
    <2> HIDE DEF T
    <2> QED BY <1>7, NatMin
<1>9. PICK m \in Span(i) : l = chain[m].difficulty
    BY <1>8
<1>10. \A j \in Span(i) : chain[j].difficulty >= chain[m].difficulty
    <2> SUFFICES ASSUME NEW j \in Span(i) PROVE chain[j].difficulty >= chain[m].difficulty
        OBVIOUS
    <2>1. chain[j].difficulty \in T
        OBVIOUS
    <2>2. l <= chain[j].difficulty
        <3> HIDE DEF T
        <3> QED BY <1>8, <2>1
    <2>3. chain[j].difficulty \in Nat /\ chain[m].difficulty \in Nat
        BY <1>3
    <2> QED BY <1>9, <2>2, <2>3
<1>11. first + k - 1 \in Span(i)
    BY <1>4
<1> QED BY <1>3, <1>6, <1>9, <1>10, <1>11

LEMMA NextFloor ==
    ASSUME ChainInv, Headroom, Floors, NEW now
    PROVE  calculate_next_difficulty(collect_ancestor_window, now) >= Floor
<1> DEFINE n == Len(chain)
           first == AtLeast(n - Window, 1)
           w == collect_ancestor_window
<1>0. n \in Nat /\ n >= 1 /\ Floor \in Nat /\ Window \in Nat /\ Window >= 1
    BY TipFacts, RetargetAssumption DEF ChainInv
<1>1. CASE n = 1
    <2>1. first \in 1..n /\ Len(w) = n - first + 1
        BY WindowFacts
    <2>2. Len(w) < 2
        <3> HIDE DEF first, w
        <3> QED BY <1>1, <2>1
    <2>3. calculate_next_difficulty(w, now) = Floor
        BY <2>2 DEF calculate_next_difficulty
    <2> QED BY <1>0, <2>3
<1>2. CASE n >= 2
    <2>1. PICK hi \in Nat, lo \in Nat :
              /\ \A j \in Span(n + 1) : lo <= chain[j].difficulty /\ chain[j].difficulty <= hi
              /\ \E j \in Span(n + 1) : hi = chain[j].difficulty
        <3>1. n + 1 \in 3..(n + 1)
            BY <1>0, <1>2
        <3>2. PICK k \in Span(n + 1) : \A j \in Span(n + 1) : chain[j].difficulty <= chain[k].difficulty
            BY <3>1, SpanExtremes
        <3>3. PICK l \in Span(n + 1) : \A j \in Span(n + 1) : chain[j].difficulty >= chain[l].difficulty
            BY <3>1, SpanExtremes
        <3>4. \A j \in Span(n + 1) : chain[j].difficulty \in Nat
            BY <3>1, SpanExtremes
        <3>5. chain[k].difficulty \in Nat /\ chain[l].difficulty \in Nat
            BY <3>4
        <3>6. \A j \in Span(n + 1) : chain[l].difficulty <= chain[j].difficulty
            BY <3>3, <3>4
        <3> QED BY <3>2, <3>5, <3>6
    <2> QED BY <1>2, <2>1, NextBounds
<1> HIDE DEF n
<1>3. n = 1 \/ n >= 2
    BY <1>0
<1> QED BY <1>1, <1>2, <1>3

(***************************************************************************)
(* The bounds for one block, with the difficulties it follows as a set.    *)
(***************************************************************************)
Most(recent) == CHOOSE d \in recent : \A e \in recent : e <= d
Least(recent) == CHOOSE d \in recent : \A e \in recent : e >= d

Bounded(d, recent) ==
    /\ d >= Floor
    /\ d * MinInterval <= Most(recent) * TargetTime
    /\ (d + 2) * 4 * MaxInterval >= Least(recent) * 3 * TargetTime

Recent(i) == {chain[j].difficulty : j \in Span(i)}

LEMMA BoundedForm ==
    RetargetBounded <=> \A i \in 3..Len(chain) : Bounded(chain[i].difficulty, Recent(i))
BY Zenon DEF RetargetBounded, Bounded, Most, Least, Recent, Span

LEMMA NextBounded ==
    ASSUME ChainInv, Headroom, Floors, Len(chain) >= 2, NEW now
    PROVE  Bounded(calculate_next_difficulty(collect_ancestor_window, now), Recent(Len(chain) + 1))
<1> DEFINE i == Len(chain) + 1
           R == Recent(i)
<1>0. i \in 3..(Len(chain) + 1)
    BY TipFacts
<1> HIDE DEF i
<1>1. /\ \E k \in Span(i) : \A j \in Span(i) : chain[j].difficulty <= chain[k].difficulty
      /\ \E k \in Span(i) : \A j \in Span(i) : chain[j].difficulty >= chain[k].difficulty
      /\ \A j \in Span(i) : chain[j].difficulty \in Nat
    BY <1>0, SpanExtremes
<1>2. (\E d \in R : \A e \in R : e <= d) /\ (\E d \in R : \A e \in R : e >= d) /\ R \subseteq Nat
    BY <1>1 DEF Recent
<1>3. \A j \in Span(i) : chain[j].difficulty \in R
    BY DEF Recent
<1>4. \A d \in R : \E j \in Span(i) : d = chain[j].difficulty
    BY DEF Recent
<1> HIDE DEF R
<1>5. Most(R) \in R /\ \A e \in R : e <= Most(R)
    BY <1>2, Zenon DEF Most
<1>6. Least(R) \in R /\ \A e \in R : e >= Least(R)
    BY <1>2, Zenon DEF Least
<1>7. Most(R) \in Nat /\ Least(R) \in Nat /\ \E j \in Span(i) : Most(R) = chain[j].difficulty
    BY <1>2, <1>4, <1>5, <1>6
<1>8. \A j \in Span(i) : Least(R) <= chain[j].difficulty /\ chain[j].difficulty <= Most(R)
    <2> SUFFICES ASSUME NEW j \in Span(i) PROVE Least(R) <= chain[j].difficulty /\ chain[j].difficulty <= Most(R)
        OBVIOUS
    <2>1. chain[j].difficulty \in R /\ chain[j].difficulty \in Nat
        BY <1>1, <1>3
    <2> QED BY <1>5, <1>6, <1>7, <2>1
<1> DEFINE d == calculate_next_difficulty(collect_ancestor_window, now)
<1>9. /\ d >= Floor /\ d * MinInterval <= Most(R) * TargetTime
      /\ (d + 2) * 4 * MaxInterval >= Least(R) * 3 * TargetTime
    BY <1>7, <1>8, NextBounds DEF i
<1> QED BY <1>9 DEF Bounded, i, R

LEMMA RetargetInit == ASSUME Init PROVE Floors /\ RetargetBounded
<1>1. Len(chain) = 1
    BY DEF Init
<1>2. Floors
    BY <1>1 DEF Floors
<1>3. \A i \in 3..Len(chain) : FALSE
    BY <1>1
<1> QED BY <1>2, <1>3, BoundedForm

LEMMA RetargetStep ==
    ASSUME ChainInv, Headroom, Floors, RetargetBounded, [Next]_vars
    PROVE  Floors' /\ RetargetBounded'
<1>1. CASE \E b : Grown(b)
    <2>1. PICK b : Grown(b)
        BY <1>1
    <2>20. PICK n : n = Len(chain)
        OBVIOUS
    <2>2. /\ Len(chain') = n + 1 /\ chain'[n + 1] = b
          /\ \A i \in 1..n : chain'[i] = chain[i]
        BY <2>1, <2>20, GrownChain
    <2>3. n \in Nat /\ n >= 1 /\ Window \in Nat
        BY <2>20, TipFacts, RetargetAssumption DEF ChainInv
    <2>4. b.difficulty = calculate_next_difficulty(collect_ancestor_window, b.timestamp)
        BY <2>1, Passes DEF Grown
    <2>5. b.difficulty >= Floor
        BY <2>4, NextFloor
    <2>6. Floors'
        <3> SUFFICES ASSUME NEW i \in 2..Len(chain') PROVE chain'[i].difficulty >= Floor
            BY DEF Floors
        <3>1. CASE i = n + 1
            BY <2>2, <2>5, <3>1
        <3>2. CASE i \in 2..n
            <4>1. chain[i].difficulty >= Floor /\ chain'[i] = chain[i]
                BY <2>2, <2>3, <2>20, <3>2 DEF Floors
            <4> QED BY <4>1
        <3> QED BY <2>2, <2>3, <3>1, <3>2
    <2>7. ASSUME NEW i \in 3..(n + 1) PROVE Recent(i)' = Recent(i)
        <3>1. \A j \in Span(i) : j \in 1..n
            BY <2>3 DEF Span, AtLeast
        <3>2. \A j \in Span(i) : chain'[j].difficulty = chain[j].difficulty
            BY <2>2, <3>1
        <3>3. Recent(i)' = {chain'[j].difficulty : j \in Span(i)}
            BY DEF Recent, Span
        <3> QED BY <3>2, <3>3 DEF Recent
    <2>8. ASSUME NEW i \in 3..Len(chain') PROVE Bounded(chain'[i].difficulty, Recent(i)')
        <3>1. CASE i = n + 1
            <4>1. Bounded(b.difficulty, Recent(n + 1))
                BY <2>3, <2>4, <2>20, <3>1, NextBounded
            <4>2. n + 1 \in 3..(n + 1)
                BY <2>3, <3>1
            <4> QED BY <2>2, <2>7, <3>1, <4>1, <4>2
        <3>2. CASE i \in 3..n
            <4>1. Bounded(chain[i].difficulty, Recent(i))
                BY <2>20, <3>2, BoundedForm
            <4>2. chain'[i] = chain[i] /\ i \in 3..(n + 1)
                BY <2>2, <2>3, <3>2
            <4> QED BY <2>7, <4>1, <4>2
        <3> QED BY <2>2, <2>3, <3>1, <3>2
    <2>9. RetargetBounded'
        BY <2>8, Zenon DEF RetargetBounded, Bounded, Most, Least, Recent, Span
    <2> QED BY <2>6, <2>9
<1>4. ASSUME chain' = chain PROVE Floors' /\ RetargetBounded'
    <2>1. Floors'
        BY <1>4 DEF Floors
    <2>2. \A i \in 3..Len(chain) : Bounded(chain[i].difficulty, Recent(i))
        BY BoundedForm
    <2>3. \A i \in 3..Len(chain') : Bounded(chain'[i].difficulty, Recent(i)')
        BY <1>4, <2>2 DEF Recent, Span
    <2>4. RetargetBounded'
        BY <2>3, Zenon DEF RetargetBounded, Bounded, Most, Least, Recent, Span
    <2> QED BY <2>1, <2>4
<1>2. CASE \E a, v : Credited(a, v)
    BY <1>2, <1>4 DEF Credited
<1>3. CASE Still
    BY <1>3, <1>4 DEF Still
<1> QED BY <1>1, <1>2, <1>3, Steps

(***************************************************************************)
(* For any timestamps the miners choose, and any window, clamps and floor: *)
(* as long as no difficulty comes within the ratio of the clamps of the    *)
(* largest 64-bit number, each is at least the floor and within the bounds *)
(* of the ones it follows.                                                 *)
(***************************************************************************)
THEOREM RetargetBoundedHolds == Spec /\ []Headroom => []RetargetBounded
<1>1. Init => ChainInv /\ Floors /\ RetargetBounded
    BY ChainInit, RetargetInit
<1>2. ChainInv /\ Headroom /\ Floors /\ RetargetBounded /\ [Next]_vars
         => ChainInv' /\ Floors' /\ RetargetBounded'
    BY ChainStep, RetargetStep
<1> QED BY <1>1, <1>2, PTL DEF Spec

-----------------------------------------------------------------------------
\* The candidate.

(***************************************************************************)
(* Transactions that execute one after the other have different ids, and   *)
(* none is a coinbase.                                                     *)
(***************************************************************************)
LEMMA RootInjective ==
    ASSUME NEW b, b.number # 0, b.coinbase = [kind |-> "coinbase", height |-> b.number],
           b.txs \in Seq(Tx), NEW st, NEW s, Path(s, b.txs, st)
    PROVE  IsInjective(compute_tx_root(b))
<1> DEFINE txs == b.txs
           c == b.coinbase
           ids == [i \in DOMAIN txs |-> canonical_tx_id(txs[i])]
           S == {c} \cup {canonical_tx_id(t) : t \in Tx}
           root == <<c>> \o ids
<1>0. Len(txs) \in Nat /\ DOMAIN txs = 1..Len(txs) /\ \A i \in 1..Len(txs) : txs[i] \in Tx /\ txs[i] \in TxType
    BY LedgerAssumption
<1>1. ids \in Seq(S) /\ Len(ids) = Len(txs) /\ \A i \in 1..Len(txs) : ids[i] = canonical_tx_id(txs[i])
    <2>1. ids \in [1..Len(txs) -> S]
        BY <1>0
    <2>2. ids \in Seq(S)
        BY <1>0, <2>1
    <2> QED BY <1>0, <2>2
<1>2. <<c>> \in Seq(S) /\ Len(<<c>>) = 1 /\ <<c>>[1] = c
    OBVIOUS
<1>3. compute_tx_root(b) = root
    BY DEF compute_tx_root
<1> HIDE DEF ids, S, txs, c
<1>4. /\ DOMAIN root = 1..(Len(txs) + 1) /\ root[1] = c
      /\ \A i \in 2..(Len(txs) + 1) : root[i] = ids[i - 1]
    <2>1. /\ root \in Seq(S) /\ Len(root) = 1 + Len(txs)
          /\ \A i \in 1..(1 + Len(txs)) : root[i] = IF i <= 1 THEN <<c>>[i] ELSE ids[i - 1]
        BY <1>1, <1>2, ConcatProperties
    <2> HIDE DEF root
    <2> QED BY <1>0, <1>2, <2>1, SMTT(30)
<1> HIDE DEF root
<1>5. ASSUME NEW t \in TxType
      PROVE  /\ canonical_tx_id(t) \in TxType
             /\ canonical_tx_id(t).sender = t.sender /\ canonical_tx_id(t).nonce = t.nonce
    BY DEF canonical_tx_id, TxType
<1>6. ASSUME NEW i \in 1..Len(txs) PROVE ids[i] # c
    <2>1. ids[i] \in TxType
        BY <1>0, <1>1, <1>5
    <2>2. "nonce" \in DOMAIN ids[i]
        BY <2>1 DEF TxType
    <2>3. DOMAIN c = {"kind", "height"}
        BY DEF c
    <2>4. "nonce" \notin DOMAIN c
        BY <2>3
    <2> QED BY <2>2, <2>4
<1>7. ASSUME NEW i \in 1..Len(txs), NEW j \in 1..Len(txs), i < j PROVE ids[i] # ids[j]
    <2> SUFFICES ASSUME ids[i] = ids[j] PROVE FALSE
        OBVIOUS
    <2>1. txs[i].sender = txs[j].sender /\ txs[i].nonce = txs[j].nonce
        <3>1. canonical_tx_id(txs[i]) = canonical_tx_id(txs[j])
            BY <1>1
        <3>2. /\ canonical_tx_id(txs[i]).sender = txs[i].sender /\ canonical_tx_id(txs[i]).nonce = txs[i].nonce
              /\ canonical_tx_id(txs[j]).sender = txs[j].sender /\ canonical_tx_id(txs[j]).nonce = txs[j].nonce
            BY <1>0, <1>5
        <3> QED BY <3>1, <3>2
    <2>2. Moved(s[i - 1], txs[i], s[i]) /\ txs \in Seq(Tx)
        BY PathStep DEF txs
    <2>3. txs[i].sender \in Address
        BY <2>2 DEF Moved
    <2>4. Ordered(txs, Len(txs), txs[i].sender, st.nonces[txs[i].sender], s[Len(txs)].nonces[txs[i].sender])
        BY <2>2, <2>3, PathOrdered DEF txs
    <2>5. txs[i].nonce < txs[j].nonce
        BY <1>7, <2>1, <2>4 DEF Ordered
    <2>6. txs[i].nonce \in Nat /\ txs[j].nonce \in Nat
        BY <1>0, TxTyped
    <2> QED BY <2>1, <2>5, <2>6
<1>8. ASSUME NEW x \in DOMAIN root, NEW y \in DOMAIN root, root[x] = root[y] PROVE x = y
    <2>0. x \in 1..(Len(txs) + 1) /\ y \in 1..(Len(txs) + 1)
        BY <1>4
    <2>1. CASE x = 1 /\ y # 1
        <3>1. y - 1 \in 1..Len(txs) /\ y \in 2..(Len(txs) + 1)
            BY <1>0, <2>0, <2>1
        <3> QED BY <1>4, <1>6, <1>8, <2>1, <3>1
    <2>2. CASE x # 1 /\ y = 1
        <3>1. x - 1 \in 1..Len(txs) /\ x \in 2..(Len(txs) + 1)
            BY <1>0, <2>0, <2>2
        <3> QED BY <1>4, <1>6, <1>8, <2>2, <3>1
    <2>3. CASE x # 1 /\ y # 1
        <3>1. /\ x - 1 \in 1..Len(txs) /\ x \in 2..(Len(txs) + 1)
              /\ y - 1 \in 1..Len(txs) /\ y \in 2..(Len(txs) + 1)
            BY <1>0, <2>0, <2>3
        <3>2. ids[x - 1] = ids[y - 1]
            BY <1>4, <1>8, <3>1
        <3>3. ~(x - 1 < y - 1) /\ ~(y - 1 < x - 1)
            BY <1>7, <3>1, <3>2
        <3> QED BY <2>0, <3>1, <3>3
    <2> QED BY <2>1, <2>2, <2>3
<1> QED BY <1>3, <1>8 DEF IsInjective

(***************************************************************************)
(* What build_candidate_for_tip leaves with the job, as long as the tip is *)
(* the one it was built on.                                                *)
(***************************************************************************)
JobSound(b, on) ==
    LET after == ApplyTo([why |-> "Ok", st |-> on], b)
    IN  /\ ~(b.weight > WeightLimit) /\ b.tx_root = compute_tx_root(b)
        /\ b.coinbase.kind = "coinbase" /\ b.coinbase.height = b.number
        /\ ~(b.timestamp <= tip.timestamp) /\ ~(b.difficulty < Floor)
        /\ b.difficulty = calculate_next_difficulty(collect_ancestor_window, b.timestamp)
        /\ ~(b.digest > difficulty_to_target(b.difficulty)) /\ b.claimed = b.digest
        /\ IsInjective(compute_tx_root(b))
        /\ Fine(after) /\ b.state_root = compute_state_root(after.st)

JobInv ==
    /\ job.blk.number <= Len(chain)
    /\ Mining /\ job.blk.number = Len(chain) => JobSound(job.blk, job.on)

LEMMA BuiltSound ==
    ASSUME ChainInv, Headroom, Floors, NEW txs \in Seq(Tx), Candidate(Own, txs).why = "Ok"
    PROVE  /\ JobSound(Candidate(Own, txs).blk, Live.st)
           /\ Candidate(Own, txs).blk.number = Len(chain)
<1> DEFINE b == Candidate(Own, txs).blk
           taken == SubSeq(txs, 1, AtMost(Len(txs), BlockTarget - 1))
           after == apply_coinbase_reward(execute_non_coinbase_txs(Live, taken), Own, tip.number + 1)
<1>0. Own \in Address
    BY LedgerAssumption
<1>1. /\ Block(b) /\ b.number = Len(chain) /\ b.number = tip.number + 1 /\ b.number # 0
      /\ b.timestamp = candidate_time /\ b.txs = taken /\ b.miner = Own
      /\ b.difficulty = calculate_next_difficulty(collect_ancestor_window, candidate_time)
      /\ b.coinbase = [kind |-> "coinbase", height |-> b.number]
      /\ b.weight = Len(taken) + 1 /\ b.digest = 0 /\ b.claimed = 0
      /\ b.tx_root = compute_tx_root(b)
      /\ b.state_root = compute_state_root(after.st) /\ Candidate(Own, txs).why = after.why
      /\ Len(taken) <= BlockTarget - 1 /\ taken \in Seq(Tx)
    BY <1>0, CandidateBlock
<1>2. ApplyTo(Live, b) = after
    BY <1>1 DEF ApplyTo
<1> HIDE DEF b, taken, after
<1>3. Live = [why |-> "Ok", st |-> Live.st] /\ Live \in Result
    BY LiveTyped
<1>4. Fine(ApplyTo([why |-> "Ok", st |-> Live.st], b))
      /\ b.state_root = compute_state_root(ApplyTo([why |-> "Ok", st |-> Live.st], b).st)
    BY <1>1, <1>2, <1>3 DEF Fine
<1>5. ~(b.weight > WeightLimit)
    <2>1. Len(taken) \in Nat /\ BlockTarget \in Nat /\ WeightLimit \in Nat /\ BlockTarget <= WeightLimit
        BY <1>1, RetargetAssumption
    <2> QED BY <1>1, <2>1
<1>6. ~(b.timestamp <= tip.timestamp)
    <2>1. tip.timestamp \in Nat /\ clock \in Nat
        BY TipFacts DEF ChainInv, Block
    <2> QED BY <1>1, <2>1 DEF candidate_time, AtLeast
<1>7. b.difficulty = calculate_next_difficulty(collect_ancestor_window, b.timestamp)
    BY <1>1
<1>8. ~(b.difficulty < Floor)
    <2>1. b.difficulty >= Floor
        BY <1>7, NextFloor
    <2>2. b.difficulty \in Nat /\ Floor \in Nat
        BY <1>1, RetargetAssumption DEF Block
    <2> QED BY <2>1, <2>2
<1>9. ~(b.digest > difficulty_to_target(b.difficulty)) /\ b.claimed = b.digest
    <2>1. difficulty_to_target(b.difficulty) \in Nat
        <3>1. b.difficulty \in Nat /\ MaxU64 \in Nat
            BY <1>1, LedgerAssumption DEF Block
        <3>2. AtLeast(b.difficulty, 1) \in Nat /\ AtLeast(b.difficulty, 1) > 0
            BY <3>1 DEF AtLeast
        <3> QED BY <3>1, <3>2, Quotient DEF difficulty_to_target
    <2> QED BY <1>1, <2>1
<1>10. IsInjective(compute_tx_root(b))
    <2>1. Fine(ApplyTo(Live, b))
        BY <1>3, <1>4
    <2>2. PICK s : Path(s, b.txs, Live.st)
        BY <1>1, <1>3, <2>1, ApplyResult
    <2> QED BY <1>1, <2>2, RootInjective
<1>11. b.coinbase.kind = "coinbase" /\ b.coinbase.height = b.number
    BY <1>1
<1>12. JobSound(b, Live.st)
    BY <1>1, <1>4, <1>5, <1>6, <1>7, <1>8, <1>9, <1>10, <1>11 DEF JobSound
<1> QED BY <1>1, <1>12 DEF b

LEMMA JobStep ==
    ASSUME ChainInv, Headroom, Floors, JobInv, [Next]_vars
    PROVE  JobInv'
<1>0. /\ Len(chain) \in Nat /\ Len(chain) >= 1 /\ job.blk.number \in Nat /\ genesis_block.number = 0
    BY TipFacts, GenesisBlock DEF ChainInv, Block
<1>1. chain' = chain \/ (Len(chain') = Len(chain) + 1)
    <2>1. CASE \E b : Grown(b)
        BY <2>1, GrownChain
    <2>2. CASE \E a, v : Credited(a, v)
        BY <2>2 DEF Credited
    <2>3. CASE Still
        BY <2>3 DEF Still
    <2> QED BY <2>1, <2>2, <2>3, Steps
<1>2. ASSUME job' = job PROVE JobInv'
    <2>1. CASE chain' = chain
        BY <1>2, <2>1 DEF JobInv, JobSound, Mining, tip, collect_ancestor_window
    <2>2. CASE Len(chain') = Len(chain) + 1
        <3>1. job'.blk.number <= Len(chain') /\ job'.blk.number # Len(chain')
            BY <1>0, <1>2, <2>2 DEF JobInv
        <3> QED BY <3>1 DEF JobInv
    <2> QED BY <1>1, <2>1, <2>2
<1>3. ASSUME job'.blk = genesis_block PROVE JobInv'
    <2>1. ~Mining'
        BY <1>3 DEF Mining
    <2>2. job'.blk.number <= Len(chain')
        BY <1>0, <1>1, <1>3
    <2> QED BY <2>1, <2>2 DEF JobInv
<1>4. ASSUME NEW s \in Selection, BuildCandidate(Own, s) PROVE JobInv'
    <2>1. s \in Seq(Tx)
        BY LedgerAssumption
    <2>2. /\ chain' = chain /\ Candidate(Own, s).why = "Ok"
          /\ job' = [blk |-> Candidate(Own, s).blk, on |-> Live.st]
        BY <1>4 DEF BuildCandidate
    <2>3. PICK b, on : b = Candidate(Own, s).blk /\ on = Live.st
        OBVIOUS
    <2>4. JobSound(b, on) /\ b.number = Len(chain)
        BY <2>1, <2>2, <2>3, BuiltSound
    <2>5. job'.blk = b /\ job'.on = on
        BY <2>2, <2>3
    <2>6. JobSound(b, on)'
        BY <2>2, <2>4 DEF JobSound, tip, collect_ancestor_window
    <2>7. JobSound(job.blk, job.on)'
        BY <2>5, <2>6 DEF JobSound
    <2>8. job'.blk.number <= Len(chain')
        BY <1>0, <2>2, <2>4, <2>5
    <2> QED BY <2>7, <2>8 DEF JobInv
<1>5. CASE UNCHANGED vars
    BY <1>2, <1>5 DEF vars
<1>6. CASE Next
    <2>1. CASE \E s \in Selection : BuildCandidate(Own, s)
        BY <1>4, <2>1
    <2>2. CASE \E d \in Digest : Solve(d)
        <3>1. job'.blk = genesis_block
            BY <2>2 DEF Solve
        <3> QED BY <1>3, <3>1
    <2>3. CASE Abandon
        <3>1. job'.blk = genesis_block
            BY <2>3 DEF Abandon
        <3> QED BY <1>3, <3>1
    <2>4. CASE \E b \in Offered : ReceiveBlock(b)
        <3>1. job' = job
            BY <2>4 DEF ReceiveBlock
        <3> QED BY <1>2, <3>1
    <2>5. CASE Tick
        BY <1>2, <2>5 DEF Tick
    <2>6. CASE \E a \in Address \cup {NoAddress}, n \in Grant : post_alpha_airdrop(a, n)
        <3>1. job' = job
            BY <2>6, Airdrop
        <3> QED BY <1>2, <3>1
    <2> QED BY <1>6, <2>1, <2>2, <2>3, <2>4, <2>5, <2>6 DEF Next
<1> QED BY <1>5, <1>6

LEMMA JobRight ==
    ASSUME ChainInv, JobInv
    PROVE  CandidateAccepted
<1> SUFFICES ASSUME Mining, job.blk.number = tip.number + 1, job.on = Live.st,
                    job.blk.timestamp <= clock + MaxFuture
             PROVE  apply_block_verdict(job.blk) = "Ok"
    BY DEF CandidateAccepted
<1> DEFINE b == job.blk
<1>1. job.blk.number = Len(chain)
    BY TipFacts
<1>2. JobSound(b, Live.st)
    BY <1>1 DEF JobInv
<1>3. Live = [why |-> "Ok", st |-> Live.st]
    BY LiveTyped
<1>4. ~(b.timestamp > clock + MaxFuture)
    <2>1. b.timestamp \in Nat /\ clock \in Nat /\ MaxFuture \in Nat
        BY LedgerAssumption DEF ChainInv, Block
    <2> QED BY <2>1
<1> HIDE DEF b
<1>5. /\ ~(b.weight > WeightLimit) /\ b.tx_root = compute_tx_root(b)
      /\ b.coinbase.kind = "coinbase" /\ b.coinbase.height = b.number
      /\ ~(b.timestamp <= tip.timestamp) /\ ~(b.difficulty < Floor)
      /\ b.difficulty = calculate_next_difficulty(collect_ancestor_window, b.timestamp)
      /\ ~(b.digest > difficulty_to_target(b.difficulty)) /\ b.claimed = b.digest
      /\ IsInjective(compute_tx_root(b))
      /\ Fine(ApplyTo(Live, b)) /\ b.state_root = compute_state_root(ApplyTo(Live, b).st)
    BY <1>2, <1>3 DEF JobSound
<1>6. apply_block_verdict(b) = "Ok"
    BY <1>4, <1>5, Zenon DEF apply_block_verdict
<1> QED BY <1>6 DEF b

LEMMA JobInit == ASSUME Init PROVE JobInv
<1>1. job.blk = genesis_block /\ Len(chain) = 1 /\ genesis_block.number = 0
    BY GenesisBlock DEF Init
<1> QED BY <1>1 DEF JobInv, Mining

(***************************************************************************)
(* For any pool and any clock, with the same room below the largest 64-bit *)
(* number: what the miner builds on the tip passes every stage of the      *)
(* validator.                                                              *)
(***************************************************************************)
THEOREM CandidateAcceptedHolds == Spec /\ []Headroom => []CandidateAccepted
<1>1. Init => ChainInv /\ Floors /\ RetargetBounded /\ JobInv
    BY ChainInit, RetargetInit, JobInit
<1>2. ChainInv /\ Headroom /\ Floors /\ RetargetBounded /\ JobInv /\ [Next]_vars
         => ChainInv' /\ Floors' /\ RetargetBounded' /\ JobInv'
    BY ChainStep, RetargetStep, JobStep
<1>3. ChainInv /\ JobInv => CandidateAccepted
    BY JobRight
<1> QED BY <1>1, <1>2, <1>3, PTL DEF Spec
=============================================================================
