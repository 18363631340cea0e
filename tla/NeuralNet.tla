----------------------------- MODULE NeuralNet -----------------------------
(***************************************************************************)
(* The feed-forward network of tsoding (mechine_learning/Matrix.h), as the  *)
(* programs beside it train it: rounds of back_prop and learn.              *)
(*                                                                          *)
(* Numbers are integers.  The activation is a parameter; of the sigmoid the *)
(* code uses only that a * (1 - a) is its derivative where its value is a.  *)
(* Costs and gradients are sums over the n samples, n times those of the    *)
(* code, and the rate is n.                                                 *)
(***************************************************************************)
EXTENDS Functions, Sequences, Integers

CONSTANTS
  arch,         \* size of each layer, the input first
  td,           \* training data: a matrix, a sample in each row
  sigmoidf(_),  \* the activation
  Random,       \* values random gives a parameter
  MaxParam      \* bound on the size of a parameter

NeuralNetAssumption ==
  /\ arch \in Seq(Nat \ {0}) /\ Len(arch) >= 2
  /\ td \in Seq(Seq(Int)) /\ \A i \in DOMAIN td : Len(td[i]) = arch[1] + arch[Len(arch)]
  /\ Random \subseteq Int /\ MaxParam \in Nat

VARIABLES
  ws, bs,    \* weights and biases of the network m
  gws, gbs,  \* those of the network g of the gradient
  graded     \* g is the outcome of back_prop for m

vars == <<ws, bs, gws, gbs, graded>>

count == Len(arch) - 1
Layers == 1..count
Matrices(rows, cols, S) == [1..rows -> [1..cols -> S]]

\* mat_sub: x rows and y columns, from row xt and column yt on.
mat_sub(m, x, y, xt, yt) == [i \in 1..x |-> [j \in 1..y |-> m[i + xt][j + yt]]]

n == Len(td)
ti == mat_sub(td, n, arch[1], 0, 0)
to == mat_sub(td, n, arch[count + 1], 0, arch[1])

\* The networks create makes, with entries in S.
Weights(S) == {w \in [Layers -> UNION {Matrices(arch[l], arch[l + 1], S) : l \in Layers}] :
                 \A l \in Layers : w[l] \in Matrices(arch[l], arch[l + 1], S)}
Biases(S) == {b \in [Layers -> UNION {[1..arch[l + 1] -> S] : l \in Layers}] :
                \A l \in Layers : b[l] \in [1..arch[l + 1] -> S]}
IsSmall(x) == x \in -MaxParam..MaxParam

Init == /\ ws \in Weights(Random) /\ bs \in Biases(Random)
        /\ gws \in Weights({0}) /\ gbs \in Biases({0})
        /\ graded = FALSE

-----------------------------------------------------------------------------
(* The operators of Matrix, for matrices of one row: a sequence. *)

mat_product(a, w) == [j \in DOMAIN w[1] |-> SumFunction([k \in DOMAIN w |-> a[k] * w[k][j]])]
mat_sum(a, b) == [j \in DOMAIN a |-> a[j] + b[j]]
mat_sig(m) == [j \in DOMAIN m |-> sigmoidf(m[j])]

\* forward: the activations of each layer, from those of the input.
forward(w, b, x) ==
  LET as[l \in 0..count] ==
        IF l = 0 THEN x ELSE mat_sig(mat_sum(mat_product(as[l - 1], w[l]), b[l]))
  IN as

\* The derivative of the activation j of a layer by what the neuron sums up.
Slope(as, l, j) == as[l][j] * (1 - as[l][j])

\* Mutant of Deltas: an activation keeps what the last neuron above it has
\* sent down.
DeltasOfLast(w, as, y) ==
  LET das[l \in 0..count] ==
        IF l = count THEN [j \in 1..arch[l + 1] |-> as[l][j] - y[j]]
        ELSE [k \in 1..arch[l + 1] |->
                LET j == arch[l + 2] IN 2 * das[l + 1][j] * Slope(as, l + 1, j) * w[l + 1][k][j]]
  IN das

\* What back_prop leaves in g.as for a sample, from the output down.
Deltas(w, as, y) ==
  LET das[l \in 0..count] ==
        IF l = count THEN [j \in 1..arch[l + 1] |-> as[l][j] - y[j]]
        ELSE [k \in 1..arch[l + 1] |-> SumFunction([j \in 1..arch[l + 2] |->
                2 * das[l + 1][j] * Slope(as, l + 1, j) * w[l + 1][k][j]])]
  IN das

back_prop ==
  LET as == [i \in 1..n |-> forward(ws, bs, ti[i])]
      das == [i \in 1..n |-> Deltas(ws, as[i], to[i])]
      sent(i, l, j) == 2 * das[i][l][j] * Slope(as[i], l, j)
  IN /\ ~graded
     /\ gbs' = [l \in Layers |-> [j \in 1..arch[l + 1] |->
                  SumFunction([i \in 1..n |-> sent(i, l, j)])]]
     /\ gws' = [l \in Layers |-> [k \in 1..arch[l] |-> [j \in 1..arch[l + 1] |->
                  SumFunction([i \in 1..n |-> sent(i, l, j) * as[i][l - 1][k]])]]]
     /\ graded' = TRUE
     /\ UNCHANGED <<ws, bs>>

learn ==
  /\ graded
  /\ ws' = [l \in Layers |-> [k \in 1..arch[l] |-> [j \in 1..arch[l + 1] |->
              ws[l][k][j] - gws[l][k][j]]]]
  /\ bs' = [l \in Layers |-> [j \in 1..arch[l + 1] |-> bs[l][j] - gbs[l][j]]]
  /\ \A l \in Layers : \A j \in 1..arch[l + 1] :
       IsSmall(bs'[l][j]) /\ \A k \in 1..arch[l] : IsSmall(ws'[l][k][j])
  /\ graded' = FALSE
  /\ UNCHANGED <<gws, gbs>>

Next == back_prop \/ learn

Spec == Init /\ [][Next]_vars

-----------------------------------------------------------------------------
(* The gradient of the cost by the chain rule, from a parameter forward. *)

\* Derivatives of the output by a parameter of neuron q of layer p: its bias, or
\* its weight for neuron h of the layer below.
ByBias == 0
Derivatives(w, as, p, q, h) ==
  LET ds[l \in p..count] ==
        [j \in 1..arch[l + 1] |->
           Slope(as, l, j) *
             IF l = p
             THEN IF j # q THEN 0 ELSE IF h = ByBias THEN 1 ELSE as[l - 1][h]
             ELSE SumFunction([k \in 1..arch[l] |-> ds[l - 1][k] * w[l][k][j]])]
  IN ds[count]

Gradient(w, b, p, q, h) ==
  SumFunction([i \in 1..n |->
    LET as == forward(w, b, ti[i])
        ds == Derivatives(w, as, p, q, h) IN
      SumFunction([j \in 1..arch[count + 1] |-> 2 * (as[count][j] - to[i][j]) * ds[j]])])

\* 2 to the power i.
Power[i \in 0..count] == IF i = 0 THEN 1 ELSE 2 * Power[i - 1]

\* back_prop doubles at every layer on the way down, so its outcome is the
\* gradient of the cost in the last layer and, in each layer below, twice what
\* it is above: never another direction within a layer (Matrix.h:353-359).
GradientDoubledDown ==
  graded => \A l \in Layers : \A j \in 1..arch[l + 1] :
    /\ gbs[l][j] = Power[count - l] * Gradient(ws, bs, l, j, ByBias)
    /\ \A k \in 1..arch[l] : gws[l][k][j] = Power[count - l] * Gradient(ws, bs, l, j, k)
=============================================================================
