----------------------------- MODULE Perceptron -----------------------------
(***************************************************************************)
(* The perceptron of tsoding/neural_network.cpp: a layer of weights learns  *)
(* to tell rectangles from circles.  A rectangle that scores above BIAS is  *)
(* subtracted from the weights, a circle that scores below it is added.     *)
(* Inputs are 0 or 1, so a layer of inputs is the set of its cells and the  *)
(* weights are integers.                                                    *)
(***************************************************************************)
EXTENDS FiniteSetsExt, Integers

CONSTANTS
  WIDTH, HEIGHT, BIAS,
  MaxAdjust  \* bound: corrections

PerceptronAssumption == /\ WIDTH \in Nat \ {0} /\ HEIGHT \in Nat \ {0}
                        /\ BIAS \in Nat /\ MaxAdjust \in Nat

VARIABLES
  weights,
  added, subtracted,  \* circles and rectangles corrected, of which adjust is the sum
  sample,             \* the sample train_pass draws next: "rect" or "circle"
  area                \* history: cells of the samples corrected

vars == <<weights, added, subtracted, sample, area>>

Cells == (0..WIDTH - 1) \X (0..HEIGHT - 1)

Init == /\ weights = [c \in Cells |-> 0]
        /\ added = 0 /\ subtracted = 0
        /\ sample = "rect"
        /\ area = 0

-----------------------------------------------------------------------------
(* The samples. *)

clampi(x, low, high) == IF x < low THEN low ELSE IF x > high THEN high ELSE x

layer_fill_rect(x, y, w, h) ==
  LET x0 == clampi(x, 0, WIDTH - 1)
      y0 == clampi(y, 0, HEIGHT - 1)
      x1 == clampi(x0 + w - 1, 0, WIDTH - 1)
      y1 == clampi(y0 + h - 1, 0, HEIGHT - 1) IN
    (x0..x1) \X (y0..y1)

InDisc(c, cx, cy, r) ==
  (c[1] - cx) * (c[1] - cx) + (c[2] - cy) * (c[2] - cy) <= r * r

layer_fill_circle(cx, cy, r) ==
  LET box == (clampi(cx - r, 0, WIDTH - 1)..clampi(cx + r, 0, WIDTH - 1))
               \X (clampi(cy - r, 0, HEIGHT - 1)..clampi(cy + r, 0, HEIGHT - 1)) IN
    {c \in box : InDisc(c, cx, cy, r)}

\* What rand_range may return; low < high is asserted.
rand_range(low, high) == low..high - 1

AtLeastTwo(k) == IF k < 2 THEN 2 ELSE k

\* Corner and size of the rectangles drawn; centre and radius of the circles.
Rects == {q \in Cells \X (1..WIDTH) \X (1..HEIGHT) :
            /\ q[2] \in rand_range(1, AtLeastTwo(WIDTH - q[1][1]))
            /\ q[3] \in rand_range(1, AtLeastTwo(HEIGHT - q[1][2]))}

Circles == {q \in Cells \X (1..WIDTH) :
              q[2] \in rand_range(1, AtLeastTwo(Min({q[1][1], q[1][2],
                                                     WIDTH - q[1][1], HEIGHT - q[1][2]})))}

-----------------------------------------------------------------------------
feed_forward(inputs) == MapThenSumSet(LAMBDA c : weights[c], inputs)

Adjusted(inputs, by) == [c \in Cells |-> IF c \in inputs THEN weights[c] + by ELSE weights[c]]
add_inputs_to_weights(inputs) == Adjusted(inputs, 1)
sub_inputs_from_weights(inputs) == Adjusted(inputs, -1)

\* The first half of a turn of train_pass.
TrainRect(q) ==
  LET inputs == layer_fill_rect(q[1][1], q[1][2], q[2], q[3]) IN
    /\ sample = "rect" /\ sample' = "circle"
    /\ IF feed_forward(inputs) > BIAS
       THEN /\ added + subtracted < MaxAdjust
            /\ area' = area + Cardinality(inputs)
            /\ subtracted' = subtracted + 1
            /\ weights' = sub_inputs_from_weights(inputs)
       ELSE UNCHANGED <<weights, subtracted, area>>
    /\ UNCHANGED added

\* Mutant: every circle is added.
TrainEveryCircle(q) ==
  LET inputs == layer_fill_circle(q[1][1], q[1][2], q[2]) IN
    /\ sample = "circle" /\ sample' = "rect"
    /\ added + subtracted < MaxAdjust
    /\ area' = area + Cardinality(inputs)
    /\ added' = added + 1
    /\ weights' = add_inputs_to_weights(inputs)
    /\ UNCHANGED subtracted

\* The second half.
TrainCircle(q) ==
  LET inputs == layer_fill_circle(q[1][1], q[1][2], q[2]) IN
    /\ sample = "circle" /\ sample' = "rect"
    /\ IF feed_forward(inputs) < BIAS
       THEN /\ added + subtracted < MaxAdjust
            /\ area' = area + Cardinality(inputs)
            /\ added' = added + 1
            /\ weights' = add_inputs_to_weights(inputs)
       ELSE UNCHANGED <<weights, added, area>>
    /\ UNCHANGED subtracted

Next == \/ \E q \in Rects : TrainRect(q)
        \/ \E q \in Circles : TrainCircle(q)

Spec == Init /\ [][Next]_vars

-----------------------------------------------------------------------------
Norm == MapThenSumSet(LAMBDA c : weights[c] * weights[c], Cells)

\* Every corner and every centre can be drawn, and what the layer clips of a
\* sample is at most a circle of radius one: the asserts on w, h, r and on the
\* range hold.
SamplesFit ==
  /\ {q[1] : q \in Rects} = Cells /\ {q[1] : q \in Circles} = Cells
  /\ \A q \in Rects : Cardinality(layer_fill_rect(q[1][1], q[1][2], q[2], q[3])) = q[2] * q[3]
  /\ \A q \in Circles : q[2] > 1 =>
       /\ q[1][1] - q[2] >= 0 /\ q[1][1] + q[2] < WIDTH
       /\ q[1][2] - q[2] >= 0 /\ q[1][2] + q[2] < HEIGHT

\* The bound of the convergence argument: a correction is made only of a sample
\* on the wrong side, so the square of the weights grows by less than its area
\* and twice the bias for a circle, and by less than its area without twice the
\* bias for a rectangle (neural_network.cpp:159, 209, 216).
Safe == /\ SamplesFit
        /\ Norm <= area + 2 * (BIAS - 1) * added - 2 * (BIAS + 1) * subtracted
=============================================================================
