------------------------------ MODULE MCSampling ------------------------------
(* Small instances of Sampling: matrices of up to eight cells over the field *)
(* of 17 elements, and every way to cut them.                                *)
EXTENDS Sampling

CONSTANT Fractions   \* how many clients a fleet may have

MCDims == {Dimensions(1, 1), Dimensions(2, 2), Dimensions(1, 4), Dimensions(4, 1),
           Dimensions(2, 4), Dimensions(4, 2)}

\* Smaller than the grid, larger, and no divisor of it.
MCTargets == {Dimensions(1, 1), Dimensions(2, 2), Dimensions(4, 1), Dimensions(2, 4),
              Dimensions(16, 16), Dimensions(3, 3)}

Values(dims) ==
  [y \in Indices(dims.rows) |-> [x \in Indices(dims.cols) |-> (5 * (y * dims.cols + x) + 3) % Prime]]

\* The target does not matter for single cells.
MCJobs ==
  {[dims |-> d, target |-> t, fraction |-> f, kind |-> "mcell", evals |-> Values(d)]
     : d \in MCDims, t \in MCTargets, f \in Fractions} \cup
  {[dims |-> d, target |-> Dimensions(1, 1), fraction |-> f, kind |-> "cell", evals |-> Values(d)]
     : d \in MCDims, f \in Fractions}

\* Cut short, and any byte changed by one.
MCMangle(bytes) ==
  {SubSeq(bytes, 1, Len(bytes) - 1)} \cup
  {[bytes EXCEPT ![k] = (@ + step) % 256] : k \in DOMAIN bytes, step \in {1, 255}}

===============================================================================
