------------------------------ MODULE RayCaster ------------------------------
(***************************************************************************)
(* RayCaster (plan_env/raycast.cpp) in the plane: the voxels on the way    *)
(* from the middle of one voxel to the middle of another.  tMax, the time  *)
(* at which the ray next crosses a boundary of an axis, is (2n+1)/(2|d|)   *)
(* after n steps along it; two of them are compared by their products.     *)
(***************************************************************************)
EXTENDS Integers, Sequences

Abs(n) == IF n < 0 THEN -n ELSE n

signum(n) == IF n = 0 THEN 0 ELSE n \div Abs(n)

(* setInput and the loop over step(), with the last voxel, which step()    *)
(* reaches but does not return.  steps[i] counts the steps along axis i.   *)
RayLine(a, b) ==
  LET d == <<b[1] - a[1], b[2] - a[2]>>
      (* tMaxX_ < tMaxY_; an axis without a way to go is never crossed.    *)
      xFirst(x, y) == \/ d[2] = 0
                      \/ d[1] # 0 /\ (2 * x + 1) * Abs(d[2]) < (2 * y + 1) * Abs(d[1])
      At(x, y) == <<a[1] + x * signum(d[1]), a[2] + y * signum(d[2])>>
      way[x \in 0 .. Abs(d[1]), y \in 0 .. Abs(d[2])] ==
        IF At(x, y) = b THEN <<b>>
        ELSE IF xFirst(x, y) THEN <<At(x, y)>> \o way[x + 1, y]
        ELSE <<At(x, y)>> \o way[x, y + 1]
  IN  way[0, 0]
=============================================================================
