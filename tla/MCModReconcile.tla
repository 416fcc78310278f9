--------------------------- MODULE MCModReconcile ---------------------------
(* Mods a to d and the loader pack.  Both a and b need c, b a later        *)
(* version of it; a release of b that may yet appear needs a instead, by   *)
(* two versions.  The last two lists are refused: a chain too long, a mod  *)
(* listed twice.                                                           *)
EXTENDS ModReconcile

CONSTANTS a, b, c, d, loader

MCPackages == {a, b, c, d, loader}
MCVersions == {1, 2}
MCDeps == [r \in MCPackages \X MCVersions |->
    CASE r = <<a, 1>> -> << <<c, 1>> >>
      [] r = <<b, 1>> -> << <<c, 2>> >>
      [] r = <<b, 2>> -> << <<a, 2>>, <<a, 1>> >>
      [] r \in {<<c, 1>>, <<c, 2>>} -> << <<loader, 1>> >>
      [] r = <<d, 1>> -> << <<b, 2>> >>
      [] OTHER -> <<>>]

Line(p, v) == [pkg |-> p, pin |-> v, side |-> "install"]
MCUpcoming == {<<b, 2>>}
MCLists == {
    << [pkg |-> b, pin |-> 0, side |-> "client"], Line(b, 0), Line(c, 1), [pkg |-> a, pin |-> 1, side |-> "client"] >>,
    << Line(a, 1), Line(b, 1) >>,
    << Line(d, 1) >>,
    << Line(a, 1), Line(a, 0) >> }
=============================================================================
