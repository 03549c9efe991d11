----------------------------- MODULE MCBddCache -----------------------------
(* Instances of the cache: three variables of domain 0, so rows have five   *)
(* entries.                                                                 *)
EXTENDS BddCache

ThreeIds == {2, 3, 4}

(* Covers with one, three, four and eight numbers.                          *)
FourCovers == { << <<0, 0, 1, 0, 1>> >>,                         \* {6}
                << <<1, 1, 0, 0, -1>>, <<0, 1, 1, 0, 1>> >>,     \* {1, 5, 6}
                << <<-1, 1, 1, 0, -1>> >>,                       \* {2, 3, 6, 7}
                << <<-1, 0, -1, 0, -1>> >> }                     \* 0 .. 7
=============================================================================
