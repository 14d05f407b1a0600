------------------------------- MODULE FsPaths -------------------------------
(***************************************************************************)
(* The paths of the calls of Fs, for MCFs and MCBcache.                    *)
(***************************************************************************)

\* a is a directory or a file, b a file in the root, and a/b either.  Only open()
\* goes up again.
Paths ==
  LET a == <<"a">>
      b == <<"b">>
      ab == <<"a", "b">>
  IN  [create |-> {a, b, ab}, unlink |-> {a, b, ab}, mkdir |-> {a, ab},
       open |-> {a, ab, <<"a", "b", "..">>}, link |-> {b, ab}, newlink |-> {b, ab}]
=============================================================================
