-------------------------------- MODULE MCFs --------------------------------
EXTENDS Fs

Abs(s) == [abs |-> TRUE, elems |-> s]
Rel(s) == [abs |-> FALSE, elems |-> s]
Call(op, path) == [op |-> op, path |-> path, new |-> path]

\* directories are made in the root only
FlatCalls ==
  [p \in Procs |->
    IF p = 1
      THEN {Call("mkdir", Abs(<<"a">>)), Call("creat", Abs(<<"a", "b">>)),
            Call("unlink", Abs(<<"a">>))}
      ELSE {Call("unlink", Abs(<<"a", "b">>)), Call("chdir", Abs(<<"a">>)),
            Call("mknod", Abs(<<"a">>)), Call("unlink", Rel(<<"..">>)), Call("trunc", Rel(<<"b">>)),
            [op |-> "link", path |-> Rel(<<"b">>), new |-> Abs(<<"a", "a">>)]}]

\* and in each other
NestedCalls ==
  [p \in Procs |->
    IF p = 1
      THEN {Call("mkdir", Abs(<<"a">>)), Call("mkdir", Abs(<<"a", "b">>)),
            Call("unlink", Abs(<<"a">>)), Call("unlink", Abs(<<"a", "b">>))}
      ELSE {Call("chdir", Abs(<<"a", "b">>)), Call("open", Rel(<<"..">>))}]
=============================================================================
