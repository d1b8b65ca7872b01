------------------------------ MODULE MCThunks ------------------------------
\* The rows of the two function tables that have a function.
EXTENDS Thunks

Fn(name, args, result) == [name |-> name, args |-> args, result |-> result]
Implemented == {Fn("exec_open_library",  <<0, 9>>, 0),
                Fn("exec_close_library", <<9>>, 0),
                Fn("dos_put_str",        <<1>>, 0)}
=============================================================================
