---------------------------- MODULE LibraryTables ----------------------------
(***************************************************************************)
(* The function info tables of libexec.so and libdos.so.  A row is the      *)
(* offset of a function and the C function behind it, or NoFunction.        *)
(* Names and argument registers are left out (Thunks has the latter), and   *)
(* so are rows without a function that repeat the offset before them.       *)
(***************************************************************************)
EXTENDS Integers, Sequences

NoFunction == "none"

\* The offsets from first to last, six bytes apart.
Entries(first, last) == [i \in 1 .. (last - first) \div 6 + 1 |-> first + 6 * (i - 1)]

\* Rows for these offsets, with the functions there are.
Rows(offsets, function) ==
    [i \in DOMAIN offsets |->
        [offset |-> offsets[i],
         func   |-> IF offsets[i] \in DOMAIN function THEN function[offsets[i]]
                    ELSE NoFunction]]

ExecTable ==
    Rows(Entries(30, 30) \o Entries(72, 498) \o Entries(522, 732)
             \o Entries(762, 786) \o Entries(828, 828) \o Entries(852, 906),
         [o \in {414, 552} |-> IF o = 414 THEN "exec_close_library"
                               ELSE "exec_open_library"])

DosTable ==
    Rows(Entries(30, 156) \o Entries(174, 480) \o Entries(492, 846)
             \o Entries(858, 858) \o Entries(870, 918) \o Entries(930, 954)
             \o Entries(966, 972) \o Entries(984, 996),
         [o \in {948} |-> "dos_put_str"])
=============================================================================
