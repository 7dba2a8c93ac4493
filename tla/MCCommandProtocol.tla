--------------------------- MODULE MCCommandProtocol ---------------------------
(* CommandProtocol for TLC: two folders, one of a long name, and a file. *)
EXTENDS CommandProtocol

CONSTANTS a, b, long

Cat(chunks) == [name |-> "cat", chunks |-> chunks, targets |-> <<>>,
                recursive |-> FALSE, force |-> FALSE]
Rm(targets, r, f) == [name |-> "rm", chunks |-> <<>>, targets |-> targets,
                      recursive |-> r, force |-> f]
Other(name, f) == [name |-> name, chunks |-> <<>>, targets |-> <<>>,
                   recursive |-> FALSE, force |-> f]

Word(n) == [node |-> n, pattern |-> FALSE]
Match(n) == [node |-> n, pattern |-> TRUE]

MCCommands ==
    {Cat(c) : c \in {<<1, 2, 2>>, <<3, 1>>}}
    \cup {Rm(t, r, f) : t \in {<<Word(a), Word(b), Word(long)>>, <<Match(a), Match(b)>>,
                               <<Word(long), Match(a)>>, <<Word(b), Word(a)>>},
                        r \in BOOLEAN, f \in BOOLEAN}
    \cup {Other(n, f) : n \in {"deleteversions", "passwd"}, f \in BOOLEAN}

=============================================================================
