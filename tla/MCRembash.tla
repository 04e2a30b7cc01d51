------------------------------ MODULE MCRembash ------------------------------
EXTENDS Rembash

Session(s, c, n) == [server |-> s, client |-> c, typed |-> n]

AllPrograms == {Session("lab1", "lab1", 1), Session("lab2", "lab2", 1),
                Session("refactor", "refactor", 1), Session("carver", "client", 1),
                Session("lab1", "refactor", 2), Session("lab1", "carver", 2),
                Session("carver", "carver", 1)}

Lab2   == {Session("lab2", "lab2", 1)}
Carver == {Session("carver", "client", 1)}

==============================================================================
