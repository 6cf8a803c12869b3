------------------------------ MODULE MCMcsfs1j ------------------------------
EXTENDS Mcsfs1j

CONSTANTS z, x

MCData == { [size |-> 0, bytes |-> z], [size |-> 1, bytes |-> x], [size |-> 2, bytes |-> x] }
MCBytes == {z, x}
=============================================================================
