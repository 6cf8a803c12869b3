------------------------------ MODULE MCMcsfs1 ------------------------------
EXTENDS Mcsfs1

CONSTANTS a, b, bad, x, y

MCNameError == (a :> "OK") @@ (b :> "OK") @@ (bad :> "NAMETOOLONG")
MCContent == { <<x>>, <<x, x, y>>, <<x, x, x, x>> }
=============================================================================
