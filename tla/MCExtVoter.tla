----------------------------- MODULE MCExtVoter -----------------------------
EXTENDS ExtVoter

MCOutput == <<"a", "b">>
=============================================================================
