------------------------------ MODULE MCMarshal ------------------------------
EXTENDS Marshal

AllCalls == DOMAIN Prototype
\* A call that succeeds reports nothing or something.
NoneOrSome == {0, 1}
\* EPERM, whose negation is -1, and any other.
PermOrOther == {1, 2}
=============================================================================
