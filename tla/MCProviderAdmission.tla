------------------------ MODULE MCProviderAdmission ------------------------
EXTENDS ProviderAdmission

CONSTANTS p1, p2, t1, t2

Both == {p1, p2}
Two == {t1, t2}
============================================================================
