------------------------------ MODULE MCBuddy -------------------------------
EXTENDS Buddy
\* Page 0 holds the kernel's page bitmap.
MCBootUsed == {0}
\* A large machine: the bitmap does not fit below 640 KB and page 0 is free.
ZeroFree == {2}
=============================================================================
