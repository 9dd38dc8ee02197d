------------------------------- MODULE MCVma ---------------------------------
EXTENDS Vma
=============================================================================
