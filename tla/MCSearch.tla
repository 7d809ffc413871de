------------------------------ MODULE MCSearch ------------------------------
EXTENDS Search
=============================================================================
