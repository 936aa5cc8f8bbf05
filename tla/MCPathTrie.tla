------------------------------ MODULE MCPathTrie ------------------------------
EXTENDS PathTrie
===============================================================================
