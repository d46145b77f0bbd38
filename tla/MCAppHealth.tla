----------------------------- MODULE MCAppHealth -----------------------------
EXTENDS AppHealth
=============================================================================
