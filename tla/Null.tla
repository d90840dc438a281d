-------------------------------- MODULE Null --------------------------------
\* The null and the undefined of the source, wherever a map has no entry or
\* a field no value.
CONSTANT NULL
=============================================================================
