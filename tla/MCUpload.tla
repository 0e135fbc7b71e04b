-------------------------------- MODULE MCUpload --------------------------------
EXTENDS Upload

\* A file, a file of the same size that differs in its first block, a shorter one.
ThreeVersions == {<<"a", "b">>, <<"c", "b">>, <<"a">>}
OneLongFile == {<<"a", "b", "c", "d">>}
================================================================================
