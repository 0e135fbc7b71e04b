------------------------------- MODULE MCDownload -------------------------------
EXTENDS Download

\* A file, one of the same size that differs in its first block, a shorter one.
ThreeVersions == {<<"a", "b">>, <<"c", "b">>, <<"a">>}
================================================================================
