------------------------------- MODULE MCFindDup -------------------------------
EXTENDS FindDup

\* Text of two lengths, and a content with a NUL and a byte above 127.
SomeContents == {<<97>>, <<97, 98>>, <<0, 200>>}

\* Five names of three files.  The names are in the order of the inodes, since
\* the sorts make the same of any other; the first may have no file.
FiveNames == {<<0, 1, 1, 2, 3>>, <<1, 1, 2, 2, 3>>, <<1, 2, 2, 3, 3>>}
================================================================================
