------------------------------- MODULE MCVfs --------------------------------
EXTENDS Vfs

MCContents == {<<"x">>, <<"y", "z">>}
MCContentsWithEmpty == {<<>>, <<"x">>}
=============================================================================
