------------------------------ MODULE MCWsParser -------------------------------
EXTENDS WsParser

\* Bodies that are empty, shorter and longer than the mask, and one whose length takes
\* two bytes; each form of length.
MCFrames == [length : {0, 3, 6}, ext : {0, 2, 8}, masked : BOOLEAN]
              \union [length : {258}, ext : {2}, masked : {TRUE}]
===============================================================================
