----------------------------- MODULE MCSyscall ------------------------------
(* Two descriptors and room for two of three files of two bytes.  One is   *)
(* appended to, one truncated and written at any position, so that holes   *)
(* arise, one only read; the paths reach every error of lookup and         *)
(* creation.                                                               *)
EXTENDS Syscall

CONSTANTS a, b, c

MCName == {a, b, c}
MCOpens ==
    [path : {<<a>>}, flags : {{"RDWR", "CREAT", "APPEND"}, {"CREAT", "TRUNC"}}]
    \cup [path : {<<b>>}, flags : {{"RDWR", "CREAT"}, {"RDWR", "TRUNC"}}]
    \cup [path : {<<c>>}, flags : {{"CREAT"}}]
    \cup [path : {<<>>, Relative, TooLong, <<a, b>>, <<BadName>>}, flags : {{}}]
    \cup [path : {<<>>}, flags : {{"WRONLY"}}]
MCBuffers == {<<>>, <<1>>, <<1, 1, 1>>}
MCRegions == {[base |-> 2, limit |-> 7], [base |-> 5, limit |-> 3]}
MCSeeks == [by : {1, 3}, whence : {"SET"}]
           \cup {[by |-> -1, whence |-> "CUR"], [by |-> 0, whence |-> "END"], [by |-> 1, whence |-> "OTHER"]}
MCSeeds == [path : {<<a>>}, buf : {<<1>>, <<1, 1, 1>>}] \cup [path : {<<>>}, buf : {<<>>}]
=============================================================================
