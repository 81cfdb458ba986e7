------------------------------ MODULE MCProto ------------------------------
(***************************************************************************)
(* Proto with a receive buffer of 12 bytes, an output buffer of 12 and     *)
(* command words of 3 characters, so that every limit is met.              *)
(***************************************************************************)
EXTENDS Proto

k == 107

Key(len) == [i \in 1 .. len |-> k]

\* Characters that must be escaped, every shape of argument, lines longer than
\* the output buffer that stay inside it and one that does not, and data around
\* the limit of the receive buffer: 7 bytes fit, 8 do not with their NUL, 11 do
\* not.
Messages ==
  { Message(3, <<LF>>),                          \* READ
    Message(4, <<k, 0, QUOTE, SP, BACKSLASH>>),  \* WRITE
    Message(129, <<k, 0>> \o Key(6)),            \* INFO
    Message(7, <<LF, LF, LF>>),                  \* PING
    Message(128, <<200>>),                       \* VERSION
    Message(5, <<>>),                            \* BEGIN
    Message(7, Key(7)), Message(7, Key(8)), Message(7, Key(11)) }

Line(line, answer) == [line |-> Append(line, LF), msg |-> answer]

H == 72
R == 82
W == 87

Lines ==
  { Line(<<SP>>, None),
    Line(<<R, SP, k, SP, SP, CR>>, Message(3, <<k>>)),
    Line(<<R>>, Error),
    Line(<<66, SP, k>>, Error),
    Line(<<64, SP, k>>, Error),
    Line(<<R, R, R, R, R, SP, k>>, Error),
    Line(<<H, SP, DIGIT(2), DIGIT(5), DIGIT(6)>>, Error),
    Line(<<H, SP, DIGIT(1), SP, k, SP, k>>, Message(0, <<1, k, SP, k>>)),
    Line(<<R, SP, QUOTE, k>>, Error),
    Line(<<R, SP, QUOTE, BACKSLASH, DIGIT(8), QUOTE>>, Error),
    Line(<<R, SP, QUOTE, BACKSLASH, DIGIT(5), DIGIT(0), DIGIT(1), QUOTE>>, Message(3, <<65>>)),
    Line(<<R, SP, QUOTE, k, QUOTE, k>>, Error),
    Line(<<W, SP, k, SP, SP, k, SP, k, SP>>, Message(4, <<k, 0, k, SP, k>>)),
    Line(<<W, SP, k>>, Message(4, <<k>>)),
    Line(<<80>>, Message(7, <<>>)),
    Line(<<104>>, Message(PSEUDO_HELP, <<>>)),
    \* Larger than a message may be.  A key that leaves no room for the NUL
    \* after it: the line is dropped.
    Line(<<W, SP>> \o Key(11) \o <<SP, k>>, None),
    \* Keys that do not fit: the connection ends.
    Line(<<R, SP>> \o Key(12), None),
    Line(<<R, SP, QUOTE>> \o Key(12), None),
    Line(<<R, SP, QUOTE>> \o Key(11) \o Octal(k), None) }

=============================================================================
