----------------------------- MODULE MCClientConfig -----------------------------
\* An instance of ClientConfig for TLC.
EXTENDS ClientConfig

\* The same character n times.
Times(c, n) == [i \in 1..n |-> c]

\* Short passwords, the last and the first lengths about which the encoding is
\* sure, one that is sometimes refused, one for which the buffer is too small, and one
\* with a blank, which is not valid.
MCPasswords == {<<112, 64, 53>>, Times(48, 18), Times(126, 19), Times(48, 24),
                Times(122, 40), <<112, 32>>, <<>>}

MCDefaults ==
  [key \in Keys |-> CASE key = "secondsToDelay" -> 10
                      [] key = "runtime"        -> 2
                      [] key = "password"       -> <<97, 100, 109, 105, 110>>
                      [] OTHER                  -> "default"]

\* No argument, one, or a password or one that is refused among others, with
\* and without -s.
MCCommandLines ==
  LET some == {Argument("contName", "other"), Argument("contName", BadText),
               Argument("cseRootAddr", "other"), Unknown,
               Argument("secondsToDelay", 5), Argument("secondsToDelay", 1000000)}
      typed == {Argument("password", p) : p \in MCPasswords}
  IN  {<<>>, <<Save>>} \cup {<<a>> : a \in some \cup typed}
        \cup {<<a, Save>> : a \in some \cup typed}
        \cup {<<p, a, Save>> : p \in typed, a \in some}

=============================================================================
