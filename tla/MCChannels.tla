------------------------------ MODULE MCChannels ------------------------------
EXTENDS Channels

MCNums == {0, 1}
MCSends == {<<CLIENT, "DATA", "banner", FALSE>>, <<TARGET, "DATA", "", FALSE>>,
            <<TARGET, "WINDOW", "", FALSE>>, <<CLIENT, "EOF", "", FALSE>>,
            <<CLIENT, "REQUEST", "sftp", TRUE>>, <<TARGET, "REQUEST", "keepalive", TRUE>>,
            <<CLIENT, "REQUEST", "denied", FALSE>>, <<TARGET, "REQUEST", "denied", TRUE>>}
MCGlobals == {<<CLIENT, "no-more-sessions", FALSE>>,
              <<CLIENT, "hostkeys-prove", TRUE>>,
              <<CLIENT, "tcpip-forward", TRUE>>, <<CLIENT, "tcpip-forward 0", TRUE>>,
              <<CLIENT, "denied", FALSE>>,
              <<TARGET, "hostkeys", FALSE>>}
=============================================================================
