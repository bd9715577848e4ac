SPECIFICATION ISpec
CONSTANTS
    r1 = r1
    w1 = w1
    w2 = w2
    None = None
    Size = 3
    Byte = {b1, b2, b3}
    MaxRequest = 4
    s1 = s1
    s2 = s2
    Listener = Listener
CHECK_DEADLOCK FALSE
INVARIANTS StreamExact SleepersWait PollersTold TcpStreamExact ConnectAnswered ConnectionsSound
PROPERTIES ImplementsFifo
