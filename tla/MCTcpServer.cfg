\* The statement order of visensor-srv, two clients on the data port, two on the config port.
SPECIFICATION FairSpec
CONSTANTS
    data = data
    config = config
    d1 = d1
    d2 = d2
    c1 = c1
    c2 = c2
    NoOne = NoOne
    Servers = {data, config}
    Senders = {data}
    Clients = {d1, d2, c1, c2}
    Target <- MCTarget
    AcceptNext <- VisensorOrder
INVARIANTS
    TypeOK
    ListenOrServe
    SocketExclusive
PROPERTIES
    LiveClientKept
    NextClientServed
