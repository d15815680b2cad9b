\* The statement order of slam_sensor_server, whose only server is the data server.
SPECIFICATION Spec
CONSTANTS
    data = data
    config = config
    d1 = d1
    d2 = d2
    c1 = c1
    c2 = c2
    NoOne = NoOne
    Servers = {data}
    Senders = {data}
    Clients = {d1, d2}
    Target <- MCTarget
    AcceptNext <- SlamOrder
INVARIANT ListenOrServe
