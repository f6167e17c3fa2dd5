CONSTANTS
    Home = Home
    Abroad = Abroad
    Office = Office
    Cafe = Cafe
    RouterIP = RouterIP
    OfficeIP = OfficeIP
    CafeMAC = CafeMAC
    AS1 = AS1
    AS2 = AS2
    Places = {Home, Abroad, Cafe}
    Hidden = {Home, Abroad}
    Gateway <- MCGateway
    ISP <- MCISP
    NoASN = NoASN
    NoGateway = NoGateway
    TTL = 1
SPECIFICATION Spec
PROPERTY BareOutagesEnd
