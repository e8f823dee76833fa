\* Joining while the first member is still binding.
CONSTANTS
  a1 = a1  a2 = a2  b1 = b1  alice = alice  bob = bob  lb = lb  k = k
  web1 = web1  web2 = web2  web3 = web3  dns1 = dns1  solo2 = solo2  ssh2 = ssh2  ssh3 = ssh3
  p80 = p80  p22 = p22
  Client = {a1, a2, b1}
  User = {alice, bob}
  Proxy = {web1, web2, web3, dns1, solo2, ssh2, ssh3}
  Port = {p80, p22}
  Group = {lb}
  Key = {k}
  Faults = {}
  None = None
  UserOf <- MCUserOf
  Conf <- MCConf
SPECIFICATION Spec
\* All clients of the instance may be gone.
CHECK_DEADLOCK FALSE
INVARIANT JoinedIsServed
